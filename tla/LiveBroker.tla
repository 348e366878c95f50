------------------------------ MODULE LiveBroker ------------------------------
(***************************************************************************)
(* LiveBroker: spot, long-only execution through an exchange adapter.  It  *)
(* keeps lots, the loss realised today and the day it is halted for, all   *)
(* in memory; a restart starts from nothing.  One action is one call of    *)
(* submit_market_order with one outcome.                                   *)
(*                                                                         *)
(* Prices are abstracted: the loss a SELL realises is a choice.            *)
(***************************************************************************)
EXTENDS Venue, Integers

CONSTANTS
    MaxPositions,   \* max_open_positions
    LossCap,        \* max_daily_loss
    Losses,         \* the losses one SELL can realise, 0 for a gain
    MaxLost,        \* bound: responses lost
    MaxRestarts     \* bound: restarts of the broker's process

ASSUME LiveAssumption ==
    /\ MaxPositions \in Nat \ {0}
    /\ LossCap \in Nat \ {0}
    /\ Losses \subseteq Nat
    /\ MaxLost \in Nat
    /\ MaxRestarts \in Nat

VARIABLES
    lots,           \* _lots: quantity the broker believes to hold
    lossToday,      \* _loss_today, at most LossCap
    lossDay,        \* _loss_day
    haltedDay,      \* _halted_until_day
    lost,           \* responses lost so far, by side
    restarts,       \* restarts so far
    bought,         \* history: units the venue bought in the current bucket
    realised        \* history: losses of the current day since the last restart

brokerVars == <<lots, lossToday, lossDay, haltedDay>>
historyVars == <<lost, restarts, bought, realised>>
vars == <<venueVars, brokerVars, historyVars>>

NoDay == -1
Capped(n) == IF n > LossCap THEN LossCap ELSE n
Today == Day(now)

OpenLots == {s \in Symbols : lots[s] > 0}

TypeOK ==
    /\ VenueTypeOK
    /\ lots \in [Symbols -> Nat]
    /\ lossToday \in 0..LossCap
    /\ lossDay \in Nat
    /\ haltedDay \in Nat \cup {NoDay}
    /\ lost \in [Sides -> 0..MaxLost]
    /\ restarts \in 0..MaxRestarts
    /\ bought \in [Symbols -> Nat]
    /\ realised \in 0..LossCap

Init ==
    /\ VenueInit
    /\ lots = [s \in Symbols |-> 0]
    /\ lossToday = 0
    /\ lossDay = Day(0)
    /\ haltedDay = NoDay
    /\ lost = [side \in Sides |-> 0]
    /\ restarts = 0
    /\ bought = [s \in Symbols |-> 0]
    /\ realised = 0

------------------------------------------------------------------------------
(* submit_market_order *)

\* _roll_daily_state, the first thing every call does, the refused ones
\* included.  A call on another day than the last one starts from zero.
NewDay == Today # lossDay
RolledLoss == IF NewDay THEN 0 ELSE lossToday
RolledHalt == IF NewDay THEN NoDay ELSE haltedDay

Rolled == /\ lossDay' = Today
          /\ lossToday' = RolledLoss
          /\ haltedDay' = RolledHalt

\* Mutant: the kill switch is not tested.
BuyAllowedWhenHalted(s, q) ==
    /\ q <= MaxStake
    /\ Cardinality(OpenLots) < MaxPositions

\* Mutant: one position too many.
BuyAllowedOneMore(s, q) ==
    /\ RolledHalt # Today
    /\ q <= MaxStake
    /\ Cardinality(OpenLots) <= MaxPositions

\* The kill switch, the stake cap and the position cap, in this order.
BuyAllowed(s, q) ==
    /\ RolledHalt # Today
    /\ q <= MaxStake
    /\ Cardinality(OpenLots) < MaxPositions

\* A SELL never asks for more than the lot.
SellSize(s, q) == IF q < lots[s] THEN q ELSE lots[s]

\* _apply_fill for a BUY.
ApplyBuy(s, f) == lots' = [lots EXCEPT ![s] = @ + f]

\* _apply_fill for a SELL that realises a loss of l: the halt is set for the day
\* of the call once the loss of that day reaches the cap.
ApplySell(s, f, l) ==
    LET sold == IF f < lots[s] THEN f ELSE lots[s]
    IN  /\ lots' = [lots EXCEPT ![s] = @ - sold]
        /\ lossDay' = Today
        /\ lossToday' = Capped(RolledLoss + l)
        /\ haltedDay' = IF lossToday' >= LossCap THEN Today ELSE RolledHalt
        /\ realised' = Capped(realised + l)

\* Mutant: the lot grows by what was ordered, not by what was filled.
BuyAsOrdered(s, q, f) ==
    /\ BuyAllowed(s, q)
    /\ Executes(s, "buy", q, f)
    /\ Rolled
    /\ ApplyBuy(s, q)
    /\ bought' = [bought EXCEPT ![s] = @ + f]
    /\ UNCHANGED <<lost, restarts, realised>>

\* A BUY that the venue fills and confirms.
Buy(s, q, f) ==
    /\ BuyAllowed(s, q)
    /\ Executes(s, "buy", q, f)
    /\ Rolled
    /\ ApplyBuy(s, f)
    /\ bought' = [bought EXCEPT ![s] = @ + f]
    /\ UNCHANGED <<lost, restarts, realised>>

\* A SELL that the venue fills and confirms.
Sell(s, q, f, l) ==
    /\ lots[s] > 0
    /\ Executes(s, "sell", SellSize(s, q), f)
    /\ ApplySell(s, f, l)
    /\ UNCHANGED <<lost, restarts, bought>>

\* The call is sent again within its bucket and MockExchange answers with the
\* prior fill: the broker applies it as any other.
BuyAgain(s, q, f) ==
    /\ BuyAllowed(s, q)
    /\ Replayed(s, "buy", f)
    /\ Rolled
    /\ ApplyBuy(s, f)
    /\ UNCHANGED historyVars

SellAgain(s, q, f, l) ==
    /\ lots[s] > 0
    /\ Replayed(s, "sell", f)
    /\ ApplySell(s, f, l)
    /\ UNCHANGED <<lost, restarts, bought>>

\* Mutant: a lost answer is taken for a full fill.
BuyAssumedFilled(s, q, f) ==
    /\ adapter = "binance"
    /\ lost["buy"] < MaxLost
    /\ BuyAllowed(s, q)
    /\ Executes(s, "buy", q, f)
    /\ Rolled
    /\ ApplyBuy(s, q)
    /\ lost' = [lost EXCEPT !["buy"] = @ + 1]
    /\ bought' = [bought EXCEPT ![s] = @ + f]
    /\ UNCHANGED <<restarts, realised>>

\* The venue executes and the answer is lost: ExchangeUnreachable, hence
\* LiveBrokerError, and the broker's lots stay as they were.
BuyUnconfirmed(s, q, f) ==
    /\ adapter = "binance"
    /\ lost["buy"] < MaxLost
    /\ BuyAllowed(s, q)
    /\ Executes(s, "buy", q, f)
    /\ Rolled
    /\ lost' = [lost EXCEPT !["buy"] = @ + 1]
    /\ bought' = [bought EXCEPT ![s] = @ + f]
    /\ UNCHANGED <<lots, restarts, realised>>

SellUnconfirmed(s, q, f) ==
    /\ adapter = "binance"
    /\ lost["sell"] < MaxLost
    /\ lots[s] > 0
    /\ Executes(s, "sell", SellSize(s, q), f)
    /\ Rolled
    /\ lost' = [lost EXCEPT !["sell"] = @ + 1]
    /\ UNCHANGED <<lots, restarts, bought, realised>>

\* Every call that ends in an exception without an execution: the broker's own
\* limits, no position, OrderRejected, ExchangeUnreachable before execution.
Refused ==
    /\ Rolled
    /\ UNCHANGED <<venueVars, lots, historyVars>>

\* A new process: __init__ knows nothing of the lots, the loss or the halt.
Restart ==
    /\ restarts < MaxRestarts
    /\ Rebuilt
    /\ bought' = IF adapter = "mock" THEN [s \in Symbols |-> 0] ELSE bought
    /\ restarts' = restarts + 1
    /\ lots' = [s \in Symbols |-> 0]
    /\ lossToday' = 0
    /\ lossDay' = Today
    /\ haltedDay' = NoDay
    /\ realised' = 0
    /\ UNCHANGED lost

Clock ==
    /\ Minute
    /\ bought' = [s \in Symbols |-> 0]
    /\ realised' = IF Day(now') = Today THEN realised ELSE 0
    /\ UNCHANGED <<brokerVars, lost, restarts>>

Next ==
    \/ \E s \in Symbols, q, f \in Quantities :
          \/ Buy(s, q, f)
          \/ BuyAgain(s, q, f)
          \/ BuyUnconfirmed(s, q, f)
          \/ SellUnconfirmed(s, q, f)
          \/ \E l \in Losses : Sell(s, q, f, l) \/ SellAgain(s, q, f, l)
    \/ Refused
    \/ Restart
    \/ Clock

Spec == Init /\ [][Next]_vars

------------------------------------------------------------------------------
(* What the broker promises *)

\* "Re-sending the same call after a crash/restart cannot double-fill": within
\* one bucket the venue buys at most one stake of a symbol, although calls are
\* repeated, answers get lost and the broker restarts.
OneStakePerBucket == \A s \in Symbols : bought[s] <= MaxStake

\* Fail-closed: as long as no answer to a SELL was lost, the broker never
\* believes to hold more than the venue does, across restarts and lost BUYs.
NeverAheadOfVenue ==
    adapter = "binance" /\ lost["sell"] = 0 => \A s \in Symbols : lots[s] <= held[s]

\* Without lost answers and restarts the lots mirror the venue exactly.
LotsMirrorVenue ==
    adapter = "binance" /\ restarts = 0 /\ lost = [side \in Sides |-> 0] => lots = held

\* The position cap bounds the open lots, whatever fills arrive.
LotLimit == Cardinality(OpenLots) <= MaxPositions

\* Once the losses realised today reach the cap, no call makes the venue hold
\* more for the rest of the day, unless the process restarts.
CapStopsEntries ==
    [][realised >= LossCap /\ Day(now') = Today
         => \A s \in Symbols : held'[s] <= held[s]]_vars
=============================================================================
