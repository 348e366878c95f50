-------------------------------- MODULE Venue --------------------------------
(***************************************************************************)
(* The exchange behind the `Exchange` protocol, as LiveBroker sees it: what *)
(* it holds, which client order ids it has filled, and the clock.          *)
(*                                                                         *)
(* Two adapters implement the protocol.  MockExchange (tests, dry run)     *)
(* answers a filled id with its prior fill.  BinanceExchange turns the     *)
(* refusal of a duplicate id into OrderRejected, can fill a part of an     *)
(* order, and reports ExchangeUnreachable for an order that did execute    *)
(* when the response is lost or cannot be parsed.  `adapter` is the one the *)
(* broker was built with.                                                  *)
(*                                                                         *)
(* An id names (symbol, side, 60-second bucket), so ids of past buckets    *)
(* cannot recur and `filled` keeps those of the current one.               *)
(***************************************************************************)
EXTENDS Naturals, FiniteSets

CONSTANTS
    Symbols,        \* the traded symbols
    MaxStake,       \* max_stake_per_trade, in units of a reference price of 1
    Adapters,       \* the adapters to consider: "mock", "binance"
    BucketsPerDay,  \* 60-second buckets in a UTC day
    MaxTime,        \* bound: buckets in a behaviour
    MaxHeld         \* bound: units of one symbol the venue holds

ASSUME VenueAssumption ==
    /\ IsFiniteSet(Symbols)
    /\ MaxStake \in Nat \ {0}
    /\ Adapters \subseteq {"mock", "binance"}
    /\ BucketsPerDay \in Nat \ {0}
    /\ MaxTime \in Nat
    /\ MaxHeld \in Nat

VARIABLES
    adapter,    \* the adapter in use
    now,        \* the current bucket
    held,       \* what the venue holds of each symbol
    filled      \* (symbol, side) -> quantity filled under the current id, or 0

venueVars == <<adapter, now, held, filled>>

Sides == {"buy", "sell"}
\* Sizes a caller may ask for, one of them above the stake cap.
Quantities == 1..(MaxStake + 1)
Day(t) == t \div BucketsPerDay

VenueTypeOK ==
    /\ adapter \in Adapters
    /\ now \in 0..MaxTime
    /\ held \in [Symbols -> Nat]
    /\ filled \in [Symbols \X Sides -> Nat]

VenueInit ==
    /\ adapter \in Adapters
    /\ now = 0
    /\ held = [s \in Symbols |-> 0]
    /\ filled = [id \in Symbols \X Sides |-> 0]

Minute ==
    /\ now < MaxTime
    /\ now' = now + 1
    /\ filled' = [id \in Symbols \X Sides |-> 0]
    /\ UNCHANGED <<adapter, held>>

\* generate_client_order_id, without the bucket that `filled` leaves implicit.
\* The broker passes no intent, so entries and exits differ by their side only.
ClientId(s, side) == <<s, side>>

\* The quantities a fresh order of q units can fill: MockExchange fills it
\* whole, Binance may fill a part.
FillSizes(q) == IF adapter = "mock" THEN {q} ELSE 1..q

\* Mutant: the venue does not look at the client order id.
ExecutesAnyId(s, side, q, f) ==
    /\ f \in FillSizes(q)
    /\ filled' = [filled EXCEPT ![ClientId(s, side)] = f]
    /\ \/ /\ side = "buy"
          /\ held[s] + f <= MaxHeld
          /\ held' = [held EXCEPT ![s] = @ + f]
       \/ /\ side = "sell"
          /\ q <= held[s]
          /\ held' = [held EXCEPT ![s] = @ - f]
    /\ UNCHANGED <<adapter, now>>

\* place_market_order executes: the id is fresh and there is enough to sell.
Executes(s, side, q, f) ==
    /\ filled[ClientId(s, side)] = 0
    /\ f \in FillSizes(q)
    /\ filled' = [filled EXCEPT ![ClientId(s, side)] = f]
    /\ \/ /\ side = "buy"
          /\ held[s] + f <= MaxHeld
          /\ held' = [held EXCEPT ![s] = @ + f]
       \/ /\ side = "sell"
          /\ q <= held[s]
          /\ held' = [held EXCEPT ![s] = @ - f]
    /\ UNCHANGED <<adapter, now>>

\* MockExchange answers an id it has filled with the prior fill.
Replayed(s, side, f) ==
    /\ adapter = "mock"
    /\ filled[ClientId(s, side)] # 0
    /\ f = filled[ClientId(s, side)]
    /\ UNCHANGED venueVars

\* A new process builds its adapter anew: MockExchange is empty, the exchange
\* behind BinanceExchange is as it was.
Rebuilt ==
    \/ adapter = "binance" /\ UNCHANGED venueVars
    \/ /\ adapter = "mock"
       /\ held' = [s \in Symbols |-> 0]
       /\ filled' = [id \in Symbols \X Sides |-> 0]
       /\ UNCHANGED <<adapter, now>>
=============================================================================
