----------------------------- MODULE LiveTrading -----------------------------
(***************************************************************************)
(* The observer trading through LiveBrokerAdapter: each position is known  *)
(* four times, by the venue (`held`), by the broker (`lots`), by the       *)
(* observer's memory (`tracked`) and by paper_trades (`row`, and `saved`   *)
(* on disk).  An order is a real execution, its row is a write that can    *)
(* raise, be rolled back with the scan's batch, or be lost in a crash.     *)
(*                                                                         *)
(* Positions are opened during a scan, inside one batch, and closed after  *)
(* it, as in module Observer; row ids and cycle failures are left there.   *)
(***************************************************************************)
EXTENDS LiveBroker

CONSTANT MaxFaults      \* bound: database writes that raise

ASSUME FaultsAssumption == MaxFaults \in Nat

VARIABLES
    tracked,    \* Observer._open: symbol -> qty, 0 without a position
    row,        \* quantity of the symbol's open row, as the connection sees it
    saved,      \* the same on disk
    scanning,   \* the scan's batch is open
    faults,     \* history: writes that raised
    remainders, \* history: a SELL filled a part and its row was closed
    unbooked    \* history: a SELL was filled and the write of its row raised

ledgerVars == <<tracked, row, saved, scanning, faults, remainders, unbooked>>
liveVars == <<vars, ledgerVars>>

None == [s \in Symbols |-> 0]

LiveTypeOK ==
    /\ TypeOK
    /\ {tracked, row, saved} \subseteq [Symbols -> Nat]
    /\ {scanning, remainders, unbooked} \subseteq BOOLEAN
    /\ faults \in 0..MaxFaults

LiveInit ==
    /\ Init
    /\ tracked = None
    /\ row = None
    /\ saved = None
    /\ scanning = FALSE
    /\ faults = 0
    /\ remainders = FALSE
    /\ unbooked = FALSE

Fault == faults < MaxFaults /\ faults' = faults + 1

BeginScan ==
    /\ ~scanning
    /\ scanning' = TRUE
    /\ UNCHANGED <<vars, tracked, row, saved, faults, remainders, unbooked>>

\* Mutant: the row and the position carry the requested quantity.
OpenLongAsRequested(s, q, f) ==
    /\ scanning
    /\ tracked[s] = 0
    /\ Buy(s, q, f) \/ BuyAgain(s, q, f)
    /\ row' = [row EXCEPT ![s] = q]
    /\ tracked' = [tracked EXCEPT ![s] = q]
    /\ UNCHANGED <<saved, scanning, faults, remainders, unbooked>>

\* open_long: the order, then the row, both with the quantity that was filled.
OpenLong(s, q, f) ==
    /\ scanning
    /\ tracked[s] = 0
    /\ Buy(s, q, f) \/ BuyAgain(s, q, f)
    /\ row' = [row EXCEPT ![s] = f]
    /\ tracked' = [tracked EXCEPT ![s] = f]
    /\ UNCHANGED <<saved, scanning, faults, remainders, unbooked>>

\* The order is filled and the insert raises: the exception leaves open_long,
\* and the observer takes the trade for not taken.
OpenUnrecorded(s, q, f) ==
    /\ scanning
    /\ tracked[s] = 0
    /\ Buy(s, q, f) \/ BuyAgain(s, q, f)
    /\ Fault
    /\ UNCHANGED <<tracked, row, saved, scanning, remainders, unbooked>>

\* The broker raises: no row, no position.
OpenRefused ==
    /\ scanning
    /\ \/ Refused
       \/ \E s \in Symbols, q, f \in Quantities :
             tracked[s] = 0 /\ BuyUnconfirmed(s, q, f)
    /\ UNCHANGED ledgerVars

\* The batch commits, or it is rolled back and the positions of the scan stay
\* in memory without their rows.
CommitScan ==
    /\ scanning
    /\ scanning' = FALSE
    /\ saved' = row
    /\ UNCHANGED <<vars, tracked, row, faults, remainders, unbooked>>

AbortScan ==
    /\ scanning
    /\ scanning' = FALSE
    /\ Fault
    /\ row' = saved
    /\ UNCHANGED <<vars, tracked, saved, remainders, unbooked>>

\* Mutant: the broker's position is left out, only the row is closed.
CloseLongRowOnly(s, f, l) ==
    /\ ~scanning
    /\ tracked[s] > 0
    /\ row' = [row EXCEPT ![s] = 0]
    /\ saved' = row'
    /\ tracked' = [tracked EXCEPT ![s] = 0]
    /\ UNCHANGED <<vars, scanning, faults, remainders, unbooked>>

\* close_long: a SELL of what the observer tracks, then the row is closed for
\* good, whatever part of it was filled.
CloseLong(s, f, l) ==
    /\ ~scanning
    /\ tracked[s] > 0
    /\ Sell(s, tracked[s], f, l) \/ SellAgain(s, tracked[s], f, l)
    /\ row' = [row EXCEPT ![s] = 0]
    /\ saved' = row'
    /\ tracked' = [tracked EXCEPT ![s] = 0]
    /\ remainders' = (remainders \/ f < tracked[s])
    /\ UNCHANGED <<scanning, faults, unbooked>>

\* The SELL is filled and the UPDATE or its commit raises: the observer keeps
\* the position; the UPDATE is lost, pending, or carried to disk by the commit
\* of the activity that reports the failure.
CloseUnrecorded(s, f, l) ==
    /\ ~scanning
    /\ tracked[s] > 0
    /\ Sell(s, tracked[s], f, l) \/ SellAgain(s, tracked[s], f, l)
    /\ Fault
    /\ row' \in {row, [row EXCEPT ![s] = 0]}
    /\ saved' \in {saved, row'}
    /\ remainders' = (remainders \/ f < tracked[s])
    /\ unbooked' = TRUE
    /\ UNCHANGED <<tracked, scanning>>

\* The broker raises: the position is kept for the next cycle.
CloseRefused ==
    /\ ~scanning
    /\ \/ Refused
       \/ \E s \in Symbols, f \in Quantities :
             tracked[s] > 0 /\ SellUnconfirmed(s, tracked[s], f)
    /\ UNCHANGED ledgerVars

\* A new process: what was not committed is gone, the open rows are adopted,
\* and the broker starts without lots.
RestartObserver ==
    /\ Restart
    /\ row' = saved
    /\ tracked' = saved
    /\ scanning' = FALSE
    /\ UNCHANGED <<saved, faults, remainders, unbooked>>

LiveNext ==
    \/ BeginScan
    \/ \E s \in Symbols, q, f \in Quantities : OpenLong(s, q, f) \/ OpenUnrecorded(s, q, f)
    \/ OpenRefused
    \/ CommitScan
    \/ AbortScan
    \/ \E s \in Symbols, f \in Quantities, l \in Losses :
          CloseLong(s, f, l) \/ CloseUnrecorded(s, f, l)
    \/ CloseRefused
    \/ RestartObserver
    \/ Clock /\ UNCHANGED ledgerVars

LiveSpec == LiveInit /\ [][LiveNext]_liveVars

------------------------------------------------------------------------------
(* What the four views owe each other *)

NoLoss == lost = [side \in Sides |-> 0]

\* Whatever crashes, failed inserts, rolled-back scans and lost answers to BUYs
\* there are, the ledger on disk never claims more of a symbol than the venue
\* holds, as long as every executed SELL reached its row.
LedgerBacked ==
    adapter = "binance" /\ lost["sell"] = 0 /\ ~unbooked
        => \A s \in Symbols : saved[s] <= held[s]

\* In the absence of faults every view agrees between two scans, so the stop of
\* every unit the venue holds is watched; what a partial SELL leaves behind is
\* the one exception.
ViewsAgree ==
    adapter = "binance" /\ NoLoss /\ faults = 0 /\ restarts = 0 /\ ~remainders /\ ~scanning
        => held = lots /\ lots = tracked /\ tracked = row /\ row = saved

\* observer.py calls _reload_open_positions "Restart-safety", and the runbook
\* has the bot reload its positions from the database: a position the observer
\* tracks without a fault on the way can be sold by its broker.
TrackedCanBeSold ==
    adapter = "binance" /\ NoLoss /\ faults = 0
        => \A s \in Symbols : tracked[s] > 0 => lots[s] > 0
=============================================================================
