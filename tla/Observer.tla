------------------------------- MODULE Observer -------------------------------
(***************************************************************************)
(* The paper-trading observer: one process that runs cycles.  Each cycle   *)
(* scans the watchlist inside one database batch (maybe opening            *)
(* positions), evaluates predictions, manages the open positions (stop,    *)
(* target, time-stop) and records the cycle.  It is the only writer of     *)
(* paper_trades; orders go to DBPaperBroker, which writes the rows.        *)
(*                                                                         *)
(* The process keeps `open` (the code's `_open`) in memory next to the     *)
(* table on disk.  It can crash at every step, be asked to stop at every   *)
(* step, and every write can raise.                                        *)
(*                                                                         *)
(* Data that is abstracted: prices are their position relative to a        *)
(* position's stop and target; a cycle number is replaced by each          *)
(* position's age in cycles and by the cycles left of the loss cooldown;   *)
(* the verdict of the entry gates (screening, regime, calibration,         *)
(* meta-model, funding, loss limits, sizing) is a choice.                  *)
(***************************************************************************)
EXTENDS ObservatoryDB, Integers

CONSTANTS
    MaxOpen,            \* risk.max_open_positions
    MaxHold,            \* risk.max_hold_bars, 0 disables the time-stop
    LossCooldown,       \* risk.loss_cooldown_bars
    AbortThreshold,     \* Observer._ABORT_THRESHOLD
    MaxTrades           \* bound: rows of paper_trades

ASSUME ObserverAssumption ==
    /\ MaxOpen \in Nat \ {0}
    /\ MaxHold \in Nat
    /\ LossCooldown \in Nat
    /\ AbortThreshold \in Nat \ {0}
    /\ MaxTrades \in Nat

VARIABLES
    pc,         \* where the process is
    open,       \* _open: symbol -> [id, age]
    todo,       \* symbols the current loop still has to visit
    cooldown,   \* _cooldown_until_bar - _cycle, never below 0
    failures,   \* consecutive_failures
    stopping    \* _stop

procVars == <<pc, open, todo, cooldown, failures, stopping>>
vars == <<dbVars, procVars>>

\* A re-adopted position has no opened_cycle, hence no age.
NoAge == -1

Position == [id : Nat \ {0}, age : {NoAge} \cup 0..MaxHold]

Empty == [s \in {} |-> [id |-> 1, age |-> NoAge]]

Tracked == DOMAIN open

Track(s, pos) ==
    [t \in Tracked \cup {s} |-> IF t = s THEN pos ELSE open[t]]

Untrack(s) == [t \in Tracked \ {s} |-> open[t]]

\* The positions in memory are a function from symbols to positions.
OpenOK(f) == /\ DOMAIN f \subseteq Symbols
             /\ \A s \in DOMAIN f : f[s] \in Position
             /\ f = [s \in DOMAIN f |-> f[s]]

Phases == {"down", "idle", "scan", "retrain", "evaluate", "manage",
           "record", "failed", "exiting"}

TypeOK ==
    /\ DBTypeOK
    /\ pc \in Phases
    /\ OpenOK(open)
    /\ todo \subseteq Symbols
    /\ cooldown \in 0..LossCooldown
    /\ failures \in 0..AbortThreshold
    /\ stopping \in BOOLEAN

Init ==
    /\ DBInit
    /\ pc = "down"
    /\ open = Empty
    /\ todo = {}
    /\ cooldown = 0
    /\ failures = 0
    /\ stopping = FALSE

------------------------------------------------------------------------------
(* The life of the process *)

\* Mutant: the reload forgets WHERE status='open'.
ReloadedAnyStatus(table) ==
    [s \in {table[i].symbol : i \in DOMAIN table} |->
        [id |-> CHOOSE i \in DOMAIN table :
                    /\ table[i].symbol = s
                    /\ \A j \in DOMAIN table : table[j].symbol = s => j <= i,
         age |-> NoAge]]

\* _reload_open_positions: a dict keyed by symbol, filled in id order, so the
\* last open row of a symbol wins.
Reloaded(table) ==
    [s \in OpenSymbols(table) |->
        [id |-> CHOOSE i \in OpenIds(table) :
                    /\ table[i].symbol = s
                    /\ \A j \in OpenIds(table) : table[j].symbol = s => j <= i,
         age |-> NoAge]]

\* Mutant: the open rows are not re-adopted.
StartFresh ==
    /\ pc = "down"
    /\ pc' = "idle"
    /\ open' = Empty
    /\ UNCHANGED <<dbVars, todo, cooldown, failures, stopping>>

\* start(): register the run and re-adopt the open rows.  A start whose writes
\* raise ends the process before it did anything.
Start ==
    /\ pc = "down"
    /\ pc' = "idle"
    /\ open' = Reloaded(disk)
    /\ UNCHANGED <<dbVars, todo, cooldown, failures, stopping>>

\* The process's memory is gone.
ProcessGone ==
    /\ pc' = "down"
    /\ open' = Empty
    /\ todo' = {}
    /\ cooldown' = 0
    /\ failures' = 0
    /\ stopping' = FALSE

\* kill -9, power loss: at any point of any handler.
Crash ==
    /\ pc # "down"
    /\ Disconnected
    /\ ProcessGone

\* SIGINT / SIGTERM: the handler only sets _stop; the loop reads it when idle.
RequestStop ==
    /\ pc \notin {"down", "exiting"}
    /\ ~stopping
    /\ stopping' = TRUE
    /\ UNCHANGED <<dbVars, pc, open, todo, cooldown, failures>>

\* The `while not self._stop` test.
LeaveLoop ==
    /\ pc = "idle"
    /\ stopping
    /\ pc' = "exiting"
    /\ UNCHANGED <<dbVars, open, todo, cooldown, failures, stopping>>

\* The finally block: the session and run rows are written, which commits what
\* was pending, unless one of the writes raises; then the connection goes.
Exit ==
    /\ pc = "exiting"
    /\ \/ Saved(conn)
       \/ /\ Outage
          /\ RolledBack
    /\ ProcessGone

------------------------------------------------------------------------------
(* The cycle *)

\* `self._cycle += 1`, seen from the positions and from the cooldown.
Older(age) == IF age \in 0..(MaxHold - 1) THEN age + 1 ELSE age

Tick ==
    /\ open' = [s \in Tracked |-> [open[s] EXCEPT !.age = Older(open[s].age)]]
    /\ cooldown' = IF cooldown = 0 THEN 0 ELSE cooldown - 1

\* Mutant: the loop does not read _stop.
BeginCycleDeaf ==
    /\ pc = "idle"
    /\ Tick
    /\ \/ BestEffort(conn) /\ pc' = "scan" /\ todo' = Symbols
       \/ RaisedMidway /\ pc' = "failed" /\ UNCHANGED todo
    /\ UNCHANGED <<failures, stopping>>

\* The head of run_once: the 'cycle started' activity is best effort, the reads
\* for memory, calibrator and equity are not.
BeginCycle ==
    /\ pc = "idle"
    /\ ~stopping
    /\ Tick
    /\ \/ BestEffort(conn) /\ pc' = "scan" /\ todo' = Symbols
       \/ RaisedMidway /\ pc' = "failed" /\ UNCHANGED todo
    /\ UNCHANGED <<failures, stopping>>

\* _observe_symbol without an entry: stale data, a gate that refuses, a symbol
\* already held, a refused order, an error that insert_error recorded.
ObserveOnly(s) ==
    /\ pc = "scan"
    /\ s \in todo
    /\ Deferred(conn)
    /\ todo' = todo \ {s}
    /\ UNCHANGED <<pc, open, cooldown, failures, stopping>>

\* Mutant: no test whether the symbol is held already.
OpenPositionTwice(s) ==
    /\ pc = "scan"
    /\ s \in todo
    /\ Cardinality(Tracked) < MaxOpen
    /\ cooldown = 0
    /\ Len(conn) < MaxTrades
    /\ Deferred(WithInserted(conn, s))
    /\ open' = Track(s, [id |-> Len(conn) + 1, age |-> 0])
    /\ todo' = todo \ {s}
    /\ UNCHANGED <<pc, cooldown, failures, stopping>>

\* _maybe_open_position up to the broker's insert, which gives the trade id.
\* The row waits for the batch to commit, the entry in `open` does not.
OpenPosition(s) ==
    /\ pc = "scan"
    /\ s \in todo
    /\ s \notin Tracked
    /\ Cardinality(Tracked) < MaxOpen
    /\ cooldown = 0
    /\ Len(conn) < MaxTrades
    /\ Deferred(WithInserted(conn, s))
    /\ open' = Track(s, [id |-> Len(conn) + 1, age |-> 0])
    /\ todo' = todo \ {s}
    /\ UNCHANGED <<pc, cooldown, failures, stopping>>

\* The batch ends: one commit for the whole scan.
CommitBatch ==
    /\ pc = "scan"
    /\ todo = {}
    /\ Saved(conn)
    /\ pc' = "retrain"
    /\ UNCHANGED <<open, todo, cooldown, failures, stopping>>

\* The commit raises, or insert_error raised inside the loop: the rows of the
\* scan are rolled back and the cycle fails.  `open` is not rolled back.
AbortBatch ==
    /\ pc = "scan"
    /\ BatchAborted
    /\ pc' = "failed"
    /\ todo' = {}
    /\ UNCHANGED <<open, cooldown, failures, stopping>>

\* _maybe_retrain_meta: of the database it touches the activity feed at most.
RetrainMeta ==
    /\ pc = "retrain"
    /\ BestEffort(conn) \/ UNCHANGED dbVars
    /\ pc' = "evaluate"
    /\ UNCHANGED <<open, todo, cooldown, failures, stopping>>

\* _evaluate_predictions: an outcome row that cannot be written fails the
\* cycle.  A fully evaluated prediction starts with BEGIN, which raises when a
\* transaction is still open; the handler then rolls that transaction back.
EvaluatePredictions ==
    /\ pc = "evaluate"
    /\ \/ /\ BestEffort(conn) \/ UNCHANGED dbVars
          /\ pc' = "manage"
          /\ todo' = Tracked
       \/ /\ \/ RaisedMidway
             \/ Outage /\ RolledBack
             \/ pending /\ RolledBack /\ UNCHANGED dbFaults
          /\ pc' = "failed"
          /\ UNCHANGED todo
    /\ UNCHANGED <<open, cooldown, failures, stopping>>

TimedOut(s) == MaxHold > 0 /\ open[s].age >= MaxHold

\* The feed has no price: the position is left for the next cycle.
NoPrice(s) ==
    /\ pc = "manage"
    /\ s \in todo
    /\ todo' = todo \ {s}
    /\ UNCHANGED <<dbVars, pc, open, cooldown, failures, stopping>>

\* Mutant: the time-stop is not looked at.
HoldForever(s) ==
    /\ pc = "manage"
    /\ s \in todo
    /\ todo' = todo \ {s}
    /\ UNCHANGED <<dbVars, pc, open, cooldown, failures, stopping>>

\* The price is between stop and target and the time-stop is not due.
Hold(s) ==
    /\ pc = "manage"
    /\ s \in todo
    /\ ~TimedOut(s)
    /\ todo' = todo \ {s}
    /\ UNCHANGED <<dbVars, pc, open, cooldown, failures, stopping>>

\* Mutant: the cooldown lasts one cycle longer than configured.
ClosePositionLongCooldown(s, p) ==
    /\ pc = "manage"
    /\ s \in todo
    /\ Saved(WithClosed(conn, open[s].id, p))
    /\ open' = Untrack(s)
    /\ cooldown' = IF p = "loss" THEN LossCooldown + 1 ELSE cooldown
    /\ todo' = todo \ {s}
    /\ UNCHANGED <<pc, failures, stopping>>

\* Mutant: the closed position stays in _open.
ClosePositionKept(s, p) ==
    /\ pc = "manage"
    /\ s \in todo
    /\ Saved(WithClosed(conn, open[s].id, p))
    /\ cooldown' = IF p = "loss" THEN LossCooldown ELSE cooldown
    /\ todo' = todo \ {s}
    /\ UNCHANGED <<pc, open, failures, stopping>>

\* close_long and register_trade_close at stop, target or time-stop.
ClosePosition(s, p) ==
    /\ pc = "manage"
    /\ s \in todo
    /\ Saved(WithClosed(conn, open[s].id, p))
    /\ open' = Untrack(s)
    /\ cooldown' = IF p = "loss" THEN LossCooldown ELSE cooldown
    /\ todo' = todo \ {s}
    /\ UNCHANGED <<pc, failures, stopping>>

\* Mutant: the position is dropped although its close raised.
CloseFailsDropped(s, p) ==
    /\ pc = "manage"
    /\ s \in todo
    /\ Raised(WithClosed(conn, open[s].id, p))
    /\ open' = Untrack(s)
    /\ todo' = todo \ {s}
    /\ UNCHANGED <<pc, cooldown, failures, stopping>>

\* close_long raises: the position is kept and the failure goes to the
\* activity feed, whose commit may carry the UPDATE that stayed pending.
CloseFails(s, p) ==
    /\ pc = "manage"
    /\ s \in todo
    /\ Outage
    /\ \E table \in {conn, WithClosed(conn, open[s].id, p)} :
          /\ conn' = table
          /\ \/ disk' = table /\ pending' = FALSE
             \/ UNCHANGED disk /\ pending' \in {TRUE, pending \/ table # conn}
    /\ todo' = todo \ {s}
    /\ UNCHANGED <<pc, open, cooldown, failures, stopping>>

EndManage ==
    /\ pc = "manage"
    /\ todo = {}
    /\ pc' = "record"
    /\ UNCHANGED <<dbVars, open, todo, cooldown, failures, stopping>>

\* Safety score, regime, alerts, learning session, heartbeat.
RecordCycle ==
    /\ pc = "record"
    /\ \/ Saved(conn) /\ pc' = "idle" /\ failures' = 0
       \/ RaisedMidway /\ pc' = "failed" /\ UNCHANGED failures
    /\ UNCHANGED <<open, todo, cooldown, stopping>>

\* The except clause of run_forever.  When insert_error raises too, the
\* exception leaves the loop and the run ends 'crashed'.
HandleFailure ==
    /\ pc = "failed"
    /\ failures' = failures + 1
    /\ \/ /\ Saved(conn)
          /\ IF failures' >= AbortThreshold
             THEN pc' = "exiting" /\ stopping' = TRUE
             ELSE pc' = "idle" /\ UNCHANGED stopping
       \/ RaisedMidway /\ pc' = "exiting" /\ UNCHANGED stopping
    /\ UNCHANGED <<open, todo, cooldown>>

------------------------------------------------------------------------------
(* The specification *)

Scan == \/ \E s \in Symbols : ObserveOnly(s) \/ OpenPosition(s)
        \/ CommitBatch
        \/ AbortBatch

Priced(s) == Hold(s) \/ \E p \in PnL : ClosePosition(s, p)

Manage == \/ \E s \in Symbols : NoPrice(s) \/ Priced(s)
          \/ \E s \in Symbols, p \in PnL : CloseFails(s, p)
          \/ EndManage

CycleStep == \/ BeginCycle \/ Scan \/ RetrainMeta \/ EvaluatePredictions
             \/ Manage \/ RecordCycle \/ HandleFailure \/ LeaveLoop \/ Exit

Next == Start \/ Crash \/ RequestStop \/ CycleStep

Spec == Init /\ [][Next]_vars

\* The process keeps running while it is up (nothing makes it crash, stop or
\* start), and the feed answers for a symbol now and then.
Fairness == /\ WF_vars(CycleStep)
            /\ \A s \in Symbols : SF_vars(Priced(s))

FairSpec == Spec /\ Fairness

------------------------------------------------------------------------------
(* What the observer promises *)

Up == pc # "down"

Unique(table) ==
    \A i, j \in OpenIds(table) : table[i].symbol = table[j].symbol => i = j

\* A symbol has at most one open row, committed or pending, whatever writes
\* fail and wherever the process dies: the restart, which keys the re-adopted
\* rows by symbol, loses none.
OneOpenRowPerSymbol == Unique(disk) /\ Unique(conn)

TrackedIn(table) ==
    \A i \in OpenIds(table) :
        /\ table[i].symbol \in Tracked
        /\ open[table[i].symbol].id = i

\* While the process is up every open row is in `_open` under its own id, so
\* its stop and its target are looked at in every cycle: no order of failed
\* commits and rollbacks leaves an open row that nobody manages.
OpenRowsManaged == Up => TrackedIn(disk) /\ TrackedIn(conn)

\* max_open_positions bounds the positions on disk as well as those in memory,
\* across crashes and restarts, although the risk engine only counts memory.
PositionLimit == /\ Cardinality(Tracked) <= MaxOpen
                 /\ Cardinality(OpenSymbols(disk)) <= MaxOpen

Backed(table) ==
    \A s \in Tracked : open[s].id \in OpenIds(table) /\ table[open[s].id].symbol = s

\* Without database outages memory tracks nothing that the table does not hold
\* open for that very symbol: a crash at any point leaves no phantom position.
NoPhantomPosition == dbFaults = 0 => Backed(conn)

\* Without database outages a closed row is final: a trade is booked once, its
\* PnL is never overwritten by a second close, and no restart reopens it.
ClosedRowsFinal ==
    [][dbFaults' = 0 =>
         \A i \in DOMAIN disk \ OpenIds(disk) :
             i \in DOMAIN disk' /\ disk'[i] = disk[i]]_vars

\* A position opened by this process does not outlive the time-stop: it is
\* closed, or the process that holds its age ends, as long as the database
\* recovers and the feed answers for its symbol now and then.
TimeStopFires ==
    \A s \in Symbols :
        s \in Tracked /\ open[s].age # NoAge ~> s \notin Tracked \/ open[s].age = NoAge

\* A stop request ends the process, whatever cycle it arrives in.
StopHonoured == stopping ~> pc = "down"

\* What schema.py says of max_hold_bars: a position is force-closed after so
\* many bars, whichever process opened it.
EveryPositionTimesOut ==
    \A s \in Symbols : s \in Tracked ~> s \notin Tracked

------------------------------------------------------------------------------
(* The ledger the observer implements *)

\* The committed rows as a book of trades: what stays pending is not in it.
Ledger == INSTANCE PaperLedger WITH
    book <- [i \in DOMAIN disk |-> [symbol |-> disk[i].symbol,
                                    settled |-> disk[i].status # "open"]]

\* The committed table is a ledger, whatever writes fail and wherever the
\* process dies: rows are only added and closed, never lost, reordered or
\* reopened, and the open ones keep to the limits.  Rollbacks and reused row
\* ids stay invisible to whoever reads the file.
ImplementsLedger == Ledger!Spec
=============================================================================
