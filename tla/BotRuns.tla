------------------------------- MODULE BotRuns -------------------------------
(***************************************************************************)
(* The `bot_runs` table: one row per run of a bot process, with its pid and *)
(* its status.  Every operation here is one transaction.  `live` stands    *)
(* for the pids that answer signal 0 when the operation probes them.       *)
(* 'stopped', 'crashed' and 'completed' are one status here, "ended": no   *)
(* reader of the table tells them apart but by showing them.               *)
(***************************************************************************)
EXTENDS Naturals, Sequences, FiniteSets

CONSTANTS
    RunsShown,  \* LIMIT of current_bot_run
    MaxRuns     \* bound: rows of bot_runs

ASSUME RunsAssumption == RunsShown \in Nat \ {0} /\ MaxRuns \in Nat

VARIABLE runs   \* the rows, by id

RunStatus == {"running", "ended"}

RunningIds == {i \in DOMAIN runs : runs[i].status = "running"}

\* Mutant: every running row is marked, its pid alive or not.
DanglingMarkedBlindly(live) ==
    runs' = [i \in DOMAIN runs |-> [runs[i] EXCEPT !.status = "ended"]]

\* mark_dangling_runs_crashed.
DanglingMarked(live) ==
    runs' = [i \in DOMAIN runs |->
                IF i \in RunningIds /\ runs[i].pid \notin live
                THEN [runs[i] EXCEPT !.status = "ended"]
                ELSE runs[i]]

\* start_bot_run: the row id is Len(runs) + 1.
RunStarted(pid) ==
    /\ Len(runs) < MaxRuns
    /\ runs' = Append(runs, [pid |-> pid, status |-> "running"])

\* heartbeat: restores 'running', whatever the status was.
Beaten(id) == runs' = [runs EXCEPT ![id].status = "running"]

\* stop_bot_run.
RunStopped(id) == runs' = [runs EXCEPT ![id].status = "ended"]

\* Mutant: just the newest row.
CurrentRunNewest(live) == Len(runs)

\* current_bot_run: the newest of the last RunsShown running rows whose pid is
\* alive, else the newest row; 0 when there is none.
CurrentRun(live) ==
    LET Recent == {i \in RunningIds :
                      Cardinality({j \in RunningIds : j > i}) < RunsShown}
        Shown == {i \in Recent : runs[i].pid \in live}
    IN  IF Shown = {} THEN Len(runs)
        ELSE CHOOSE i \in Shown : \A j \in Shown : j <= i
=============================================================================
