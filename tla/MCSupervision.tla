---------------------------- MODULE MCSupervision ----------------------------
(* The bot processes on two small instances: two starts of `daytrade learn` *)
(* (Learners) over several days, and one start of it next to `daytrade      *)
(* observe` (the rest of Procs) within a day.                               *)
EXTENDS Supervision, TLC

CONSTANT Learners

CommandLock == [p \in Procs |-> IF p \in Learners THEN "learn" ELSE "observe"]

VARIABLE crew

\* The pids that something still names.
NamedPids == ({pid[p] : p \in Procs} \cup {seen[p] : p \in Procs}
              \cup {file[n] : n \in Locks} \cup {runs[i].pid : i \in DOMAIN runs}) \ {NoPid}

InScenario ==
    CASE crew = "learners" ->
            /\ {p \in Procs : Running(p)} \subseteq Learners
            /\ Cardinality(NamedPids) <= 2 /\ Len(runs) <= 2
      [] crew = "siblings" ->
            /\ Cardinality({p \in Learners : Running(p)}) <= 1
            /\ today = 0

MCInit == Init /\ crew \in {"learners", "siblings"}
MCNext == Next /\ UNCHANGED crew /\ InScenario'
MCSpec == MCInit /\ [][MCNext]_<<vars, crew>>

\* Pids are interchangeable, and so are the starts of one command.
Interchangeable == Permutations(Pids) \cup Permutations(Learners)
=============================================================================
