---------------------------- MODULE MCSharedTable ----------------------------
(* One start of `daytrade learn` and one of `daytrade observe`. *)
EXTENDS SharedTable

EachItsOwn == [p \in Procs |-> IF p = "Learn" THEN "learn" ELSE "observe"]
=============================================================================
