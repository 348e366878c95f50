---------------------------- MODULE MCInstanceLock ----------------------------
(* The lock of `daytrade learn` on its own, started twice. *)
EXTENDS InstanceLock, TLC

AllLearn == [p \in Procs |-> "learn"]
=============================================================================
