--------------------------- MODULE ObserverProcess ---------------------------
(***************************************************************************)
(* The observer as its bookkeeping sees it: a process that wakes up, takes *)
(* the time, goes through a cycle step by step and sleeps for an interval. *)
(* It may die at every step and be started again; each write of a step may *)
(* raise.  Each part of the bookkeeping (Evaluations, AlertDesk, DayBook)  *)
(* extends this module with the tables and the memory it owns; none reads  *)
(* what another owns.                                                      *)
(***************************************************************************)
EXTENDS Integers, Sequences

CONSTANTS
    MaxClock,       \* bound: ticks
    MaxFaults,      \* bound: writes that raise
    MaxCrashes      \* bound: deaths of the process

ASSUME ProcessAssumption == {MaxClock, MaxFaults, MaxCrashes} \subseteq Nat

VARIABLES
    clock,          \* ticks; one is the interval between two cycles
    up,             \* is the process alive
    step,           \* the step of run_once it is at, "idle" between cycles
    now,            \* the time of the current or the last cycle, NoTime
    faults, crashes \* bounds

process == <<clock, up, step, now, faults, crashes>>

NoTime == -1

ProcessInit == /\ clock = 0 /\ up = FALSE /\ step = "idle" /\ now = NoTime
               /\ faults = 0 /\ crashes = 0

At(s) == up /\ step = s

\* Time passes between cycles: a cycle is shorter than a tick.
Elapse == /\ clock < MaxClock /\ step = "idle"
          /\ clock' = clock + 1
          /\ UNCHANGED <<up, step, now, faults, crashes>>

\* start.
Up == ~up /\ up' = TRUE /\ UNCHANGED <<clock, step, now, faults, crashes>>

\* The process dies, at any step.
Down == /\ up /\ crashes < MaxCrashes
        /\ up' = FALSE /\ step' = "idle" /\ now' = NoTime
        /\ crashes' = crashes + 1
        /\ UNCHANGED <<clock, faults>>

\* run_forever calls run_once: the interval has passed since the last cycle.
Wake(first) == /\ At("idle") /\ (now # clock \/ clock = MaxClock)
               /\ now' = clock /\ step' = first
               /\ UNCHANGED <<clock, up, faults, crashes>>

Go(s) == step' = s /\ UNCHANGED <<clock, up, now, faults, crashes>>

\* A write raises and the code swallows that.
Swallow(s) == /\ faults < MaxFaults /\ faults' = faults + 1
              /\ step' = s
              /\ UNCHANGED <<clock, up, now, crashes>>

\* A write raises, and run_forever's except clause ends the cycle.
Raise == Swallow("idle")

ProcessOK == /\ clock \in 0..MaxClock /\ up \in BOOLEAN /\ now \in -1..clock
             /\ faults \in 0..MaxFaults /\ crashes \in 0..MaxCrashes
=============================================================================
