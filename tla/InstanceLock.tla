----------------------------- MODULE InstanceLock -----------------------------
(***************************************************************************)
(* SingleInstanceLock: one PID file per lock name.  acquire() reads the    *)
(* file, probes the pid it found with signal 0, and writes its own pid     *)
(* unless another live process is named there; release() removes the file  *)
(* if it names this process.  None of these steps is atomic with the next. *)
(*                                                                         *)
(* The operating system hands a free pid to every new process, the pid of  *)
(* a dead one included.  To a lock, a process that takes another lock is   *)
(* like any unrelated program: it can only hold a pid that the file names. *)
(***************************************************************************)
EXTENDS Naturals, FiniteSets

CONSTANTS
    Procs,      \* the bot processes that may be started, again and again
    Pids,       \* process ids of the machine
    Locks,      \* lock names: "learn", "observe"
    LockOf,     \* the lock each process takes
    NoPid,      \* a file that is missing, empty or unreadable
    MaxAlive    \* bound: processes alive at once

ASSUME LockAssumption ==
    /\ LockOf \in [Procs -> Locks]
    /\ NoPid \notin Pids
    /\ MaxAlive \in Nat

VARIABLES
    file,       \* lock name -> the pid in its file, or NoPid
    at,         \* where a process is in acquire() or release()
    pid,        \* the pid of a process that is not down
    seen,       \* what acquire() has read and not yet judged
    raced       \* history: locks two acquires of which overlapped

lockVars == <<file, at, pid, seen, raced>>

Places == {"down", "launched", "probing", "writing", "truncated",
           "holding", "unlinking"}

Running(p) == at[p] # "down"
Acquiring(p) == at[p] \in {"probing", "writing", "truncated"}
\* acquire() has returned and release() has not.
Owner(p) == at[p] \in {"holding", "unlinking"}

Alive(i) == \E p \in Procs : Running(p) /\ pid[p] = i

\* A pid that the operating system can hand out.
Free(i) == /\ ~Alive(i)
           /\ Cardinality({j \in Pids : Alive(j)}) < MaxAlive

Rivals(p) == {q \in Procs \ {p} : LockOf[q] = LockOf[p]}

LockTypeOK ==
    /\ file \in [Locks -> Pids \cup {NoPid}]
    /\ at \in [Procs -> Places]
    /\ pid \in [Procs -> Pids \cup {NoPid}]
    /\ seen \in [Procs -> Pids \cup {NoPid}]
    /\ raced \subseteq Locks

LockInit ==
    /\ file = [n \in Locks |-> NoPid]
    /\ at = [p \in Procs |-> "down"]
    /\ pid = [p \in Procs |-> NoPid]
    /\ seen = [p \in Procs |-> NoPid]
    /\ raced = {}

------------------------------------------------------------------------------
(* Processes *)

Launch(p, i) ==
    /\ ~Running(p)
    /\ Free(i)
    /\ at' = [at EXCEPT ![p] = "launched"]
    /\ pid' = [pid EXCEPT ![p] = i]
    /\ UNCHANGED <<file, seen, raced>>

\* The process ends: its pid is free, what it read is forgotten.
Gone(p) ==
    /\ at' = [at EXCEPT ![p] = "down"]
    /\ pid' = [pid EXCEPT ![p] = NoPid]
    /\ seen' = [seen EXCEPT ![p] = NoPid]

\* kill -9, or an exception where no `finally` releases the lock: the file stays.
Die(p) ==
    /\ Running(p)
    /\ Gone(p)
    /\ UNCHANGED <<file, raced>>

------------------------------------------------------------------------------
(* acquire() *)

ReadFile(p) ==
    /\ at[p] = "launched"
    /\ at' = [at EXCEPT ![p] = "probing"]
    /\ seen' = [seen EXCEPT ![p] = file[LockOf[p]]]
    /\ raced' = IF \E q \in Rivals(p) : Acquiring(q)
                THEN raced \cup {LockOf[p]} ELSE raced
    /\ UNCHANGED <<file, pid>>

\* Mutant: the probe takes every other process for dead.
ForeignNever(p) == FALSE

\* The file names a live process that is not this one.
Foreign(p) == seen[p] # NoPid /\ Alive(seen[p]) /\ seen[p] # pid[p]

\* Mutant: the refused process cleans up the file.
RefuseAndUnlink(p) ==
    /\ at[p] = "probing"
    /\ Foreign(p)
    /\ file' = [file EXCEPT ![LockOf[p]] = NoPid]
    /\ Gone(p)
    /\ UNCHANGED raced

\* SingleInstanceLockError: the command exits with code 2.
Refuse(p) ==
    /\ at[p] = "probing"
    /\ Foreign(p)
    /\ Gone(p)
    /\ UNCHANGED <<file, raced>>

\* No file, a stale one, or our own pid: take over.
Pass(p) ==
    /\ at[p] = "probing"
    /\ ~Foreign(p)
    /\ at' = [at EXCEPT ![p] = "writing"]
    /\ seen' = [seen EXCEPT ![p] = NoPid]
    /\ UNCHANGED <<file, pid, raced>>

\* write_text opens the file for writing, which empties it, ...
Truncate(p) ==
    /\ at[p] = "writing"
    /\ file' = [file EXCEPT ![LockOf[p]] = NoPid]
    /\ at' = [at EXCEPT ![p] = "truncated"]
    /\ UNCHANGED <<pid, seen, raced>>

\* ... and then writes the pid.
WritePid(p) ==
    /\ at[p] = "truncated"
    /\ file' = [file EXCEPT ![LockOf[p]] = pid[p]]
    /\ at' = [at EXCEPT ![p] = "holding"]
    /\ UNCHANGED <<pid, seen, raced>>

------------------------------------------------------------------------------
(* release() *)

ReadOwn(p) ==
    /\ at[p] = "holding"
    /\ file[LockOf[p]] = pid[p]
    /\ at' = [at EXCEPT ![p] = "unlinking"]
    /\ UNCHANGED <<file, pid, seen, raced>>

\* The file names somebody else, or nobody: it is left alone.
LeaveFile(p) ==
    /\ at[p] = "holding"
    /\ file[LockOf[p]] # pid[p]
    /\ Gone(p)
    /\ UNCHANGED <<file, raced>>

Unlink(p) ==
    /\ at[p] = "unlinking"
    /\ file' = [file EXCEPT ![LockOf[p]] = NoPid]
    /\ Gone(p)
    /\ UNCHANGED raced

Acquire(p) == ReadFile(p) \/ Refuse(p) \/ Pass(p) \/ Truncate(p) \/ WritePid(p)
Release(p) == ReadOwn(p) \/ LeaveFile(p) \/ Unlink(p)

LockNext ==
    \/ \E p \in Procs : Acquire(p) \/ Release(p) \/ Die(p)
    \/ \E p \in Procs, i \in Pids : Launch(p, i)

LockSpec == LockInit /\ [][LockNext]_lockVars

------------------------------------------------------------------------------
(* What the lock promises *)

Alone(p) == Owner(p) => \A q \in Rivals(p) : ~Owner(q)

\* As long as no two acquires of a lock overlap, at most one process has it,
\* through crashes, stale files, reused pids and releases in any order.
SerialMutex == \A p \in Procs : LockOf[p] \notin raced => Alone(p)

\* And the file names the process that has it until it is removed: no release
\* and no takeover touches the file of a live owner.
OwnerNamed ==
    \A p \in Procs : Owner(p) /\ LockOf[p] \notin raced => file[LockOf[p]] = pid[p]

\* The module's docstring: two processes running concurrently, "this lock makes
\* that impossible".
MutualExclusion == \A p \in Procs : Alone(p)
=============================================================================
