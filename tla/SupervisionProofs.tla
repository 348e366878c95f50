-------------------------- MODULE SupervisionProofs --------------------------
(***************************************************************************)
(* Proofs about the bot processes over one database: they implement the    *)
(* lock's specification, hence inherit its theorems, no sibling marks a    *)
(* live run, and the learning window goes on across restarts.              *)
(***************************************************************************)
EXTENDS Supervision, InstanceLockProofs, FiniteSetTheorems, WellFoundedInduction

------------------------------------------------------------------------------
(* The composition implements the lock *)

\* A step of the composition is a step of the lock or leaves the lock alone.
LEMMA LockStep == [Next]_vars => [LockNext]_lockVars
  <1> SUFFICES ASSUME [Next]_vars PROVE [LockNext]_lockVars
    OBVIOUS
  <1>1. CASE Start
    BY <1>1 DEF Start, LockNext
  <1>2. CASE Midnight
    BY <1>2 DEF Midnight
  <1>3. ASSUME NEW p \in Procs, Process(p) PROVE [LockNext]_lockVars
    <2>1. CASE BeforeLock(p) \/ GetLock(p) \/ BeginRelease(p) \/ EndRelease(p) \/ Crash(p)
      BY <2>1 DEF BeforeLock, GetLock, BeginRelease, EndRelease, Crash, LockNext, Acquire, Release
    <2>2. CASE Job(p)
      BY <2>2 DEF Job, Doing, Resume, Fold, Create, MarkDangling, Register, BeginCycle,
                  Progress, Heartbeat, CycleFails, LeaveLoop, Settle, StopRun, WriteFails
    <2> QED
      BY <1>3, <2>1, <2>2 DEF Process
  <1>4. CASE UNCHANGED vars
    BY <1>4 DEF vars, lockVars
  <1> QED
    BY <1>1, <1>2, <1>3, <1>4 DEF Next

\* The bot processes with all they do under the lock implement the lock alone.
THEOREM ImplementsLock == Spec => LockSpec
  <1>1. Init => LockInit
    BY DEF Init
  <1> QED
    BY <1>1, LockStep, PTL DEF Spec, LockSpec

\* At most one process works on the learning window at a time, unless two
\* acquires overlapped.
THEOREM OneLearner == Spec => []SerialMutex
  BY ImplementsLock, LockExcludes, PTL

\* The lock file names the process at work.
THEOREM LearnerNamed == Spec => []OwnerNamed
  BY ImplementsLock, LockNamesOwner, PTL

------------------------------------------------------------------------------
(* Runs: the inductive invariant *)

\* What a table holds.
LEMMA ElementTyped == \A S : \A t \in Seq(S) : \A i \in DOMAIN t : t[i] \in S
  OBVIOUS

HasRun(p) == step[p] \in {"loop", "cycle", "beat", "settle", "stop"}

RunTypes == /\ runs \in Seq([pid : Pids, status : RunStatus])
            /\ step \in [Procs -> Steps]
            /\ DOMAIN run = Procs

\* A process at work has its lock, and its row carries its pid.
OwnRow == \A p \in Procs :
             /\ step[p] # "none" => Owner(p)
             /\ HasRun(p) => run[p] \in DOMAIN runs /\ runs[run[p]].pid = pid[p]

RunInv == RunTypes /\ OwnRow /\ LiveRunIsRunning

\* Initially nobody is at work.
LEMMA InitRuns == Init => RunInv
  <1> SUFFICES ASSUME Init PROVE RunInv
    OBVIOUS
  <1>1. RunTypes
    BY DEF Init, RunTypes, Steps
  <1>2. \A p \in Procs : step[p] = "none"
    BY DEF Init
  <1> QED
    BY <1>1, <1>2 DEF RunInv, OwnRow, HasRun, LiveRunIsRunning, Registered

\* A step that leaves the rows alone, and neither registers anybody nor
\* touches the run and the pid of those who have one.
LEMMA RowsUntouched ==
    ASSUME RunInv, runs' = runs, step' \in [Procs -> Steps], DOMAIN run' = Procs,
           \A p \in Procs : step'[p] # "none" => Owner(p)',
           \A p \in Procs : HasRun(p)' => HasRun(p) /\ run'[p] = run[p] /\ pid'[p] = pid[p],
           \A p \in Procs : Registered(p)' => Registered(p)
    PROVE  RunInv'
  <1>1. RunTypes'
    BY DEF RunInv, RunTypes
  <1>2. OwnRow'
    BY DEF RunInv, OwnRow, Owner
  <1>3. LiveRunIsRunning'
    BY DEF RunInv, LiveRunIsRunning, Registered, HasRun
  <1> QED
    BY <1>1, <1>2, <1>3 DEF RunInv

\* A move of one process that leaves rows, lock and everybody else alone.
LEMMA JobMoves ==
    ASSUME RunInv, NEW p \in Procs, NEW s \in Steps \ {"none"}, step[p] # "none",
           Goto(p, s), UNCHANGED <<runs, run, at, pid>>,
           s \in {"loop", "cycle", "beat"} => Registered(p),
           s \in {"settle", "stop"} => HasRun(p)
    PROVE  RunInv'
  <1>1. step' = [step EXCEPT ![p] = s] /\ runs' = runs /\ run' = run /\ at' = at /\ pid' = pid
    BY DEF Goto
  <1>2. step' \in [Procs -> Steps]
    BY <1>1 DEF RunInv, RunTypes
  <1>3. \A q \in Procs : q # p => step'[q] = step[q]
    BY <1>1 DEF RunInv, RunTypes
  <1>4. step'[p] = s
    BY <1>1 DEF RunInv, RunTypes
  <1>5. DOMAIN run' = Procs
    BY <1>1 DEF RunInv, RunTypes
  <1>6. \A q \in Procs : step'[q] # "none" => Owner(q)'
    BY <1>1, <1>3 DEF RunInv, OwnRow, Owner
  <1>7. \A q \in Procs : HasRun(q)' => HasRun(q) /\ run'[q] = run[q] /\ pid'[q] = pid[q]
    BY <1>1, <1>3, <1>4 DEF HasRun, Registered
  <1>8. \A q \in Procs : Registered(q)' => Registered(q)
    BY <1>3, <1>4 DEF Registered
  <1> QED
    BY <1>1, <1>2, <1>5, <1>6, <1>7, <1>8, RowsUntouched

\* Nothing but the status of rows changes, and of the rows of the registered
\* none gets another status than 'running'.
LEMMA StatusWritten ==
    ASSUME RunInv, NEW p \in Procs, NEW s \in Steps \ {"none"}, step[p] # "none",
           Goto(p, s), UNCHANGED <<run, at, pid>>,
           s \in {"loop", "cycle", "beat"} => Registered(p), s \notin {"settle", "stop"},
           runs' \in Seq([pid : Pids, status : RunStatus]), DOMAIN runs' = DOMAIN runs,
           \A i \in DOMAIN runs : runs'[i].pid = runs[i].pid,
           \A q \in Procs : Registered(q)' => runs'[run[q]].status = "running"
    PROVE  RunInv'
  <1>1. step' = [step EXCEPT ![p] = s] /\ run' = run /\ at' = at /\ pid' = pid
    BY DEF Goto
  <1>2. RunTypes'
    BY <1>1 DEF RunInv, RunTypes
  <1>3. \A q \in Procs : HasRun(q)' => HasRun(q)
    BY <1>1 DEF RunInv, RunTypes, HasRun, Registered
  <1>4. OwnRow'
    BY <1>1, <1>3 DEF RunInv, RunTypes, OwnRow, Owner, HasRun
  <1>5. LiveRunIsRunning'
    BY <1>1 DEF LiveRunIsRunning
  <1> QED
    BY <1>2, <1>4, <1>5 DEF RunInv

------------------------------------------------------------------------------
(* Runs: the steps *)

\* Launches, the way to the lock and out of it, crashes.
LEMMA LockSideKeepsRuns ==
    ASSUME RunInv, NEW p \in Procs, NEW a \in Places, at' = [at EXCEPT ![p] = a],
           DOMAIN at = Procs, DOMAIN pid = Procs,
           \A q \in Procs \ {p} : pid'[q] = pid[q],
           runs' = runs,
           \/ step[p] = "none" /\ UNCHANGED <<step, run>>
           \/ /\ step[p] = "none" /\ UNCHANGED run /\ a = "holding"
              /\ \E s \in {"resume", "mark"} : Goto(p, s)
           \/ step[p] = "done" /\ UNCHANGED <<step, run>> /\ a = "unlinking"
           \/ Forget(p)
    PROVE  RunInv'
  <1>1. /\ step' \in [Procs -> Steps] /\ DOMAIN run' = Procs
        /\ step'[p] \in {"none", "resume", "mark", "done"}
        /\ step'[p] # "none" => a \in {"holding", "unlinking"}
        /\ \A q \in Procs \ {p} : step'[q] = step[q] /\ run'[q] = run[q]
    BY DEF RunInv, RunTypes, Goto, Forget, Steps
  <1>2. \A q \in Procs : step'[q] # "none" => Owner(q)'
    BY <1>1 DEF RunInv, OwnRow, Owner
  <1>3. \A q \in Procs : HasRun(q)' => HasRun(q) /\ run'[q] = run[q] /\ pid'[q] = pid[q]
    BY <1>1 DEF HasRun, Registered
  <1>4. \A q \in Procs : Registered(q)' => Registered(q)
    BY <1>1 DEF Registered
  <1> QED
    BY <1>1, <1>2, <1>3, <1>4, RowsUntouched

\* start_bot_run: the new row is the process's own and says 'running'.
LEMMA RegisterKeepsRuns ==
    ASSUME RunInv, NEW p \in Procs, pid[p] \in Pids, Register(p)
    PROVE  RunInv'
  <1> DEFINE row == [pid |-> pid[p], status |-> "running"]
             n == Len(runs) + 1
  <1>1. /\ step[p] = "register" /\ at' = at /\ pid' = pid /\ runs' = Append(runs, row)
        /\ run' = [run EXCEPT ![p] = n] /\ step' = [step EXCEPT ![p] = "loop"]
    BY DEF Register, Doing, RunStarted, Goto, lockVars
  <1>2. runs \in Seq([pid : Pids, status : RunStatus]) /\ row \in [pid : Pids, status : RunStatus]
    BY DEF RunInv, RunTypes, RunStatus
  <1>3. /\ runs' \in Seq([pid : Pids, status : RunStatus]) /\ DOMAIN runs' = DOMAIN runs \cup {n}
        /\ runs'[n] = row /\ \A i \in DOMAIN runs : runs'[i] = runs[i]
    BY <1>1, <1>2
  <1> HIDE DEF n
  <1>4. RunTypes'
    BY <1>1, <1>3 DEF RunInv, RunTypes, Steps
  <1>5. /\ step'[p] = "loop" /\ run'[p] = n
        /\ \A q \in Procs \ {p} : step'[q] = step[q] /\ run'[q] = run[q]
    BY <1>1 DEF RunInv, RunTypes
  <1>6. OwnRow'
    BY <1>1, <1>3, <1>5 DEF RunInv, OwnRow, Owner, HasRun
  <1>7. LiveRunIsRunning'
    <2> SUFFICES ASSUME NEW q \in Procs, Registered(q)'
                 PROVE  runs'[run'[q]].status = "running"
      BY DEF LiveRunIsRunning
    <2>1. CASE q = p
      BY <1>3, <1>5, <2>1
    <2>2. CASE q # p
      BY <1>3, <1>5, <2>2 DEF RunInv, OwnRow, HasRun, LiveRunIsRunning, Registered
    <2> QED
      BY <2>1, <2>2
  <1> QED
    BY <1>4, <1>6, <1>7 DEF RunInv

\* mark_dangling_runs_crashed: the rows of the registered have live pids.
LEMMA MarkKeepsRuns ==
    ASSUME RunInv, PidsApart, NEW p \in Procs, MarkDangling(p)
    PROVE  RunInv'
  <1>1. /\ step[p] = "mark" /\ UNCHANGED <<run, at, pid>> /\ Goto(p, "register")
        /\ DanglingMarked(LivePids)
    BY DEF MarkDangling, Doing, lockVars
  <1>2. runs \in Seq([pid : Pids, status : RunStatus])
    BY DEF RunInv, RunTypes
  <1>3. \A i \in DOMAIN runs : runs[i] \in [pid : Pids, status : RunStatus]
    BY <1>2, ElementTyped
  <1>4. /\ DOMAIN runs' = DOMAIN runs
        /\ \A i \in DOMAIN runs : /\ runs'[i] \in [pid : Pids, status : RunStatus]
                                  /\ runs'[i].pid = runs[i].pid
                                  /\ runs[i].pid \in LivePids => runs'[i] = runs[i]
    BY <1>1, <1>3 DEF DanglingMarked, RunStatus
  <1>5. runs' \in Seq([pid : Pids, status : RunStatus])
    <2>1. runs' = [i \in 1..Len(runs) |-> runs'[i]] /\ Len(runs) \in Nat
      BY <1>1, <1>2 DEF DanglingMarked
    <2> QED
      BY <1>2, <1>4, <2>1
  <1>6. ASSUME NEW q \in Procs, Registered(q)' PROVE runs'[run[q]].status = "running"
    <2>1. Registered(q)
      BY <1>1, <1>6 DEF Goto, Registered, RunInv, RunTypes
    <2>2. run[q] \in DOMAIN runs /\ runs[run[q]].pid = pid[q] /\ Running(q)
      BY <2>1 DEF RunInv, OwnRow, HasRun, Registered, Owner, Running
    <2>3. pid[q] \in LivePids
      BY <2>2 DEF PidsApart, LivePids, Alive
    <2> QED
      BY <1>4, <2>1, <2>2, <2>3 DEF RunInv, LiveRunIsRunning
  <1> QED
    BY <1>1, <1>4, <1>5, <1>6, StatusWritten DEF Steps

\* heartbeat: writes 'running', never another status.
LEMMA HeartbeatKeepsRuns ==
    ASSUME RunInv, NEW p \in Procs, Heartbeat(p)
    PROVE  RunInv'
  <1>1. /\ step[p] \in {"cycle", "beat"} /\ UNCHANGED <<run, at, pid>> /\ Goto(p, "loop")
        /\ runs' = [runs EXCEPT ![run[p]].status = "running"]
    BY DEF Heartbeat, Doing, Beaten, lockVars
  <1>2. runs \in Seq([pid : Pids, status : RunStatus]) /\ run[p] \in DOMAIN runs
    BY <1>1 DEF RunInv, RunTypes, OwnRow, HasRun
  <1>3. runs[run[p]] \in [pid : Pids, status : RunStatus]
    BY <1>2, ElementTyped
  <1>4. Registered(p) /\ step[p] # "none"
    BY <1>1 DEF Registered
  <1>6. runs' \in Seq([pid : Pids, status : RunStatus]) /\ DOMAIN runs' = DOMAIN runs
    <2>1. [runs[run[p]] EXCEPT !.status = "running"] \in [pid : Pids, status : RunStatus]
      BY <1>3 DEF RunStatus
    <2> QED
      BY <1>1, <1>2, <2>1
  <1>7. \A i \in DOMAIN runs : runs'[i].pid = runs[i].pid
    BY <1>1, <1>2
  <1>8. ASSUME NEW q \in Procs, Registered(q)' PROVE runs'[run[q]].status = "running"
    <2>1. Registered(q)
      BY <1>1, <1>4, <1>8 DEF Goto, Registered, RunInv, RunTypes
    <2>2. run[q] \in DOMAIN runs /\ runs[run[q]].status = "running"
      BY <2>1 DEF RunInv, OwnRow, HasRun, Registered, LiveRunIsRunning
    <2>3. CASE run[q] = run[p]
      BY <1>1, <1>2, <1>3, <2>3
    <2>4. CASE run[q] # run[p]
      BY <1>1, <1>2, <2>2, <2>4
    <2> QED
      BY <2>3, <2>4
  <1> QED
    BY <1>1, <1>4, <1>6, <1>7, <1>8, StatusWritten DEF Steps

\* stop_bot_run: the row is the process's own, which has left its loop; no
\* registered process shares it, for that one would have the same pid.
LEMMA StopKeepsRuns ==
    ASSUME RunInv, PidsApart, NEW p \in Procs, StopRun(p)
    PROVE  RunInv'
  <1>1. /\ step[p] = "stop" /\ UNCHANGED <<run, at, pid>> /\ Goto(p, "done")
        /\ runs' = [runs EXCEPT ![run[p]].status = "ended"]
    BY DEF StopRun, Doing, RunStopped, lockVars
  <1>2. /\ runs \in Seq([pid : Pids, status : RunStatus]) /\ run[p] \in DOMAIN runs
        /\ runs[run[p]].pid = pid[p] /\ Running(p)
    BY <1>1 DEF RunInv, RunTypes, OwnRow, HasRun, Owner, Running
  <1>3. runs[run[p]] \in [pid : Pids, status : RunStatus]
    BY <1>2, ElementTyped
  <1>4. runs' \in Seq([pid : Pids, status : RunStatus]) /\ DOMAIN runs' = DOMAIN runs
    <2>1. [runs[run[p]] EXCEPT !.status = "ended"] \in [pid : Pids, status : RunStatus]
      BY <1>3 DEF RunStatus
    <2> QED
      BY <1>1, <1>2, <2>1
  <1>5. \A i \in DOMAIN runs : runs'[i].pid = runs[i].pid
    BY <1>1, <1>2
  <1>6. ASSUME NEW q \in Procs, Registered(q)' PROVE runs'[run[q]].status = "running"
    <2>1. Registered(q) /\ q # p
      BY <1>1, <1>6 DEF Goto, Registered, RunInv, RunTypes
    <2>2. /\ run[q] \in DOMAIN runs /\ runs[run[q]].status = "running"
          /\ runs[run[q]].pid = pid[q] /\ Running(q)
      BY <2>1 DEF RunInv, OwnRow, HasRun, Registered, LiveRunIsRunning, Owner, Running
    <2>3. run[q] # run[p]
      BY <1>2, <2>1, <2>2 DEF PidsApart
    <2> QED
      BY <1>1, <1>2, <2>2, <2>3
  <1> QED
    BY <1>1, <1>4, <1>5, <1>6, StatusWritten DEF Steps

\* The steps around the lock.
LEMMA LockSteps ==
    ASSUME RunInv, LockInv, NEW p \in Procs,
           \/ \E i \in Pids : Launch(p, i) /\ UNCHANGED <<runs, sessions, today, jobVars>>
           \/ BeforeLock(p) \/ GetLock(p) \/ BeginRelease(p) \/ EndRelease(p) \/ Crash(p)
    PROVE  RunInv'
  <1>1. DOMAIN at = Procs /\ DOMAIN pid = Procs
    BY DEF LockInv, LockTypeOK
  <1>2. at[p] \notin {"holding", "unlinking"} => step[p] = "none"
    BY DEF RunInv, OwnRow, Owner
  <1>3. CASE \E i \in Pids : Launch(p, i) /\ UNCHANGED <<runs, sessions, today, jobVars>>
    <2>1. /\ at' = [at EXCEPT ![p] = "launched"] /\ at[p] = "down"
          /\ \A q \in Procs \ {p} : pid'[q] = pid[q]
          /\ UNCHANGED <<runs, step, run>>
      BY <1>1, <1>3 DEF Launch, Running, jobVars
    <2> QED
      BY <1>1, <1>2, <2>1, LockSideKeepsRuns DEF Places
  <1>4. CASE BeforeLock(p)
    <2>1. /\ \E a \in Places : at' = [at EXCEPT ![p] = a]
          /\ at[p] \notin {"holding", "unlinking"}
          /\ \A q \in Procs \ {p} : pid'[q] = pid[q]
          /\ UNCHANGED <<runs, step, run>>
      BY <1>1, <1>4 DEF BeforeLock, ReadFile, Refuse, Gone, Pass, Truncate, Places, jobVars
    <2> QED
      BY <1>1, <1>2, <2>1, LockSideKeepsRuns
  <1>5. CASE GetLock(p)
    <2>1. /\ at' = [at EXCEPT ![p] = "holding"] /\ at[p] = "truncated"
          /\ \A q \in Procs \ {p} : pid'[q] = pid[q]
          /\ UNCHANGED <<runs, run>> /\ \E s \in {"resume", "mark"} : Goto(p, s)
      BY <1>5 DEF GetLock, WritePid
    <2> QED
      BY <1>1, <1>2, <2>1, LockSideKeepsRuns DEF Places
  <1>6. CASE BeginRelease(p)
    <2>1. /\ at' = [at EXCEPT ![p] = "unlinking"] /\ step[p] = "done"
          /\ \A q \in Procs \ {p} : pid'[q] = pid[q]
          /\ UNCHANGED <<runs, step, run>>
      BY <1>6 DEF BeginRelease, ReadOwn, jobVars
    <2> QED
      BY <1>1, <2>1, LockSideKeepsRuns DEF Places
  <1>7. CASE EndRelease(p) \/ Crash(p)
    <2>1. /\ at' = [at EXCEPT ![p] = "down"] /\ Forget(p) /\ runs' = runs
          /\ \A q \in Procs \ {p} : pid'[q] = pid[q]
      BY <1>1, <1>7 DEF EndRelease, LeaveFile, Unlink, Crash, Die, Gone
    <2> QED
      BY <1>1, <2>1, LockSideKeepsRuns DEF Places
  <1> QED
    BY <1>3, <1>4, <1>5, <1>6, <1>7

\* The steps of a process at work.
LEMMA JobSteps ==
    ASSUME RunInv, LockInv, NEW p \in Procs, Job(p)
    PROVE  RunInv'
  <1>1. CASE Resume(p)
    <2>1. /\ step[p] = "resume" /\ UNCHANGED <<runs, run, at, pid>>
          /\ Goto(p, "fold") \/ Goto(p, "create")
      BY <1>1 DEF Resume, Doing, lockVars
    <2> QED
      BY <2>1, JobMoves DEF Steps
  <1>2. CASE Fold(p) \/ Create(p)
    <2>1. /\ step[p] \in {"fold", "create"} /\ UNCHANGED <<runs, run, at, pid>>
          /\ Goto(p, "mark")
      BY <1>2 DEF Fold, Create, Doing, lockVars
    <2> QED
      BY <2>1, JobMoves DEF Steps
  <1>3. CASE MarkDangling(p)
    BY <1>3, MarkKeepsRuns DEF LockInv
  <1>4. CASE Register(p)
    <2>1. pid[p] \in Pids
      BY <1>4 DEF Register, Doing, RunInv, OwnRow, Owner, Running, LockInv, PidsApart
    <2> QED
      BY <1>4, <2>1, RegisterKeepsRuns
  <1>5. CASE BeginCycle(p) \/ Progress(p) \/ CycleFails(p)
    <2>1. /\ step[p] \in {"loop", "cycle", "beat"} /\ UNCHANGED <<runs, run, at, pid>>
          /\ Goto(p, "cycle") \/ Goto(p, "beat") \/ Goto(p, "loop")
      BY <1>5 DEF BeginCycle, Progress, CycleFails, Doing, lockVars
    <2>2. Registered(p)
      BY <2>1 DEF Registered
    <2> QED
      BY <2>1, <2>2, JobMoves DEF Steps
  <1>6. CASE Heartbeat(p)
    BY <1>6, HeartbeatKeepsRuns
  <1>7. CASE LeaveLoop(p) \/ Settle(p)
    <2>1. /\ step[p] \in {"loop", "settle"} /\ UNCHANGED <<runs, run, at, pid>>
          /\ Goto(p, "settle") \/ Goto(p, "stop")
      BY <1>7 DEF LeaveLoop, Settle, Doing, lockVars
    <2>2. HasRun(p)
      BY <2>1 DEF HasRun
    <2> QED
      BY <2>1, <2>2, JobMoves DEF Steps
  <1>8. CASE StopRun(p)
    BY <1>8, StopKeepsRuns DEF LockInv
  <1>9. CASE WriteFails(p)
    <2>1. step[p] # "none" /\ UNCHANGED <<runs, run, at, pid>> /\ Goto(p, "done")
      BY <1>9 DEF WriteFails, Doing, lockVars
    <2> QED
      BY <2>1, JobMoves DEF Steps
  <1> QED
    BY <1>1, <1>2, <1>3, <1>4, <1>5, <1>6, <1>7, <1>8, <1>9 DEF Job

\* Every step keeps the invariant of the runs, given that of the lock.
LEMMA NextRuns == RunInv /\ LockInv /\ [Next]_vars => RunInv'
  <1> SUFFICES ASSUME RunInv, LockInv, [Next]_vars PROVE RunInv'
    OBVIOUS
  <1>1. ASSUME NEW p \in Procs, Process(p) PROVE RunInv'
    BY <1>1, LockSteps, JobSteps DEF Process
  <1>2. CASE Start
    <2>1. PICK p \in Procs : \E i \in Pids : Launch(p, i) /\ UNCHANGED <<runs, sessions, today, jobVars>>
      BY <1>2 DEF Start
    <2> QED
      BY <2>1, LockSteps
  <1>3. CASE Midnight \/ UNCHANGED vars
    <2>1. UNCHANGED <<runs, step, run, at, pid>>
      BY <1>3 DEF Midnight, vars, lockVars, jobVars
    <2> QED
      BY <2>1 DEF RunInv, RunTypes, OwnRow, Owner, HasRun, LiveRunIsRunning, Registered
  <1> QED
    BY <1>1, <1>2, <1>3 DEF Next

\* ADR 0002: whatever starts, crashes or stops next to it, the row of a bot in
\* its loop says 'running'.
THEOREM NoSiblingMarksLive == Spec => []LiveRunIsRunning
  <1>1. RunInv => LiveRunIsRunning
    BY DEF RunInv
  <1>2. Spec => []LockInv
    BY ImplementsLock, LockSafe, PTL
  <1> QED
    BY <1>1, <1>2, InitRuns, NextRuns, PTL DEF Spec
------------------------------------------------------------------------------
(* Windows: the inductive invariant *)

Row == [start : Nat, status : SessionStatus]

\* The steps only a learner comes to, those at which it has a window to write
\* to, and those at which the window's end is decided.
LearnerSteps == {"resume", "fold", "create", "settle"}
WindowSteps == {"fold", "mark", "register", "loop", "cycle", "beat", "settle"}
EndSteps == {"settle", "stop", "done"}

OnWindow(p) == Learns(p) /\ step[p] \in WindowSteps

WindowTypes == /\ sessions \in Seq(Row)
               /\ today \in Nat
               /\ step \in [Procs -> Steps]
               /\ session \in [Procs -> Nat]
               /\ final \in [Procs -> {"stopped", "completed"}]

\* The rows are in the order of their starts, and a completed one has elapsed.
WindowRows ==
    /\ \A i \in DOMAIN sessions : sessions[i].start <= today
    /\ \A i, j \in DOMAIN sessions : i <= j => sessions[i].start <= sessions[j].start
    /\ \A i \in DOMAIN sessions : sessions[i].status = "completed" => Elapsed(i)

WindowJobs ==
    \A p \in Procs :
        /\ step[p] \in LearnerSteps => Learns(p)
        /\ OnWindow(p) => session[p] \in DOMAIN sessions
        /\ final[p] = "completed" => /\ step[p] \in EndSteps
                                     /\ session[p] \in DOMAIN sessions
                                     /\ Elapsed(session[p])

\* While the lock excludes: the window at work is not settled, the first window
\* is open and alone until it has elapsed, and none is created before that.
WindowOpen ==
    "learn" \notin raced =>
        /\ \A p \in Procs : OnWindow(p) => sessions[session[p]].status \notin Settled
        /\ sessions # << >> /\ ~Elapsed(1)
              => Len(sessions) = 1 /\ sessions[1].status \notin Settled
        /\ \A p \in Procs : step[p] = "create" => sessions = << >> \/ Elapsed(1)

WindowInv == WindowTypes /\ WindowRows /\ WindowJobs /\ WindowOpen

\* Initially there is no window and nobody is at work.
LEMMA InitWindows == Init => WindowInv
  <1> SUFFICES ASSUME Init PROVE WindowInv
    OBVIOUS
  <1>1. WindowTypes
    BY DEF Init, WindowTypes, Steps
  <1>2. WindowRows
    BY DEF Init, WindowRows
  <1>3. WindowJobs
    BY DEF Init, WindowJobs, LearnerSteps, OnWindow, WindowSteps
  <1>4. WindowOpen
    BY DEF Init, WindowOpen, OnWindow, WindowSteps
  <1> QED
    BY <1>1, <1>2, <1>3, <1>4 DEF WindowInv

\* Without a race two processes at work on the window are one.
LEMMA OneAtWork ==
    ASSUME RunInv, LockInv, "learn" \notin raced, NEW p \in Procs, NEW q \in Procs,
           Learns(p), Learns(q), step[p] # "none", step[q] # "none"
    PROVE  p = q
  <1>1. Owner(p) /\ Owner(q)
    BY DEF RunInv, OwnRow
  <1>2. \A r \in Rivals(p) : at[r] \in {"down", "launched", "probing"}
    BY <1>1 DEF LockInv, OwnerRespected, Learns
  <1> QED
    BY <1>1, <1>2 DEF Rivals, Learns, Owner

\* A step that leaves the table alone, and puts nobody on a window who was not.
LEMMA WindowUntouched ==
    ASSUME WindowInv, UNCHANGED <<sessions, today>>, raced \subseteq raced',
           step' \in [Procs -> Steps], session' \in [Procs -> Nat],
           final' \in [Procs -> {"stopped", "completed"}],
           \A p \in Procs : step'[p] \in LearnerSteps => Learns(p),
           \A p \in Procs : OnWindow(p)' => OnWindow(p) /\ session'[p] = session[p],
           \A p \in Procs : step'[p] = "create" => step[p] = "create",
           \A p \in Procs : final'[p] = "completed" =>
                /\ step'[p] \in EndSteps /\ session'[p] \in DOMAIN sessions
                /\ Elapsed(session'[p])
    PROVE  WindowInv'
  <1>1. \A i : Elapsed(i)' <=> Elapsed(i)
    BY DEF Elapsed
  <1>2. WindowTypes'
    BY DEF WindowInv, WindowTypes
  <1>3. WindowRows'
    BY <1>1 DEF WindowInv, WindowRows
  <1>4. WindowJobs'
    <2> SUFFICES ASSUME NEW p \in Procs
                 PROVE  /\ step'[p] \in LearnerSteps => Learns(p)
                        /\ OnWindow(p)' => session'[p] \in DOMAIN sessions
                        /\ final'[p] = "completed" => /\ step'[p] \in EndSteps
                                                      /\ session'[p] \in DOMAIN sessions
                                                      /\ Elapsed(session'[p])
      BY DEF WindowJobs, Learns, Elapsed
    <2> QED
      BY DEF WindowInv, WindowJobs
  <1>5. WindowOpen'
    BY <1>1 DEF WindowInv, WindowOpen
  <1> QED
    BY <1>2, <1>3, <1>4, <1>5 DEF WindowInv

\* Only the status of rows is written, and "completed" on what has elapsed.
LEMMA TableRewritten ==
    ASSUME WindowTypes, WindowRows, sessions' \in Seq(Row), today' = today,
           DOMAIN sessions' = DOMAIN sessions,
           \A i \in DOMAIN sessions : /\ sessions'[i].start = sessions[i].start
                                      /\ sessions'[i].status = "completed"
                                            => sessions[i].status = "completed" \/ Elapsed(i)
    PROVE  /\ WindowRows' /\ Len(sessions') = Len(sessions)
           /\ \A i \in DOMAIN sessions : Elapsed(i)' <=> Elapsed(i)
  <1>1. \A i \in DOMAIN sessions : Elapsed(i)' <=> Elapsed(i)
    BY DEF Elapsed
  <1>2. Len(sessions') = Len(sessions)
    BY DEF WindowTypes
  <1>3. WindowRows'
    BY <1>1 DEF WindowRows
  <1> QED
    BY <1>1, <1>2, <1>3

\* A process at work writes to the window it has, and moves on.
LEMMA WindowWritten ==
    ASSUME RunInv, LockInv, WindowInv, NEW p \in Procs, NEW s \in Steps \ LearnerSteps,
           Learns(p), OnWindow(p), Goto(p, s), UNCHANGED <<raced, session, final, today>>,
           final[p] = "completed" => s \in EndSteps,
           sessions' \in Seq(Row), DOMAIN sessions' = DOMAIN sessions,
           \A i \in DOMAIN sessions : /\ sessions'[i].start = sessions[i].start
                                      /\ sessions'[i].status = "completed"
                                            => sessions[i].status = "completed" \/ Elapsed(i),
           s \in WindowSteps /\ sessions[session[p]].status \notin Settled
                => sessions'[session[p]].status \notin Settled,
           ~Elapsed(session[p]) /\ sessions[session[p]].status \notin Settled
                => sessions'[session[p]].status \notin Settled
    PROVE  WindowInv'
  <1>1. /\ WindowRows' /\ Len(sessions') = Len(sessions)
        /\ \A i \in DOMAIN sessions : Elapsed(i)' <=> Elapsed(i)
    BY TableRewritten DEF WindowInv
  <1>2. /\ step'[p] = s /\ \A q \in Procs \ {p} : step'[q] = step[q]
        /\ step' \in [Procs -> Steps]
    BY DEF Goto, WindowInv, WindowTypes
  <1>3. WindowTypes'
    BY <1>2 DEF WindowInv, WindowTypes
  <1>4. WindowJobs'
    <2> SUFFICES ASSUME NEW q \in Procs
                 PROVE  /\ step'[q] \in LearnerSteps => Learns(q)
                        /\ OnWindow(q)' => session[q] \in DOMAIN sessions
                        /\ final[q] = "completed" => /\ step'[q] \in EndSteps
                                                     /\ session[q] \in DOMAIN sessions
                                                     /\ Elapsed(session[q])'
      BY DEF WindowJobs, Learns
    <2>1. OnWindow(q)' => OnWindow(q)
      BY <1>2 DEF OnWindow, Learns
    <2> QED
      BY <1>1, <1>2, <2>1 DEF WindowInv, WindowJobs
  <1>5. WindowOpen'
    <2> SUFFICES ASSUME "learn" \notin raced
                 PROVE  /\ \A q \in Procs : OnWindow(q)'
                                => sessions'[session[q]].status \notin Settled
                        /\ sessions' # << >> /\ ~Elapsed(1)'
                              => Len(sessions') = 1 /\ sessions'[1].status \notin Settled
                        /\ \A q \in Procs : step'[q] = "create" => sessions' = << >> \/ Elapsed(1)'
      BY DEF WindowOpen
    <2>1. session[p] \in DOMAIN sessions /\ sessions[session[p]].status \notin Settled
      BY DEF WindowInv, WindowJobs, WindowOpen
    <2>2. \A q \in Procs : step'[q] # "none" /\ Learns(q) => q = p
      BY <1>2, OneAtWork DEF OnWindow, WindowSteps
    <2>3. ASSUME NEW q \in Procs, OnWindow(q)'
          PROVE  sessions'[session[q]].status \notin Settled
      <3>1. q = p /\ s \in WindowSteps
        BY <1>2, <2>2, <2>3 DEF OnWindow, WindowSteps, Learns
      <3> QED
        BY <2>1, <3>1
    <2>4. ASSUME sessions' # << >>, ~Elapsed(1)'
          PROVE  Len(sessions') = 1 /\ sessions'[1].status \notin Settled
      <3>1. sessions \in Seq(Row) /\ 1 \in DOMAIN sessions /\ sessions # << >>
        BY <1>1, <2>1 DEF WindowInv, WindowTypes
      <3>2. ~Elapsed(1)
        BY <1>1, <2>4, <3>1
      <3>3. Len(sessions) = 1 /\ sessions[1].status \notin Settled
        BY <3>1, <3>2 DEF WindowInv, WindowOpen
      <3>4. session[p] = 1
        BY <2>1, <3>1, <3>3
      <3> QED
        BY <1>1, <3>2, <3>3, <3>4
    <2>5. \A q \in Procs : step'[q] # "create"
      BY <1>2, <2>2 DEF WindowInv, WindowJobs, LearnerSteps
    <2> QED
      BY <2>3, <2>4, <2>5
  <1> QED
    BY <1>1, <1>3, <1>4, <1>5 DEF WindowInv

\* A set of numbers has a smallest one.
LEMMA SmallestElement ==
    ASSUME NEW S \in SUBSET Nat, S # {}
    PROVE  \E n \in S : \A m \in S : n <= m
  <1> DEFINE R == {ss \in Nat \X Nat : ss[1] < ss[2]}
  <1>1. IsWellFoundedOn(R, Nat)
    BY NatLessThanWellFounded, Zenon DEF OpToRel
  <1>2. \A x, y \in Nat : <<x, y>> \in R <=> x < y
    OBVIOUS
  <1> HIDE DEF R
  <1>3. \E n \in S : \A m \in S : ~(<<m, n>> \in R)
    BY <1>1, WFMin, Zenon
  <1>4. PICK n \in S : \A m \in S : ~(<<m, n>> \in R)
    BY <1>3
  <1>5. \A m \in S : ~(m < n)
    BY <1>2, <1>4, Zenon
  <1> QED
    BY <1>5

------------------------------------------------------------------------------
(* Windows: the steps *)

\* A row that is not settled has an earliest one.
LEMMA ResumableIsUnsettled ==
    ASSUME WindowTypes, Unsettled # {}
    PROVE  Resumable \in Unsettled /\ Resumable \in Nat \ {0}
  <1>1. Unsettled \in SUBSET Nat /\ 0 \notin Unsettled
    BY DEF WindowTypes, Unsettled
  <1>2. \E n \in Unsettled : \A m \in Unsettled : n <= m
    BY <1>1, SmallestElement
  <1>3. Resumable \in Unsettled
    BY <1>2 DEF Resumable
  <1> QED
    BY <1>1, <1>3

\* A window is resumed, the earliest one that is not settled, or none is found.
LEMMA ResumeKeepsWindows ==
    ASSUME WindowInv, NEW p \in Procs, Resume(p)
    PROVE  WindowInv'
  <1>1. /\ step[p] = "resume" /\ UNCHANGED <<sessions, final, today, raced>>
        /\ \/ CanResume /\ session' = [session EXCEPT ![p] = Resumable] /\ Goto(p, "fold")
           \/ ~CanResume /\ session' = session /\ Goto(p, "create")
    BY DEF Resume, Doing, lockVars
  <1>2. \A i : Elapsed(i)' <=> Elapsed(i)
    BY <1>1 DEF Elapsed
  <1>3. sessions \in Seq(Row) /\ session \in [Procs -> Nat] /\ step \in [Procs -> Steps]
    BY DEF WindowInv, WindowTypes
  <1>4. Learns(p) /\ final[p] # "completed"
    BY <1>1 DEF WindowInv, WindowJobs, LearnerSteps, EndSteps, WindowTypes
  <1>5. Unsettled # {} => Resumable \in Unsettled /\ Resumable \in Nat \ {0}
    BY ResumableIsUnsettled DEF WindowInv
  <1>6. CanResume => Resumable \in Unsettled /\ Resumable \in Nat
    BY <1>5 DEF CanResume, Resumable
  <1>7. /\ \A q \in Procs \ {p} : step'[q] = step[q] /\ session'[q] = session[q]
        /\ step' \in [Procs -> Steps] /\ session' \in [Procs -> Nat]
    BY <1>1, <1>3, <1>6 DEF Goto, Steps
  <1>8. \/ CanResume /\ step'[p] = "fold" /\ session'[p] = Resumable
        \/ ~CanResume /\ step'[p] = "create"
    BY <1>1, <1>3 DEF Goto
  <1>9. WindowTypes'
    BY <1>1, <1>7 DEF WindowInv, WindowTypes
  <1>10. WindowRows'
    BY <1>1, <1>2 DEF WindowInv, WindowRows
  <1>11. WindowJobs'
    <2> SUFFICES ASSUME NEW q \in Procs
                 PROVE  /\ step'[q] \in LearnerSteps => Learns(q)
                        /\ OnWindow(q)' => session'[q] \in DOMAIN sessions
                        /\ final[q] = "completed" => /\ step'[q] \in EndSteps
                                                     /\ session'[q] \in DOMAIN sessions
                                                     /\ Elapsed(session'[q])
      BY <1>1 DEF WindowJobs, Learns, Elapsed
    <2>1. CASE q = p
      BY <1>4, <1>6, <1>8, <2>1 DEF OnWindow, WindowSteps, Unsettled
    <2>2. CASE q # p
      BY <1>7, <2>2 DEF WindowInv, WindowJobs, OnWindow, Learns
    <2> QED
      BY <2>1, <2>2
  <1>12. WindowOpen'
    <2> SUFFICES ASSUME "learn" \notin raced
                 PROVE  /\ \A q \in Procs : OnWindow(q)'
                                => sessions[session'[q]].status \notin Settled
                        /\ sessions # << >> /\ ~Elapsed(1)
                              => Len(sessions) = 1 /\ sessions[1].status \notin Settled
                        /\ \A q \in Procs : step'[q] = "create" => sessions = << >> \/ Elapsed(1)
      BY <1>1, <1>2 DEF WindowOpen
    <2>1. \A q \in Procs \ {p} : OnWindow(q)' => OnWindow(q)
      BY <1>7 DEF OnWindow, Learns
    <2>2. ASSUME NEW q \in Procs, OnWindow(q)'
          PROVE  sessions[session'[q]].status \notin Settled
      <3>1. CASE q = p
        BY <1>6, <1>8, <2>2, <3>1 DEF OnWindow, WindowSteps, Unsettled
      <3>2. CASE q # p
        BY <1>7, <2>1, <2>2, <3>2 DEF WindowInv, WindowOpen
      <3> QED
        BY <3>1, <3>2
    <2>3. ASSUME sessions # << >>, ~Elapsed(1) PROVE CanResume
      <3>1. Len(sessions) = 1 /\ sessions[1].status \notin Settled
        BY <2>3 DEF WindowInv, WindowOpen
      <3>2. Unsettled = {1}
        BY <1>3, <3>1 DEF Unsettled
      <3>3. Resumable = 1
        BY <1>5, <3>2
      <3> QED
        BY <2>3, <3>3 DEF CanResume
    <2>4. \A q \in Procs : step'[q] = "create" => sessions = << >> \/ Elapsed(1)
      BY <1>7, <1>8, <2>3 DEF WindowInv, WindowOpen
    <2> QED
      BY <2>2, <2>4 DEF WindowInv, WindowOpen
  <1> QED
    BY <1>9, <1>10, <1>11, <1>12 DEF WindowInv

\* The other open windows are folded into the one resumed.
LEMMA FoldKeepsWindows ==
    ASSUME RunInv, LockInv, WindowInv, NEW p \in Procs, Fold(p)
    PROVE  WindowInv'
  <1>1. /\ step[p] = "fold" /\ UNCHANGED <<raced, session, final, today>> /\ Goto(p, "mark")
        /\ OthersSuperseded(session[p])
    BY DEF Fold, Doing, lockVars
  <1>2. Learns(p) /\ OnWindow(p) /\ final[p] # "completed"
    BY <1>1 DEF WindowInv, WindowJobs, LearnerSteps, OnWindow, WindowSteps, EndSteps
  <1>3. sessions \in Seq(Row)
    BY DEF WindowInv, WindowTypes
  <1>4. \A i \in DOMAIN sessions : sessions[i] \in Row
    BY <1>3, ElementTyped
  <1>5. /\ DOMAIN sessions' = DOMAIN sessions
        /\ \A i \in DOMAIN sessions : /\ sessions'[i] \in Row
                                      /\ sessions'[i].start = sessions[i].start
                                      /\ \/ sessions'[i] = sessions[i]
                                         \/ sessions'[i].status = "superseded"
    BY <1>1, <1>4 DEF OthersSuperseded, Row, SessionStatus
  <1>6. sessions' \in Seq(Row)
    <2>1. sessions' = [i \in 1..Len(sessions) |-> sessions'[i]] /\ Len(sessions) \in Nat
      BY <1>1, <1>3 DEF OthersSuperseded
    <2> QED
      BY <1>3, <1>5, <2>1
  <1>7. session[p] \in DOMAIN sessions
    BY <1>2 DEF WindowInv, WindowJobs
  <1>8. sessions'[session[p]] = sessions[session[p]]
    BY <1>1, <1>7 DEF OthersSuperseded
  <1> QED
    BY <1>1, <1>2, <1>5, <1>6, <1>8, WindowWritten DEF Steps, LearnerSteps

\* _learning_cycle writes "active".
LEMMA ProgressKeepsWindows ==
    ASSUME RunInv, LockInv, WindowInv, NEW p \in Procs, Progress(p)
    PROVE  WindowInv'
  <1>1. /\ step[p] = "cycle" /\ UNCHANGED <<raced, session, final, today>> /\ Goto(p, "beat")
        /\ Learns(p) /\ sessions' = [sessions EXCEPT ![session[p]].status = "active"]
    BY DEF Progress, Doing, SessionUpdated, lockVars
  <1>2. OnWindow(p) /\ final[p] # "completed" /\ session[p] \in DOMAIN sessions
    BY <1>1 DEF WindowInv, WindowJobs, OnWindow, WindowSteps, EndSteps
  <1>3. sessions \in Seq(Row)
    BY DEF WindowInv, WindowTypes
  <1>4. sessions[session[p]] \in Row
    BY <1>2, <1>3, ElementTyped
  <1>5. [sessions[session[p]] EXCEPT !.status = "active"] \in Row
    BY <1>4 DEF Row, SessionStatus
  <1>6. sessions' \in Seq(Row) /\ DOMAIN sessions' = DOMAIN sessions
    BY <1>1, <1>2, <1>3, <1>5
  <1>7. /\ \A i \in DOMAIN sessions \ {session[p]} : sessions'[i] = sessions[i]
        /\ sessions'[session[p]].start = sessions[session[p]].start
        /\ sessions'[session[p]].status = "active"
    BY <1>1, <1>2, <1>4 DEF Row
  <1>8. "active" \notin Settled /\ "active" # "completed"
    BY DEF Settled
  <1>9. \A i \in DOMAIN sessions :
            /\ sessions'[i].start = sessions[i].start
            /\ sessions'[i].status = "completed" => sessions[i].status = "completed"
    BY <1>7, <1>8
  <1> QED
    BY <1>1, <1>2, <1>6, <1>7, <1>8, <1>9, WindowWritten DEF Steps, LearnerSteps

\* The window is settled: completed if it had elapsed when the loop was left.
LEMMA SettleKeepsWindows ==
    ASSUME RunInv, LockInv, WindowInv, NEW p \in Procs, Settle(p)
    PROVE  WindowInv'
  <1>1. /\ step[p] = "settle" /\ UNCHANGED <<raced, session, final, today>> /\ Goto(p, "stop")
        /\ sessions' = [sessions EXCEPT ![session[p]].status = final[p]]
    BY DEF Settle, Doing, SessionUpdated, lockVars
  <1>2. Learns(p)
    BY <1>1 DEF WindowInv, WindowJobs, LearnerSteps
  <1>3. OnWindow(p) /\ session[p] \in DOMAIN sessions
    BY <1>1, <1>2 DEF WindowInv, WindowJobs, OnWindow, WindowSteps
  <1>4. sessions \in Seq(Row) /\ final[p] \in {"stopped", "completed"}
    BY DEF WindowInv, WindowTypes
  <1>5. final[p] = "completed" => Elapsed(session[p])
    BY DEF WindowInv, WindowJobs
  <1>6. sessions[session[p]] \in Row
    BY <1>3, <1>4, ElementTyped
  <1>7. [sessions[session[p]] EXCEPT !.status = final[p]] \in Row
    BY <1>4, <1>6 DEF Row, SessionStatus
  <1>8. sessions' \in Seq(Row) /\ DOMAIN sessions' = DOMAIN sessions
    BY <1>1, <1>3, <1>4, <1>7
  <1>9. /\ \A i \in DOMAIN sessions \ {session[p]} : sessions'[i] = sessions[i]
        /\ sessions'[session[p]].start = sessions[session[p]].start
        /\ sessions'[session[p]].status = final[p]
    BY <1>1, <1>3, <1>6 DEF Row
  <1>10. \A i \in DOMAIN sessions :
            /\ sessions'[i].start = sessions[i].start
            /\ sessions'[i].status = "completed"
                    => sessions[i].status = "completed" \/ Elapsed(i)
    BY <1>5, <1>9
  <1>11. ~Elapsed(session[p]) => sessions'[session[p]].status \notin Settled
    BY <1>4, <1>5, <1>9 DEF Settled
  <1> QED
    BY <1>1, <1>2, <1>3, <1>8, <1>10, <1>11, WindowWritten
       DEF Steps, LearnerSteps, WindowSteps, EndSteps

\* A new window starts today, after all others.
LEMMA CreateKeepsWindows ==
    ASSUME RunInv, LockInv, WindowInv, NEW p \in Procs, Create(p)
    PROVE  WindowInv'
  <1> DEFINE n == Len(sessions) + 1
             row == [start |-> today, status |-> "active"]
  <1>1. /\ step[p] = "create" /\ UNCHANGED <<raced, final, today>> /\ Goto(p, "mark")
        /\ sessions' = Append(sessions, row) /\ session' = [session EXCEPT ![p] = n]
    BY DEF Create, Doing, SessionStarted, lockVars
  <1>2. /\ Learns(p) /\ final[p] # "completed"
        /\ sessions \in Seq(Row) /\ row \in Row /\ today \in Nat
        /\ session \in [Procs -> Nat] /\ step \in [Procs -> Steps]
    BY <1>1 DEF WindowInv, WindowJobs, WindowTypes, LearnerSteps, EndSteps, Row, SessionStatus
  <1>3. /\ sessions' \in Seq(Row) /\ DOMAIN sessions' = DOMAIN sessions \cup {n}
        /\ sessions'[n] = row /\ \A i \in DOMAIN sessions : sessions'[i] = sessions[i] /\ i < n
        /\ n \in Nat /\ Len(sessions') = n /\ sessions' # << >>
        /\ sessions = << >> => n = 1
        /\ sessions # << >> => 1 \in DOMAIN sessions
    <2>1. /\ Len(sessions) \in Nat /\ DOMAIN sessions = 1..Len(sessions)
          /\ sessions = << >> <=> Len(sessions) = 0
      BY <1>2
    <2>2. /\ sessions' \in Seq(Row) /\ Len(sessions') = n /\ sessions'[n] = row
          /\ \A i \in 1..Len(sessions) : sessions'[i] = sessions[i]
      BY <1>1, <1>2
    <2>3. DOMAIN sessions' = 1..n /\ sessions' # << >>
      BY <2>1, <2>2
    <2> QED
      BY <2>1, <2>2, <2>3
  <1>4. /\ step'[p] = "mark" /\ session'[p] = n
        /\ \A q \in Procs \ {p} : step'[q] = step[q] /\ session'[q] = session[q]
        /\ step' \in [Procs -> Steps] /\ session' \in [Procs -> Nat]
    BY <1>1, <1>2, <1>3 DEF Goto, Steps
  <1> HIDE DEF n
  <1>5. \A i \in DOMAIN sessions : Elapsed(i)' <=> Elapsed(i)
    BY <1>1, <1>3 DEF Elapsed
  <1>6. WindowTypes'
    BY <1>1, <1>3, <1>4 DEF WindowInv, WindowTypes
  <1>7. WindowRows'
    <2>1. \A i \in DOMAIN sessions' : sessions'[i].start <= today'
      BY <1>1, <1>2, <1>3 DEF WindowInv, WindowRows
    <2>2. ASSUME NEW i \in DOMAIN sessions', NEW j \in DOMAIN sessions', i <= j
          PROVE  sessions'[i].start <= sessions'[j].start
      <3>1. CASE j = n
        BY <1>1, <1>3, <2>1, <3>1
      <3>2. CASE j # n
        <4>1. j \in DOMAIN sessions /\ i # n
          BY <1>2, <1>3, <2>2, <3>2
        <4> QED
          BY <1>3, <2>2, <4>1 DEF WindowInv, WindowRows
      <3> QED
        BY <3>1, <3>2
    <2>3. ASSUME NEW i \in DOMAIN sessions', sessions'[i].status = "completed"
          PROVE  Elapsed(i)'
      <3>1. i \in DOMAIN sessions /\ sessions[i].status = "completed"
        BY <1>3, <2>3
      <3> QED
        BY <1>5, <3>1 DEF WindowInv, WindowRows
    <2> QED
      BY <2>1, <2>2, <2>3 DEF WindowRows
  <1>8. WindowJobs'
    <2> SUFFICES ASSUME NEW q \in Procs
                 PROVE  /\ step'[q] \in LearnerSteps => Learns(q)
                        /\ OnWindow(q)' => session'[q] \in DOMAIN sessions'
                        /\ final[q] = "completed" => /\ step'[q] \in EndSteps
                                                     /\ session'[q] \in DOMAIN sessions'
                                                     /\ Elapsed(session[q])'
      BY <1>1, <1>2, <1>4 DEF WindowJobs, Learns, Elapsed
    <2>1. CASE q = p
      BY <1>2, <1>3, <1>4, <2>1
    <2>2. CASE q # p
      BY <1>3, <1>4, <1>5, <2>2 DEF WindowInv, WindowJobs, OnWindow, Learns
    <2> QED
      BY <2>1, <2>2
  <1>9. WindowOpen'
    <2> SUFFICES ASSUME "learn" \notin raced
                 PROVE  /\ \A q \in Procs : OnWindow(q)'
                                => sessions'[session'[q]].status \notin Settled
                        /\ ~Elapsed(1)' => /\ Len(sessions') = 1
                                           /\ sessions'[1].status \notin Settled
                        /\ \A q \in Procs : step'[q] # "create"
      BY <1>1 DEF WindowOpen
    <2>1. \A q \in Procs : step'[q] # "none" /\ Learns(q) => q = p
      BY <1>1, <1>2, <1>4, OneAtWork
    <2>2. row.status \notin Settled
      BY DEF Settled
    <2>3. ASSUME NEW q \in Procs, OnWindow(q)'
          PROVE  sessions'[session'[q]].status \notin Settled
      <3>1. q = p
        BY <2>1, <2>3 DEF OnWindow, WindowSteps, Learns
      <3> QED
        BY <1>3, <1>4, <2>2, <3>1
    <2>4. sessions # << >> => Elapsed(1)'
      BY <1>1, <1>3, <1>5 DEF WindowInv, WindowOpen
    <2>5. \A q \in Procs : step'[q] # "create"
      BY <1>4, <2>1 DEF WindowInv, WindowJobs, LearnerSteps
    <2> QED
      BY <1>3, <2>2, <2>3, <2>4, <2>5
  <1> QED
    BY <1>6, <1>7, <1>8, <1>9 DEF WindowInv

\* What has elapsed stays elapsed.
LEMMA MidnightKeepsWindows ==
    ASSUME WindowInv, Midnight
    PROVE  WindowInv'
  <1>1. UNCHANGED <<sessions, raced, step, session, final>> /\ today' = today + 1
    BY DEF Midnight, NextDay, lockVars, jobVars
  <1>2. today \in Nat /\ sessions \in Seq(Row)
    BY DEF WindowInv, WindowTypes
  <1>3. \A i \in DOMAIN sessions : sessions[i].start \in Nat
    <2>1. \A i \in DOMAIN sessions : sessions[i] \in Row
      BY <1>2, ElementTyped
    <2> QED
      BY <2>1 DEF Row
  <1>4. \A i \in DOMAIN sessions : Elapsed(i) => Elapsed(i)'
    BY <1>1, <1>2, <1>3, SessionAssumption DEF Elapsed
  <1>5. WindowTypes'
    BY <1>1, <1>2 DEF WindowInv, WindowTypes
  <1>6. WindowRows'
    BY <1>1, <1>2, <1>3, <1>4 DEF WindowInv, WindowRows
  <1>7. WindowJobs'
    <2> SUFFICES ASSUME NEW q \in Procs
                 PROVE  /\ step[q] \in LearnerSteps => Learns(q)
                        /\ OnWindow(q) => session[q] \in DOMAIN sessions
                        /\ final[q] = "completed" => /\ step[q] \in EndSteps
                                                     /\ session[q] \in DOMAIN sessions
                                                     /\ Elapsed(session[q])'
      BY <1>1 DEF WindowJobs, OnWindow, Learns
    <2>1. /\ step[q] \in LearnerSteps => Learns(q)
          /\ OnWindow(q) => session[q] \in DOMAIN sessions
          /\ final[q] = "completed" => /\ step[q] \in EndSteps
                                       /\ session[q] \in DOMAIN sessions
                                       /\ Elapsed(session[q])
      BY DEF WindowInv, WindowJobs
    <2> QED
      BY <1>1, <1>4, <2>1
  <1>8. WindowOpen'
    <2>1. sessions # << >> => 1 \in DOMAIN sessions
      BY <1>2
    <2> QED
      BY <1>1, <1>4, <2>1 DEF WindowInv, WindowOpen, OnWindow, Learns
  <1> QED
    BY <1>5, <1>6, <1>7, <1>8 DEF WindowInv

\* A process moves on and leaves the windows alone.
LEMMA WindowMoves ==
    ASSUME WindowInv, NEW p \in Procs, NEW s \in Steps, Goto(p, s),
           UNCHANGED <<sessions, today, raced, session, final>>,
           s # "create", s \in LearnerSteps => Learns(p),
           Learns(p) /\ s \in WindowSteps => step[p] \in WindowSteps,
           step[p] \in EndSteps => s \in EndSteps
    PROVE  WindowInv'
  <1>1. /\ step'[p] = s /\ \A q \in Procs \ {p} : step'[q] = step[q]
        /\ step' \in [Procs -> Steps]
    BY DEF Goto, WindowInv, WindowTypes
  <1>2. session' \in [Procs -> Nat] /\ final' \in [Procs -> {"stopped", "completed"}]
    BY DEF WindowInv, WindowTypes
  <1>3. \A q \in Procs : step'[q] \in LearnerSteps => Learns(q)
    BY <1>1 DEF WindowInv, WindowJobs
  <1>4. \A q \in Procs : OnWindow(q)' => OnWindow(q) /\ session'[q] = session[q]
    BY <1>1 DEF OnWindow, Learns
  <1>5. \A q \in Procs : step'[q] = "create" => step[q] = "create"
    BY <1>1
  <1>6. \A q \in Procs : final'[q] = "completed" =>
            /\ step'[q] \in EndSteps /\ session'[q] \in DOMAIN sessions
            /\ Elapsed(session'[q])
    BY <1>1 DEF WindowInv, WindowJobs
  <1> QED
    BY <1>1, <1>2, <1>3, <1>4, <1>5, <1>6, WindowUntouched

\* A process ends, or forgets its job.
LEMMA WindowForgotten ==
    ASSUME WindowInv, NEW p \in Procs, Forget(p), UNCHANGED <<sessions, today, raced>>
    PROVE  WindowInv'
  <1>1. /\ step' \in [Procs -> Steps] /\ step'[p] = "none"
        /\ session' \in [Procs -> Nat]
        /\ final' \in [Procs -> {"stopped", "completed"}] /\ final'[p] = "stopped"
        /\ \A q \in Procs \ {p} : /\ step'[q] = step[q] /\ session'[q] = session[q]
                                  /\ final'[q] = final[q]
    BY DEF Forget, Goto, WindowInv, WindowTypes, Steps
  <1>2. \A q \in Procs : step'[q] \in LearnerSteps => Learns(q)
    BY <1>1 DEF WindowInv, WindowJobs, LearnerSteps
  <1>3. \A q \in Procs : OnWindow(q)' => OnWindow(q) /\ session'[q] = session[q]
    BY <1>1 DEF OnWindow, Learns, WindowSteps
  <1>4. \A q \in Procs : step'[q] = "create" => step[q] = "create"
    BY <1>1
  <1>5. \A q \in Procs : final'[q] = "completed" =>
            /\ step'[q] \in EndSteps /\ session'[q] \in DOMAIN sessions
            /\ Elapsed(session'[q])
    BY <1>1 DEF WindowInv, WindowJobs
  <1> QED
    BY <1>1, <1>2, <1>3, <1>4, <1>5, WindowUntouched

\* The loop is left: the window is over, or the process is to stop.
LEMMA LeaveKeepsWindows ==
    ASSUME WindowInv, NEW p \in Procs, LeaveLoop(p)
    PROVE  WindowInv'
  <1>1. /\ step[p] = "loop" /\ UNCHANGED <<sessions, today, raced, session>>
        /\ Goto(p, IF Learns(p) THEN "settle" ELSE "stop")
        /\ \/ final' = final
           \/ /\ Learns(p) /\ Elapsed(session[p])
              /\ final' = [final EXCEPT ![p] = "completed"]
    BY DEF LeaveLoop, Doing, lockVars
  <1>2. /\ step' \in [Procs -> Steps] /\ step'[p] \in {"settle", "stop"}
        /\ step'[p] = "settle" => Learns(p)
        /\ \A q \in Procs \ {p} : step'[q] = step[q]
    BY <1>1 DEF Goto, WindowInv, WindowTypes, Steps
  <1>3. /\ final' \in [Procs -> {"stopped", "completed"}]
        /\ \A q \in Procs \ {p} : final'[q] = final[q]
    BY <1>1 DEF WindowInv, WindowTypes
  <1>4. Learns(p) => session[p] \in DOMAIN sessions
    BY <1>1 DEF WindowInv, WindowJobs, OnWindow, WindowSteps
  <1>5. final[p] # "completed"
    BY <1>1 DEF WindowInv, WindowJobs, EndSteps
  <1>6. final'[p] = "completed" => Learns(p) /\ Elapsed(session[p])
    BY <1>1, <1>5
  <1>7. \A q \in Procs : step'[q] \in LearnerSteps => Learns(q)
    BY <1>2 DEF WindowInv, WindowJobs, LearnerSteps
  <1>8. \A q \in Procs : OnWindow(q)' => OnWindow(q) /\ session'[q] = session[q]
    BY <1>1, <1>2 DEF OnWindow, Learns, WindowSteps
  <1>9. \A q \in Procs : step'[q] = "create" => step[q] = "create"
    BY <1>2
  <1>10. \A q \in Procs : final'[q] = "completed" =>
            /\ step'[q] \in EndSteps /\ session'[q] \in DOMAIN sessions
            /\ Elapsed(session'[q])
    BY <1>1, <1>2, <1>3, <1>4, <1>6 DEF WindowInv, WindowJobs, EndSteps
  <1>11. session' \in [Procs -> Nat]
    BY <1>1 DEF WindowInv, WindowTypes
  <1> QED
    BY <1>1, <1>2, <1>3, <1>7, <1>8, <1>9, <1>10, <1>11, WindowUntouched

\* The way to the lock and out of it.
LEMMA LockSideKeepsWindows ==
    ASSUME RunInv, WindowInv, NEW p \in Procs,
           BeforeLock(p) \/ GetLock(p) \/ BeginRelease(p) \/ EndRelease(p) \/ Crash(p)
    PROVE  WindowInv'
  <1>1. CASE BeforeLock(p) \/ BeginRelease(p)
    <2>1. /\ UNCHANGED <<sessions, today, step, session, final>> /\ raced \subseteq raced'
      BY <1>1 DEF BeforeLock, BeginRelease, ReadFile, Refuse, Pass, Truncate, ReadOwn, jobVars
    <2> QED
      BY <2>1, WindowUntouched DEF WindowInv, WindowTypes, WindowJobs, OnWindow, Learns
  <1>2. CASE GetLock(p)
    <2>1. /\ at[p] = "truncated" /\ UNCHANGED <<sessions, today, session, final, raced>>
          /\ Goto(p, IF Learns(p) THEN "resume" ELSE "mark")
      BY <1>2 DEF GetLock, WritePid
    <2>2. step[p] = "none"
      BY <2>1 DEF RunInv, OwnRow, Owner
    <2> QED
      BY <2>1, <2>2, WindowMoves DEF Steps, LearnerSteps, WindowSteps, EndSteps
  <1>3. CASE EndRelease(p) \/ Crash(p)
    <2>1. Forget(p) /\ UNCHANGED <<sessions, today, raced>>
      BY <1>3 DEF EndRelease, LeaveFile, Unlink, Crash, Die
    <2> QED
      BY <2>1, WindowForgotten
  <1> QED
    BY <1>1, <1>2, <1>3

\* The steps of a process at work.
LEMMA JobKeepsWindows ==
    ASSUME RunInv, LockInv, WindowInv, NEW p \in Procs, Job(p)
    PROVE  WindowInv'
  <1>1. CASE Resume(p) \/ Fold(p) \/ Create(p) \/ Progress(p) \/ LeaveLoop(p) \/ Settle(p)
    BY <1>1, ResumeKeepsWindows, FoldKeepsWindows, CreateKeepsWindows, ProgressKeepsWindows,
       LeaveKeepsWindows, SettleKeepsWindows
  <1>2. CASE MarkDangling(p) \/ Register(p) \/ BeginCycle(p) \/ Heartbeat(p) \/ CycleFails(p)
    <2>1. /\ step[p] \in {"mark", "register", "loop", "cycle", "beat"}
          /\ UNCHANGED <<sessions, today, raced, session, final>>
          /\ \E s \in {"register", "loop", "cycle"} : Goto(p, s)
      BY <1>2 DEF MarkDangling, Register, BeginCycle, Heartbeat, CycleFails, Doing, lockVars
    <2> QED
      BY <2>1, WindowMoves DEF Steps, LearnerSteps, WindowSteps, EndSteps
  <1>3. CASE StopRun(p) \/ WriteFails(p)
    <2>1. UNCHANGED <<sessions, today, raced, session, final>> /\ Goto(p, "done")
      BY <1>3 DEF StopRun, WriteFails, Doing, lockVars
    <2> QED
      BY <2>1, WindowMoves DEF Steps, LearnerSteps, WindowSteps, EndSteps
  <1> QED
    BY <1>1, <1>2, <1>3 DEF Job

\* Every step keeps the invariant of the windows, given those of runs and lock.
LEMMA NextWindows == RunInv /\ LockInv /\ WindowInv /\ [Next]_vars => WindowInv'
  <1> SUFFICES ASSUME RunInv, LockInv, WindowInv, [Next]_vars PROVE WindowInv'
    OBVIOUS
  <1>1. ASSUME NEW p \in Procs, Process(p) PROVE WindowInv'
    BY <1>1, LockSideKeepsWindows, JobKeepsWindows DEF Process
  <1>2. CASE Start \/ UNCHANGED vars
    <2>1. UNCHANGED <<sessions, today, step, session, final, raced>>
      BY <1>2 DEF Start, Launch, vars, lockVars, jobVars
    <2> QED
      BY <2>1, WindowUntouched DEF WindowInv, WindowTypes, WindowJobs, OnWindow, Learns
  <1>3. CASE Midnight
    BY <1>3, MidnightKeepsWindows
  <1> QED
    BY <1>1, <1>2, <1>3 DEF Next

\* The inductive invariant of the learning window, with those it rests on.
THEOREM WindowsSafe == Spec => [](RunInv /\ LockInv /\ WindowInv)
  <1>1. Spec => []LockInv
    BY ImplementsLock, LockSafe, PTL
  <1> QED
    BY <1>1, InitRuns, NextRuns, InitWindows, NextWindows, PTL DEF Spec

\* Whatever stops, crashes and restarts: without a lock race the clock of the
\* first window is not reset before it has elapsed.
THEOREM ClockOfFirstWindow == Spec => []FirstWindowKept
  <1>1. WindowInv => FirstWindowKept
    BY DEF WindowInv, WindowOpen, FirstWindowKept
  <1> QED
    BY <1>1, WindowsSafe, PTL

\* A settled window is not written to, unless a lock race left somebody on it.
THEOREM SettledStay == Spec => SettledWindowsStay
  <1> DEFINE Stays == \A i \in DOMAIN sessions :
                          /\ sessions[i].status \in Settled
                          /\ "learn" \in raced => \A p \in Procs : session[p] # i
                          => sessions'[i] = sessions[i]
  <1>1. WindowInv /\ [Next]_vars => Stays
    <2> SUFFICES ASSUME WindowInv, [Next]_vars, NEW i \in DOMAIN sessions,
                        sessions[i].status \in Settled,
                        "learn" \in raced => \A p \in Procs : session[p] # i
                 PROVE  sessions'[i] = sessions[i]
      OBVIOUS
    <2>1. sessions \in Seq(Row)
      BY DEF WindowInv, WindowTypes
    <2>2. ASSUME NEW p \in Procs, Process(p) PROVE sessions'[i] = sessions[i]
      <3>1. CASE Fold(p)
        BY <3>1 DEF Fold, OthersSuperseded, Unsettled
      <3>2. CASE Create(p)
        BY <2>1, <3>2 DEF Create, SessionStarted
      <3>3. CASE Progress(p) \/ Settle(p)
        <4>1. /\ step[p] \in {"cycle", "settle"} /\ Learns(p)
              /\ \E s : sessions' = [sessions EXCEPT ![session[p]].status = s]
          BY <3>3 DEF Progress, Settle, Doing, SessionUpdated, WindowInv, WindowJobs, LearnerSteps
        <4>2. session[p] # i
          BY <4>1 DEF WindowInv, WindowOpen, OnWindow, WindowSteps
        <4> QED
          BY <4>1, <4>2
      <3>4. CASE ~(Fold(p) \/ Create(p) \/ Progress(p) \/ Settle(p))
        BY <2>2, <3>4 DEF Process, Job, BeforeLock, GetLock, BeginRelease, EndRelease, Crash,
           Resume, MarkDangling, Register, BeginCycle, Heartbeat, CycleFails, LeaveLoop,
           StopRun, WriteFails
      <3> QED
        BY <3>1, <3>2, <3>3, <3>4
    <2>3. CASE Start \/ Midnight \/ UNCHANGED vars
      BY <2>3 DEF Start, Midnight, NextDay, vars
    <2> QED
      BY <2>2, <2>3 DEF Next
  <1>2. Spec => [][Stays]_vars
    BY <1>1, WindowsSafe, PTL DEF Spec
  <1> QED
    BY <1>2 DEF SettledWindowsStay

\* The step from "fold" to "mark" is Fold.
LEMMA FoldStep ==
    ASSUME RunInv, WindowTypes, [Next]_vars,
           NEW p \in Procs, step[p] = "fold", step'[p] = "mark"
    PROVE  Fold(p)
  <1>1. step \in [Procs -> Steps]
    BY DEF WindowTypes
  <1>2. ASSUME NEW q \in Procs, Process(q) PROVE Fold(p)
    <2>1. CASE Job(q)
      <3>1. PICK s : step' = [step EXCEPT ![q] = s]
        BY <2>1 DEF Job, Goto, Resume, Fold, Create, MarkDangling, Register, BeginCycle,
           Progress, Heartbeat, CycleFails, LeaveLoop, Settle, StopRun, WriteFails
      <3>2. q = p
        BY <1>1, <3>1
      <3> QED
        BY <1>1, <2>1, <3>2 DEF Job, Doing, Goto, Resume, Create, MarkDangling, Register,
           BeginCycle, Progress, Heartbeat, CycleFails, LeaveLoop, Settle, StopRun, WriteFails
    <2>2. CASE BeforeLock(q) \/ BeginRelease(q)
      BY <2>2 DEF BeforeLock, BeginRelease, jobVars
    <2>3. CASE EndRelease(q) \/ Crash(q)
      BY <1>1, <2>3 DEF EndRelease, Crash, Forget, Goto
    <2>4. CASE GetLock(q)
      <3>1. at[q] = "truncated"
        BY <2>4 DEF GetLock, WritePid
      <3>2. step[q] = "none"
        BY <3>1 DEF RunInv, OwnRow, Owner
      <3> QED
        BY <1>1, <2>4, <3>2 DEF GetLock, Goto
    <2> QED
      BY <1>2, <2>1, <2>2, <2>3, <2>4 DEF Process
  <1>3. CASE Start \/ Midnight \/ UNCHANGED vars
    BY <1>3 DEF Start, Midnight, vars, jobVars
  <1> QED
    BY <1>2, <1>3 DEF Next

\* Folding leaves one window for the dashboard and for the next resume.
THEOREM FoldLeavesOne == Spec => FoldIsCanonical
  <1> DEFINE Canonical == \A p \in Procs :
                 /\ step[p] = "fold" /\ step'[p] = "mark"
                 /\ session[p] \in Unsettled /\ ~Elapsed(session[p])
                 => CurrentSession' = session[p] /\ Resumable' = session[p]
  <1>1. RunInv /\ WindowInv /\ [Next]_vars => Canonical
    <2> SUFFICES ASSUME RunInv, WindowInv, [Next]_vars,
                        NEW p \in Procs, step[p] = "fold", step'[p] = "mark",
                        session[p] \in Unsettled, ~Elapsed(session[p])
                 PROVE  CurrentSession' = session[p] /\ Resumable' = session[p]
      OBVIOUS
    <2> DEFINE keep == session[p]
               Shown == {i \in DOMAIN sessions : sessions[i].status # "superseded"}
    <2>1. OthersSuperseded(keep)
      BY FoldStep DEF WindowInv, Fold
    <2>2. sessions \in Seq(Row) /\ today \in Nat
      BY DEF WindowInv, WindowTypes
    <2>3. \A i \in DOMAIN sessions : sessions[i] \in Row
      BY <2>2, ElementTyped
    <2>4. keep \in DOMAIN sessions /\ sessions[keep].status \notin Settled
      BY DEF Unsettled
    <2>5. /\ DOMAIN sessions' = DOMAIN sessions
          /\ sessions'[keep] = sessions[keep]
          /\ \A i \in DOMAIN sessions \ {keep} :
                 /\ sessions'[i].status \in Settled
                 /\ sessions'[i].status = "superseded" \/ sessions[i].status = "completed"
      BY <2>1, <2>3, <2>4 DEF OthersSuperseded, Unsettled, Settled, Row
    <2>6. Unsettled' = {keep}
      BY <2>4, <2>5 DEF Unsettled
    <2>7. ASSUME NEW i \in DOMAIN sessions, sessions[i].status = "completed"
          PROVE  i < keep
      <3>1. /\ sessions[i].start \in Nat /\ sessions[keep].start \in Nat
            /\ i \in Nat /\ keep \in Nat
        BY <2>2, <2>3, <2>4 DEF Row
      <3>2. Elapsed(i)
        BY <2>7 DEF WindowInv, WindowRows
      <3>3. sessions[i].start < sessions[keep].start
        BY <2>2, <3>1, <3>2, SessionAssumption DEF Elapsed
      <3>4. keep <= i => sessions[keep].start <= sessions[i].start
        BY <2>4 DEF WindowInv, WindowRows
      <3> QED
        BY <3>1, <3>3, <3>4
    <2>8. keep \in Shown' /\ \A i \in Shown' : i <= keep
      BY <2>2, <2>4, <2>5, <2>7 DEF Settled
    <2>9. Resumable' = keep
      <3>1. keep \in Unsettled' /\ \A j \in Unsettled' : keep <= j
        BY <2>2, <2>4, <2>6
      <3>2. Resumable' \in Unsettled'
        BY <3>1 DEF Resumable
      <3> QED
        BY <2>6, <3>2
    <2>10. Shown' \in SUBSET Nat
      BY <2>2, <2>5
    <2>11. CurrentSession' = keep
      BY <2>8, <2>10 DEF CurrentSession
    <2> QED
      BY <2>9, <2>11
  <1>2. Spec => [][Canonical]_vars
    BY <1>1, WindowsSafe, PTL DEF Spec
  <1> QED
    BY <1>2 DEF FoldIsCanonical
------------------------------------------------------------------------------
(* Runs: what the dashboard shows *)

\* The pids a running row names, and those of the bots that have marked the
\* dangling rows and are about to insert theirs.  A mark leaves live pids only,
\* an insert adds no pid: this is what keeps the running rows few.
ClaimedPids == {runs[i].pid : i \in RunningIds}
               \cup {pid[p] : p \in {q \in Procs : step[q] = "register"}}

Few(S) == IsFiniteSet(S) /\ Cardinality(S) <= MaxAlive

PidsFew == Few(LivePids) /\ Few(ClaimedPids)

LEMMA FewerStillFew == ASSUME NEW S, Few(S), NEW T \in SUBSET S PROVE Few(T)
  BY FS_Subset, FS_CardinalityType, LockAssumption DEF Few

LEMMA InitFew == Init => PidsFew
  <1> SUFFICES ASSUME Init PROVE PidsFew
    OBVIOUS
  <1>1. LivePids = {}
    BY DEF Init, LockInit, LivePids, Alive, Running
  <1>2. ClaimedPids = {}
    BY DEF Init, ClaimedPids, RunningIds
  <1> QED
    BY <1>1, <1>2, FS_EmptySet, LockAssumption DEF PidsFew, Few

\* A process is launched only while others may be, and nobody else gains a pid.
LEMMA LiveFew == PidsFew /\ LockInv /\ [Next]_vars => Few(LivePids)'
  <1> SUFFICES ASSUME PidsFew, LockInv, [Next]_vars PROVE Few(LivePids)'
    OBVIOUS
  <1>1. [LockNext]_lockVars
    BY LockStep
  <1>2. DOMAIN at = Procs /\ DOMAIN pid = Procs
    BY DEF LockInv, LockTypeOK
  <1>3. CASE \E p \in Procs, i \in Pids : Launch(p, i)
    <2>1. PICK p \in Procs, i \in Pids : Launch(p, i)
      BY <1>3
    <2>2. LivePids' \subseteq LivePids \cup {i}
      BY <1>2, <2>1 DEF Launch, LivePids, Alive, Running
    <2>3. Cardinality(LivePids) < MaxAlive
      BY <2>1 DEF Launch, Free, LivePids
    <2>4. IsFiniteSet(LivePids) /\ Cardinality(LivePids) \in Nat
      BY FS_CardinalityType DEF PidsFew, Few
    <2>5. /\ IsFiniteSet(LivePids \cup {i})
          /\ \/ Cardinality(LivePids \cup {i}) = Cardinality(LivePids)
             \/ Cardinality(LivePids \cup {i}) = Cardinality(LivePids) + 1
      BY <2>4, FS_AddElement
    <2>6. Few(LivePids \cup {i})
      BY <2>3, <2>4, <2>5, LockAssumption DEF Few
    <2> QED
      BY <2>2, <2>6, FewerStillFew
  <1>4. CASE ~ \E p \in Procs, i \in Pids : Launch(p, i)
    <2>1. LivePids' \subseteq LivePids
      BY <1>1, <1>2, <1>4 DEF LockNext, Acquire, Release, ReadFile, Refuse, Pass, Truncate,
         WritePid, ReadOwn, LeaveFile, Unlink, Die, Gone, LivePids, Alive, Running, lockVars
    <2> QED
      BY <2>1, FewerStillFew DEF PidsFew
  <1> QED
    BY <1>3, <1>4

\* No row starts running and nobody comes to insert one.
LEMMA ClaimsKept ==
    ASSUME \A i \in RunningIds' : i \in RunningIds /\ runs'[i].pid = runs[i].pid,
           \A q \in Procs : step'[q] = "register" => step[q] = "register" /\ pid'[q] = pid[q]
    PROVE  ClaimedPids' \subseteq ClaimedPids
  BY DEF ClaimedPids

\* The steps around the lock leave the claims alone, or drop one.
LEMMA LockSideClaims ==
    ASSUME RunInv, LockInv, NEW p \in Procs,
           \/ \E i \in Pids : Launch(p, i) /\ UNCHANGED <<runs, sessions, today, jobVars>>
           \/ BeforeLock(p) \/ GetLock(p) \/ BeginRelease(p) \/ EndRelease(p) \/ Crash(p)
    PROVE  ClaimedPids' \subseteq ClaimedPids
  <1>1. DOMAIN at = Procs /\ DOMAIN pid = Procs /\ step \in [Procs -> Steps]
    BY DEF LockInv, LockTypeOK, RunInv, RunTypes
  <1>2. runs' = runs /\ \A q \in Procs \ {p} : pid'[q] = pid[q] /\ step'[q] = step[q]
    BY <1>1 DEF Launch, BeforeLock, ReadFile, Refuse, Pass, Truncate, GetLock, WritePid,
       BeginRelease, ReadOwn, EndRelease, LeaveFile, Unlink, Crash, Die, Gone, Forget, Goto, jobVars
  <1>3. at[p] \notin {"holding", "unlinking"} => step[p] = "none"
    BY DEF RunInv, OwnRow, Owner
  <1>4. step'[p] # "register"
    <2>1. CASE \/ \E i \in Pids : Launch(p, i) /\ UNCHANGED <<runs, sessions, today, jobVars>>
               \/ BeforeLock(p)
      BY <1>3, <2>1 DEF Launch, Running, BeforeLock, ReadFile, Refuse, Pass, Truncate, jobVars
    <2>2. CASE GetLock(p)
      BY <1>1, <2>2 DEF GetLock, Goto
    <2>3. CASE BeginRelease(p)
      BY <2>3 DEF BeginRelease, jobVars
    <2>4. CASE EndRelease(p) \/ Crash(p)
      BY <1>1, <2>4 DEF EndRelease, Crash, Forget, Goto
    <2> QED
      BY <2>1, <2>2, <2>3, <2>4
  <1>5. RunningIds' = RunningIds
    BY <1>2 DEF RunningIds
  <1> QED
    BY <1>2, <1>4, <1>5, ClaimsKept

\* The steps of a process at work: a mark leaves the pids of the living, an
\* insert turns the claim of the process into that of its row.
LEMMA JobClaims ==
    ASSUME RunInv, LockInv, NEW p \in Procs, Job(p)
    PROVE  ClaimedPids' \subseteq ClaimedPids \/ ClaimedPids' \subseteq LivePids
  <1>1. /\ step \in [Procs -> Steps] /\ pid' = pid /\ at' = at
        /\ runs \in Seq([pid : Pids, status : RunStatus])
    BY DEF RunInv, RunTypes, Job, Doing, lockVars, Resume, Fold, Create, MarkDangling, Register,
       BeginCycle, Progress, Heartbeat, CycleFails, LeaveLoop, Settle, StopRun, WriteFails
  <1>2. \A i \in DOMAIN runs : runs[i] \in [pid : Pids, status : RunStatus]
    BY <1>1, ElementTyped
  <1>3. CASE \/ Resume(p) \/ Fold(p) \/ Create(p) \/ BeginCycle(p) \/ Progress(p)
             \/ CycleFails(p) \/ LeaveLoop(p) \/ Settle(p) \/ WriteFails(p)
    <2>1. runs' = runs /\ \E s \in Steps \ {"register"} : Goto(p, s)
      BY <1>3 DEF Resume, Fold, Create, BeginCycle, Progress, CycleFails, LeaveLoop, Settle,
         WriteFails, Steps
    <2>2. \A q \in Procs : step'[q] = "register" => step[q] = "register"
      BY <1>1, <2>1 DEF Goto
    <2>3. RunningIds' = RunningIds
      BY <2>1 DEF RunningIds
    <2> QED
      BY <1>1, <2>1, <2>2, <2>3, ClaimsKept
  <1>4. CASE MarkDangling(p)
    <2>1. DanglingMarked(LivePids) /\ Goto(p, "register") /\ step[p] = "mark"
      BY <1>4 DEF MarkDangling, Doing
    <2>2. \A i \in RunningIds' : runs'[i].pid \in LivePids
      BY <1>2, <2>1 DEF DanglingMarked, RunningIds, RunStatus
    <2>3. \A q \in Procs : step'[q] = "register" => pid'[q] \in LivePids
      <3>1. \A q \in Procs : step'[q] = "register" => step[q] \in {"register", "mark"}
        BY <1>1, <2>1 DEF Goto
      <3>2. \A q \in Procs : step[q] # "none" => pid[q] \in LivePids
        BY DEF RunInv, OwnRow, Owner, LockInv, PidsApart, LivePids, Alive, Running
      <3> QED
        BY <1>1, <3>1, <3>2
    <2> QED
      BY <2>2, <2>3 DEF ClaimedPids
  <1>5. CASE Register(p)
    <2> DEFINE row == [pid |-> pid[p], status |-> "running"]
               n == Len(runs) + 1
    <2>1. step[p] = "register" /\ runs' = Append(runs, row) /\ Goto(p, "loop")
      BY <1>5 DEF Register, Doing, RunStarted
    <2>2. /\ DOMAIN runs' = DOMAIN runs \cup {n} /\ runs'[n] = row
          /\ \A i \in DOMAIN runs : runs'[i] = runs[i]
      BY <1>1, <2>1
    <2>3. \A i \in RunningIds' :
             \/ runs'[i].pid = pid[p]
             \/ i \in RunningIds /\ runs'[i].pid = runs[i].pid
      <3> SUFFICES ASSUME NEW i \in DOMAIN runs', runs'[i].status = "running"
                   PROVE  runs'[i].pid = pid[p] \/ (i \in RunningIds /\ runs'[i].pid = runs[i].pid)
        BY DEF RunningIds
      <3>0. row.pid = pid[p]
        OBVIOUS
      <3> HIDE DEF n, row
      <3>1. CASE i = n
        BY <2>2, <3>1, <3>0
      <3>2. CASE i \in DOMAIN runs
        BY <2>2, <3>2 DEF RunningIds
      <3> QED
        BY <2>2, <3>1, <3>2
    <2>4. \A q \in Procs : step'[q] = "register" => step[q] = "register"
      BY <1>1, <2>1 DEF Goto
    <2> QED
      BY <1>1, <2>1, <2>3, <2>4 DEF ClaimedPids
  <1>6. CASE Heartbeat(p) \/ StopRun(p)
    <2>1. /\ run[p] \in DOMAIN runs
          /\ \E s \in Steps \ {"register"} : Goto(p, s)
          /\ \/ /\ runs[run[p]].status = "running"
                /\ runs' = [runs EXCEPT ![run[p]].status = "running"]
             \/ runs' = [runs EXCEPT ![run[p]].status = "ended"]
      BY <1>6 DEF Heartbeat, StopRun, Doing, Beaten, RunStopped, RunInv, OwnRow, HasRun,
         LiveRunIsRunning, Registered, Steps
    <2>2. \A i \in RunningIds' : i \in RunningIds /\ runs'[i].pid = runs[i].pid
      BY <1>1, <1>2, <2>1 DEF RunningIds, RunStatus
    <2>3. \A q \in Procs : step'[q] = "register" => step[q] = "register"
      BY <1>1, <2>1 DEF Goto
    <2> QED
      BY <1>1, <2>2, <2>3, ClaimsKept
  <1> QED
    BY <1>3, <1>4, <1>5, <1>6 DEF Job

\* Every step keeps the claims few.
LEMMA NextFew == RunInv /\ LockInv /\ PidsFew /\ [Next]_vars => PidsFew'
  <1> SUFFICES ASSUME RunInv, LockInv, PidsFew, [Next]_vars PROVE PidsFew'
    OBVIOUS
  <1>1. ClaimedPids' \subseteq ClaimedPids \/ ClaimedPids' \subseteq LivePids
    <2>1. ASSUME NEW p \in Procs, Process(p)
          PROVE  ClaimedPids' \subseteq ClaimedPids \/ ClaimedPids' \subseteq LivePids
      BY <2>1, LockSideClaims, JobClaims DEF Process
    <2>2. CASE Start
      <3>1. PICK p \in Procs : \E i \in Pids : Launch(p, i)
                                    /\ UNCHANGED <<runs, sessions, today, jobVars>>
        BY <2>2 DEF Start
      <3> QED
        BY <3>1, LockSideClaims
    <2>3. CASE Midnight \/ UNCHANGED vars
      <3>1. UNCHANGED <<runs, step, pid>>
        BY <2>3 DEF Midnight, vars, lockVars, jobVars
      <3> QED
        BY <3>1 DEF ClaimedPids, RunningIds
    <2> QED
      BY <2>1, <2>2, <2>3 DEF Next
  <1>2. Few(ClaimedPids)'
    BY <1>1, FewerStillFew DEF PidsFew
  <1> QED
    BY <1>2, LiveFew DEF PidsFew

\* If no pid was handed out twice, the running rows are as few as the claims.
LEMMA RunningFew ==
    ASSUME PidsFew, RunInv, NoPidReuse
    PROVE  Few(RunningIds)
  <1> DEFINE f == [i \in RunningIds |-> runs[i].pid]
  <1>1. f \in Injection(RunningIds, ClaimedPids)
    BY DEF NoPidReuse, ClaimedPids, RunningIds, Injection, IsInjective
  <1> QED
    BY <1>1, FS_Injection, FS_CardinalityType, LockAssumption DEF PidsFew, Few

\* The largest of a set of numbers up to n.
LEMMA LargestElement ==
    ASSUME NEW n \in Nat, NEW S \in SUBSET (0..n), S # {}
    PROVE  \E m \in S : \A k \in S : k <= m
  <1> DEFINE D == {n - k : k \in S}
  <1>1. D \in SUBSET Nat /\ D # {}
    <2>1. \A k \in S : n - k \in Nat
      OBVIOUS
    <2>2. PICK k \in S : TRUE
      OBVIOUS
    <2>3. n - k \in D
      BY <2>2
    <2> QED
      BY <2>1, <2>3
  <1>2. PICK d \in D : \A e \in D : d <= e
    BY <1>1, SmallestElement
  <1>3. PICK m \in S : d = n - m
    BY <1>2
  <1>4. \A k \in S : n - m <= n - k
    BY <1>2, <1>3
  <1> QED
    BY <1>3, <1>4

\* current_bot_run: as long as no more bots can be alive than it looks at rows,
\* a crowd of crashed and short-lived siblings never pushes a bot that runs off
\* the dashboard.
THEOREM LiveBotIsShown ==
    ASSUME MaxAlive <= RunsShown
    PROVE  Spec => []DashboardSeesLiveBot
  <1>1. RunInv /\ LockInv /\ PidsFew => DashboardSeesLiveBot
    <2> SUFFICES ASSUME RunInv, LockInv, PidsFew, NoPidReuse, NEW p \in Procs, Registered(p)
                 PROVE  \E q \in Procs : run[q] = CurrentRun(LivePids) /\ Running(q)
      BY DEF DashboardSeesLiveBot
    <2> DEFINE Recent == {i \in RunningIds :
                              Cardinality({j \in RunningIds : j > i}) < RunsShown}
               Shown == {i \in Recent : runs[i].pid \in LivePids}
    <2>1. runs \in Seq([pid : Pids, status : RunStatus]) /\ Few(RunningIds)
      BY RunningFew DEF RunInv, RunTypes
    <2>2. ASSUME NEW i \in RunningIds PROVE i \in Recent
      <3> DEFINE Later == {j \in RunningIds : j > i}
      <3>1. i \in Nat
        BY <2>1 DEF RunningIds
      <3>2. Later \in SUBSET RunningIds /\ i \notin Later
        BY <3>1
      <3>3. /\ IsFiniteSet(Later) /\ Cardinality(Later) <= Cardinality(RunningIds)
            /\ Cardinality(RunningIds) # Cardinality(Later)
        BY <2>1, <3>2, FS_Subset DEF Few
      <3>4. Cardinality(Later) \in Nat /\ Cardinality(RunningIds) \in Nat
        BY <2>1, <3>3, FS_CardinalityType DEF Few
      <3>5. Cardinality(Later) < RunsShown
        BY <2>1, <3>3, <3>4, RunsAssumption, LockAssumption DEF Few
      <3> QED
        BY <3>5
    <2>3. /\ run[p] \in RunningIds /\ runs[run[p]].pid = pid[p] /\ Running(p)
      BY DEF RunInv, OwnRow, HasRun, LiveRunIsRunning, Registered, Owner, Running, RunningIds
    <2>4. run[p] \in Shown
      BY <2>2, <2>3 DEF LockInv, PidsApart, LivePids, Alive
    <2>5. Shown \in SUBSET (0..Len(runs)) /\ Len(runs) \in Nat
      BY <2>1 DEF RunningIds
    <2>6. \E i \in Shown : \A j \in Shown : j <= i
      BY <2>4, <2>5, LargestElement
    <2>7. CurrentRun(LivePids) \in Shown
      BY <2>4, <2>6 DEF CurrentRun
    <2>8. PICK q \in Procs : Running(q) /\ pid[q] = runs[CurrentRun(LivePids)].pid
      BY <2>7 DEF LivePids, Alive
    <2>9. run[q] = CurrentRun(LivePids)
      BY <2>7, <2>8 DEF NoPidReuse, RunningIds
    <2> QED
      BY <2>8, <2>9
  <1>2. Spec => []LockInv
    BY ImplementsLock, LockSafe, PTL
  <1> QED
    BY <1>1, <1>2, InitRuns, NextRuns, InitFew, NextFew, PTL DEF Spec
=============================================================================
