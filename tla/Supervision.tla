----------------------------- MODULE Supervision -----------------------------
(***************************************************************************)
(* The bot processes of one machine over one database: `daytrade learn`    *)
(* and `daytrade observe` take different locks, and share the tables       *)
(* bot_runs and learning_sessions.  A process that got its lock finds its   *)
(* learning window (learn only), registers its run, cycles, and settles    *)
(* both when it leaves; it can die anywhere, and a write that raises sends *)
(* it to the end.                                                          *)
(*                                                                         *)
(* What a cycle does to positions and predictions is module Observer.      *)
(***************************************************************************)
EXTENDS InstanceLock, BotRuns, LearningSession

VARIABLES
    step,       \* what a process that has its lock does next
    session,    \* learning_session.session_id, 0 when there is none
    run,        \* _run_id, 0 when there is none
    final       \* how the learning session ends: "completed" or "stopped"

jobVars == <<step, session, run, final>>
vars == <<lockVars, runs, sessions, today, jobVars>>

Steps == {"none", "resume", "fold", "create", "mark", "register", "loop",
          "cycle", "beat", "settle", "stop", "done"}

Learns(p) == LockOf[p] = "learn"
\* The run is registered and run_forever's loop has not been left.
Registered(p) == step[p] \in {"loop", "cycle", "beat"}
LivePids == {i \in Pids : Alive(i)}

TypeOK ==
    /\ LockTypeOK
    /\ runs \in Seq([pid : Pids, status : RunStatus])
    /\ sessions \in Seq([start : 0..MaxDays, status : SessionStatus])
    /\ today \in 0..MaxDays
    /\ step \in [Procs -> Steps]
    /\ \A p \in Procs : session[p] \in {0} \cup DOMAIN sessions
    /\ \A p \in Procs : run[p] \in {0} \cup DOMAIN runs
    /\ final \in [Procs -> {"stopped", "completed"}]

Init ==
    /\ LockInit
    /\ runs = << >>
    /\ sessions = << >>
    /\ today = 0
    /\ step = [p \in Procs |-> "none"]
    /\ session = [p \in Procs |-> 0]
    /\ run = [p \in Procs |-> 0]
    /\ final = [p \in Procs |-> "stopped"]

Goto(p, s) == step' = [step EXCEPT ![p] = s]

\* p is at step s of its job; the lock does not move.
Doing(p, s) == step[p] = s /\ UNCHANGED <<lockVars, today>>

\* p forgets its job.
Forget(p) ==
    /\ Goto(p, "none")
    /\ session' = [session EXCEPT ![p] = 0]
    /\ run' = [run EXCEPT ![p] = 0]
    /\ final' = [final EXCEPT ![p] = "stopped"]

------------------------------------------------------------------------------
(* Around the lock *)

Start ==
    /\ \E p \in Procs, i \in Pids : Launch(p, i)
    /\ UNCHANGED <<runs, sessions, today, jobVars>>

BeforeLock(p) ==
    /\ ReadFile(p) \/ Refuse(p) \/ Pass(p) \/ Truncate(p)
    /\ UNCHANGED <<runs, sessions, today, jobVars>>

GetLock(p) ==
    /\ WritePid(p)
    /\ Goto(p, IF Learns(p) THEN "resume" ELSE "mark")
    /\ UNCHANGED <<runs, sessions, today, session, run, final>>

\* The `finally` of the command, once run_forever is over.
BeginRelease(p) ==
    /\ step[p] = "done"
    /\ ReadOwn(p)
    /\ UNCHANGED <<runs, sessions, today, jobVars>>

EndRelease(p) ==
    /\ step[p] = "done"
    /\ LeaveFile(p) \/ Unlink(p)
    /\ Forget(p)
    /\ UNCHANGED <<runs, sessions, today>>

\* A crash, or an exception before run_forever: no `finally`, no release.
Crash(p) ==
    /\ Die(p)
    /\ Forget(p)
    /\ UNCHANGED <<runs, sessions, today>>

Midnight ==
    /\ NextDay
    /\ UNCHANGED <<lockVars, runs, jobVars>>

------------------------------------------------------------------------------
(* resume_or_create *)

Resume(p) ==
    /\ Doing(p, "resume")
    /\ \/ /\ CanResume
          /\ session' = [session EXCEPT ![p] = Resumable]
          /\ Goto(p, "fold")
       \/ /\ ~CanResume
          /\ Goto(p, "create")
          /\ UNCHANGED session
    /\ UNCHANGED <<runs, sessions, run, final>>

Fold(p) ==
    /\ Doing(p, "fold")
    /\ OthersSuperseded(session[p])
    /\ Goto(p, "mark")
    /\ UNCHANGED <<runs, session, run, final>>

Create(p) ==
    /\ Doing(p, "create")
    /\ SessionStarted
    /\ session' = [session EXCEPT ![p] = Len(sessions) + 1]
    /\ Goto(p, "mark")
    /\ UNCHANGED <<runs, run, final>>

------------------------------------------------------------------------------
(* Observer.start, the loop of run_forever and its finally block *)

MarkDangling(p) ==
    /\ Doing(p, "mark")
    /\ DanglingMarked(LivePids)
    /\ Goto(p, "register")
    /\ UNCHANGED <<sessions, session, run, final>>

Register(p) ==
    /\ Doing(p, "register")
    /\ RunStarted(pid[p])
    /\ run' = [run EXCEPT ![p] = Len(runs) + 1]
    /\ Goto(p, "loop")
    /\ UNCHANGED <<sessions, session, final>>

\* The head of the loop: no cycle starts once the window is over.
BeginCycle(p) ==
    /\ Doing(p, "loop")
    /\ Learns(p) => ~Elapsed(session[p])
    /\ Goto(p, "cycle")
    /\ UNCHANGED <<runs, sessions, session, run, final>>

\* _learning_cycle: the window may end while the cycle is at work.
Progress(p) ==
    /\ Doing(p, "cycle")
    /\ Learns(p)
    /\ SessionUpdated(session[p], "active")
    /\ Goto(p, "beat")
    /\ UNCHANGED <<runs, session, run, final>>

Heartbeat(p) ==
    /\ Doing(p, IF Learns(p) THEN "beat" ELSE "cycle")
    /\ Beaten(run[p])
    /\ Goto(p, "loop")
    /\ UNCHANGED <<sessions, session, run, final>>

\* The cycle raises before its heartbeat.
CycleFails(p) ==
    /\ Doing(p, "cycle") \/ Doing(p, "beat")
    /\ Goto(p, "loop")
    /\ UNCHANGED <<runs, sessions, session, run, final>>

\* The loop ends: the window is over, a signal came, or the except clause raised.
LeaveLoop(p) ==
    /\ Doing(p, "loop")
    /\ \/ UNCHANGED final
       \/ /\ Learns(p)
          /\ Elapsed(session[p])
          /\ final' = [final EXCEPT ![p] = "completed"]
    /\ Goto(p, IF Learns(p) THEN "settle" ELSE "stop")
    /\ UNCHANGED <<runs, sessions, session, run>>

Settle(p) ==
    /\ Doing(p, "settle")
    /\ SessionUpdated(session[p], final[p])
    /\ Goto(p, "stop")
    /\ UNCHANGED <<runs, session, run, final>>

StopRun(p) ==
    /\ Doing(p, "stop")
    /\ RunStopped(run[p])
    /\ Goto(p, "done")
    /\ UNCHANGED <<sessions, session, run, final>>

\* A write of start() or of the finally block raises: run_forever is over.
WriteFails(p) ==
    /\ \E s \in {"mark", "register", "settle", "stop"} : Doing(p, s)
    /\ Goto(p, "done")
    /\ UNCHANGED <<runs, sessions, session, run, final>>

Job(p) == \/ Resume(p) \/ Fold(p) \/ Create(p)
          \/ MarkDangling(p) \/ Register(p)
          \/ BeginCycle(p) \/ Progress(p) \/ Heartbeat(p) \/ CycleFails(p)
          \/ LeaveLoop(p) \/ Settle(p) \/ StopRun(p) \/ WriteFails(p)

Process(p) == \/ BeforeLock(p) \/ GetLock(p) \/ Job(p)
              \/ BeginRelease(p) \/ EndRelease(p) \/ Crash(p)

Next == \/ \E p \in Procs : Process(p)
        \/ Start
        \/ Midnight

Spec == Init /\ [][Next]_vars

------------------------------------------------------------------------------
(* What the supervision promises *)

\* ADR 0002: no sibling declares a live bot dead.  The run row of a process in
\* its loop says 'running', whoever starts, crashes or stops next to it.
LiveRunIsRunning == \A p \in Procs : Registered(p) => runs[run[p]].status = "running"

\* No pid of a row has been handed out again.
NoPidReuse ==
    /\ \A i, j \in DOMAIN runs : runs[i].pid = runs[j].pid => i = j
    /\ \A p \in Procs, i \in DOMAIN runs : pid[p] = runs[i].pid => run[p] = i

\* current_bot_run: a short-lived sibling does not push the bot that actually
\* runs off the dashboard.  While a bot is in its loop the run shown is that of
\* a bot in its loop, or of one about to leave it.
DashboardSeesLiveBot ==
    NoPidReuse /\ (\E p \in Procs : Registered(p))
        => \E p \in Procs : run[p] = CurrentRun(LivePids) /\ Running(p)

\* Without a lock race the clock of the first window is never reset: until it
\* has elapsed no second window exists, whatever stops, crashes and restarts.
FirstWindowKept ==
    "learn" \notin raced /\ sessions # << >> /\ ~Elapsed(1) => Len(sessions) = 1

\* A completed or superseded window stays so, unless a lock race left a second
\* process working on it.
SettledWindowsStay ==
    [][\A i \in DOMAIN sessions :
          /\ sessions[i].status \in Settled
          /\ "learn" \in raced => \A p \in Procs : session[p] # i
          => sessions'[i] = sessions[i]]_vars

\* Folding leaves one window for the dashboard and for the next resume, even
\* when lock races had opened several.
FoldIsCanonical ==
    [][\A p \in Procs :
          /\ step[p] = "fold" /\ step'[p] = "mark"
          /\ session[p] \in Unsettled /\ ~Elapsed(session[p])
          => CurrentSession' = session[p] /\ Resumable' = session[p]]_vars

\* resume_or_create: "the 30-day clock keeps running across restarts rather
\* than resetting".  No window is opened while one is in progress.
ClockKept ==
    [][Len(sessions') > Len(sessions) => \A i \in Unsettled : Elapsed(i)]_vars
=============================================================================
