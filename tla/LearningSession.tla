--------------------------- MODULE LearningSession ---------------------------
(***************************************************************************)
(* The `learning_sessions` table and the windows it stands for: a window   *)
(* starts on a day and has elapsed TargetDays later.  Every operation here *)
(* is one transaction; resume_or_create is several of them.                *)
(***************************************************************************)
EXTENDS Naturals, Sequences

CONSTANTS
    TargetDays,     \* --days
    MaxDays,        \* bound: days in a behaviour
    MaxSessions     \* bound: rows of learning_sessions

ASSUME SessionAssumption == /\ TargetDays \in Nat \ {0}
                            /\ MaxDays \in Nat
                            /\ MaxSessions \in Nat

VARIABLES
    sessions,   \* the rows, by id, which is also the order of their start_ts
    today

SessionStatus == {"active", "stopped", "completed", "superseded"}
Settled == {"completed", "superseded"}

\* Mutant: a window that a clean shutdown marked 'stopped' is not resumed.
UnsettledActive == {i \in DOMAIN sessions : sessions[i].status = "active"}

Unsettled == {i \in DOMAIN sessions : sessions[i].status \notin Settled}

\* is_complete.
Elapsed(i) == today >= sessions[i].start + TargetDays

\* resumable_learning_session: the earliest start, 0 when there is none.
Resumable ==
    IF Unsettled = {} THEN 0
    ELSE CHOOSE i \in Unsettled : \A j \in Unsettled : i <= j

\* current_learning_session: the newest row that is not superseded.
CurrentSession ==
    LET Shown == {i \in DOMAIN sessions : sessions[i].status # "superseded"}
    IN  IF Shown = {} THEN 0 ELSE CHOOSE i \in Shown : \A j \in Shown : j <= i

\* The test of resume_or_create on the row it found.
CanResume == Resumable # 0 /\ ~Elapsed(Resumable)

\* start_learning_session: the row id is Len(sessions) + 1.
SessionStarted ==
    /\ Len(sessions) < MaxSessions
    /\ sessions' = Append(sessions, [start |-> today, status |-> "active"])

\* Mutant: completed windows are superseded too.
AllOthersSuperseded(keep) ==
    sessions' = [i \in DOMAIN sessions |->
                    IF i # keep THEN [sessions[i] EXCEPT !.status = "superseded"]
                    ELSE sessions[i]]

\* Mutant: stopped duplicates are left.
ActiveOthersSuperseded(keep) ==
    sessions' = [i \in DOMAIN sessions |->
                    IF i # keep /\ sessions[i].status = "active"
                    THEN [sessions[i] EXCEPT !.status = "superseded"]
                    ELSE sessions[i]]

\* supersede_learning_sessions.
OthersSuperseded(keep) ==
    sessions' = [i \in DOMAIN sessions |->
                    IF i # keep /\ i \in Unsettled
                    THEN [sessions[i] EXCEPT !.status = "superseded"]
                    ELSE sessions[i]]

\* update_learning_session: the status is overwritten, whatever it was.
SessionUpdated(id, status) == sessions' = [sessions EXCEPT ![id].status = status]

NextDay ==
    /\ today < MaxDays
    /\ today' = today + 1
    /\ UNCHANGED sessions
=============================================================================
