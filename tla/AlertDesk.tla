------------------------------ MODULE AlertDesk ------------------------------
(***************************************************************************)
(* The alerts of the observer: what each cycle finds in the market, which  *)
(* alerts follow from it, and which of them the cooldown lets through to   *)
(* the alerts table.  The drawdown and the accuracy of the cycle are       *)
(* inputs here; DayBook and PredictionTracker say where they come from.    *)
(***************************************************************************)
EXTENDS ObserverProcess, Safety, Alerts

CONSTANTS
    Symbols,    \* the watchlist
    Views,      \* safety inputs a symbol may show
    Accuracies  \* what the recent accuracy may be: good, weak, collapsed

ASSUME DeskAssumption == IsFiniteSet(Symbols)

VARIABLES
    seen,       \* the critical kinds the cycle has found: panic, drawdown
    due,        \* alerts the cycle still has to emit
    muted       \* history: kinds whose last delivery left no row

alertVars == <<process, lastEmitted, alertRows, seen, due, muted>>

Quiet == {}

AlertInit ==
    /\ ProcessInit
    /\ lastEmitted = [k \in AlertKinds |-> Never]
    /\ alertRows = [k \in AlertKinds |-> Never]
    /\ seen = Quiet /\ due = <<>> /\ muted = {}

AlertTick == Elapse /\ UNCHANGED <<lastEmitted, alertRows, seen, due, muted>>

DeskOpens == Up /\ UNCHANGED <<lastEmitted, alertRows, seen, due, muted>>

\* The cooldowns are lost with the process.
DeskDies ==
    /\ Down
    /\ lastEmitted' = [k \in AlertKinds |-> Never]
    /\ seen' = Quiet /\ due' = <<>> /\ muted' = {}
    /\ UNCHANGED alertRows

DeskWakes == Wake("scan") /\ UNCHANGED <<lastEmitted, alertRows, seen, due, muted>>

\* The scan assesses the symbols it has fresh data for; the alerts of the cycle
\* follow from their aggregate, the drawdown and the recent accuracy.
Assess ==
    /\ At("scan") /\ Go("alert")
    /\ \E fresh \in SUBSET Symbols, tooDeep \in BOOLEAN,
          accuracy \in Accuracies :
       \E view \in [fresh -> Views] :
          LET condition == [s \in fresh |->
                  Condition(view[s], Score(view[s], accuracy # "good"))]
              illiquid == Cardinality({s \in fresh : condition[s] = "ILLIQUID"})
              market == Aggregate(condition)
          IN  /\ seen' = (IF market = "PANIC" THEN {"panic"} ELSE {})
                         \cup (IF tooDeep THEN {"drawdown"} ELSE {})
              /\ due' = ConditionAlerts(market = "PANIC", illiquid, tooDeep,
                                        accuracy = "collapsed")
    /\ UNCHANGED <<lastEmitted, alertRows, muted>>

\* The cycle fails before its alerts: run_forever emits a "crash" alert.
AssessFails ==
    /\ At("scan") /\ Raise
    /\ Emit("crash", clock, TRUE)
    /\ UNCHANGED <<seen, due, muted>>

\* One alert of the loop in run_once.
EmitNext ==
    /\ At("alert") /\ due # <<>>
    /\ Emit(Head(due), now, TRUE)
    /\ muted' = IF Suppressed(Head(due), now) THEN muted ELSE muted \ {Head(due)}
    /\ due' = Tail(due)
    /\ UNCHANGED <<process, seen>>

\* Its rows cannot be written.  emit swallows that, run_once's own insert does
\* not: the cycle fails, which is itself an alert.  The cooldown runs.
EmitFails ==
    LET kind == Head(due)
        crashed == ~Suppressed("crash", clock)
    IN  /\ At("alert") /\ due # <<>>
        /\ ~Suppressed(kind, now)
        /\ Raise
        /\ lastEmitted' = [lastEmitted EXCEPT ![kind] = now,
                                              !["crash"] = IF crashed THEN clock ELSE @]
        /\ alertRows' = [alertRows EXCEPT !["crash"] = IF crashed THEN clock ELSE @]
        /\ muted' = muted \cup {kind}
        /\ seen' = Quiet /\ due' = <<>>

DeskRests ==
    /\ At("alert") /\ due = <<>>
    /\ Go("idle")
    /\ seen' = Quiet
    /\ UNCHANGED <<lastEmitted, alertRows, due, muted>>

AlertNext ==
    \/ AlertTick \/ DeskOpens \/ DeskDies \/ DeskWakes
    \/ Assess \/ AssessFails \/ EmitNext \/ EmitFails \/ DeskRests

AlertSpec == AlertInit /\ [][AlertNext]_alertVars

-----------------------------------------------------------------------------
(* Properties *)

AlertTypeOK ==
    /\ ProcessOK
    /\ lastEmitted \in [AlertKinds -> 0..clock \cup {Never}]
    /\ alertRows \in [AlertKinds -> 0..clock \cup {Never}]
    /\ seen \subseteq AlertKinds
    /\ due \in Seq(AlertKinds) /\ muted \subseteq AlertKinds

\* When the alerts of a cycle are out, each critical condition of the cycle has
\* a row in the alerts table younger than the cooldown, unless the row of the
\* delivery that started the cooldown was lost.  An alert of one kind does not
\* keep back another, nor does a restart.
CriticalConditionHeard ==
    step = "alert" /\ due = <<>> =>
        \A k \in seen \ muted :
            alertRows[k] # Never /\ (alertRows[k] = now \/ now - alertRows[k] < AlertCooldown)
=============================================================================
