------------------------------- MODULE Alerts -------------------------------
(***************************************************************************)
(* alerts.py: the alerts of a cycle and the per-kind cooldown of the       *)
(* AlertManager, which lives in memory.  `alertRows` is the alerts table:  *)
(* of each kind the tick of the last row.  A delivered alert is written    *)
(* twice, by emit and by run_once after it.                                *)
(***************************************************************************)
EXTENDS Integers, Sequences

CONSTANT AlertCooldown      \* _COOLDOWN_SECONDS, in ticks

ASSUME AlertAssumption == AlertCooldown \in Nat

VARIABLES
    lastEmitted,    \* _last_emitted: kind -> tick, Never
    alertRows       \* kind -> tick of its last row, Never

AlertKinds == {"panic", "illiquid", "drawdown", "accuracy", "crash"}
Never == -1

\* build_condition_alerts: kinds in the order of the code, one "illiquid" for
\* every illiquid symbol.
ConditionAlerts(panic, illiquid, tooDeep, collapsed) ==
    (IF panic THEN <<"panic">> ELSE <<>>)
    \o [i \in 1..illiquid |-> "illiquid"]
    \o (IF tooDeep THEN <<"drawdown">> ELSE <<>>)
    \o (IF collapsed THEN <<"accuracy">> ELSE <<>>)

\* Mutant: one cooldown for all the kinds.
SuppressedByAny(kind, at) ==
    \E k \in AlertKinds : lastEmitted[k] # Never /\ at - lastEmitted[k] < AlertCooldown

Suppressed(kind, at) ==
    lastEmitted[kind] # Never /\ at - lastEmitted[kind] < AlertCooldown

\* emit, when it is not suppressed: the cooldown starts before the row is
\* written, and the write may be lost.
Emitted(kind, at, written) ==
    /\ lastEmitted' = [lastEmitted EXCEPT ![kind] = at]
    /\ alertRows' = IF written THEN [alertRows EXCEPT ![kind] = at]
                    ELSE alertRows

\* emit.
Emit(kind, at, written) ==
    \/ Suppressed(kind, at) /\ UNCHANGED <<lastEmitted, alertRows>>
    \/ ~Suppressed(kind, at) /\ Emitted(kind, at, written)
=============================================================================
