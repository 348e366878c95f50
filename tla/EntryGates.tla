----------------------------- MODULE EntryGates ------------------------------
(***************************************************************************)
(* The gates between a decision and an order, which judge the observer by  *)
(* its own record: the regime gate by the accuracy in the regime at hand,  *)
(* the calibration gate by the accuracy at the stated confidence.  Both    *)
(* read a window of the latest outcomes, and a symbol that is blocked is   *)
(* still predicted, so the record goes on.  One symbol per cycle; its      *)
(* prediction is scored before the next one is made.                       *)
(*                                                                         *)
(* Meta-model, higher timeframe, funding rate, risk engine and broker can  *)
(* each refuse too: one choice.                                            *)
(***************************************************************************)
EXTENDS Integers, SequencesExt, FiniteSetsExt

CONSTANTS
    Regimes,            \* conditions of the safety score
    Stated,             \* stated confidences, in percent
    MemoryRows,         \* outcomes(limit=500) of the prediction memory
    CalibrationRows,    \* outcomes(limit=3000) of the calibrator
    RegimeMinSamples,   \* gating.regime_min_samples
    RegimeFloor,        \* gating.min_regime_accuracy, in percent
    CalibrationMin,     \* MIN_CALIBRATION_SAMPLES
    ConfidenceFloor     \* gating.min_calibrated_confidence, in percent

ASSUME GatesAssumption ==
    /\ Stated \subseteq 0..100 /\ {RegimeFloor, ConfidenceFloor} \subseteq 0..100
    /\ {MemoryRows, CalibrationRows, RegimeMinSamples, CalibrationMin}
            \subseteq Nat \ {0}
    /\ Cardinality(Stated) <= 2      \* between two levels sklearn interpolates

VARIABLES
    regime,     \* the condition of the market
    record,     \* prediction_outcomes joined with predictions, by prediction id
    made,       \* the prediction that is not scored yet, or NoPrediction
    verdict     \* what became of the last decision

gatesOwn == <<regime, record, made, verdict>>

Held == -1      \* directionally_correct IS NULL: a HOLD
NoPrediction == [regime |-> "", stated |-> 0, acted |-> FALSE]

GatesInit == /\ regime \in Regimes
             /\ record = <<>> /\ made = NoPrediction /\ verdict = "none"

-----------------------------------------------------------------------------
(* The record *)

Latest(rows, limit) == SubSeq(rows, Max({1, Len(rows) - limit + 1}), Len(rows))

\* outcomes(limit): the latest, of which those count that say something of
\* direction.
Judged(limit) == {i \in DOMAIN record : i > Len(record) - limit /\ record[i].correct # Held}

Hits(rows) == Cardinality({i \in rows : record[i].correct = 1})

\* build_prediction_memory: the group of a regime.
InRegime(r) == {i \in Judged(MemoryRows) : record[i].regime = r}

\* evaluate_regime_gate: too little history passes.
RegimeAllowed(r) ==
    LET group == Cardinality(InRegime(r))
    IN  group < RegimeMinSamples \/ 100 * Hits(InRegime(r)) >= RegimeFloor * group

\* Accuracy at the stated confidences from a to b, in percent.
Mean(rows, a, b) ==
    LET pool == {i \in rows : a <= record[i].stated /\ record[i].stated <= b}
    IN  (100 * Hits(pool)) \div Cardinality(pool)

\* Isotonic regression: the accuracy at each stated confidence, pooled where
\* it would fall as the confidence rises (the max-min formula), and clipped.
Isotonic(rows, stated) ==
    LET levels == {record[i].stated : i \in rows}
        at == IF stated \in levels THEN stated ELSE CHOOSE l \in levels : TRUE
    IN  Max({Min({Mean(rows, a, b) : b \in {l \in levels : l >= at}}) :
                a \in {l \in levels : l <= at}})

\* ConfidenceCalibrator: the identity until there is history of both kinds.
Calibrated(stated) ==
    LET rows == Judged(CalibrationRows)
    IN  IF Cardinality(rows) < CalibrationMin \/ Hits(rows) \in {0, Cardinality(rows)}
        THEN stated ELSE Isotonic(rows, stated)

-----------------------------------------------------------------------------
(* The cycle *)

RegimeShifts == regime' \in Regimes \ {regime} /\ UNCHANGED <<record, made, verdict>>

\* Mutant: a blocked symbol is skipped before its prediction is stored.
ObserveUnblocked(direction, stated) ==
    /\ made = NoPrediction /\ RegimeAllowed(regime)
    /\ made' = [regime |-> regime, stated |-> stated, acted |-> direction # "hold"]
    /\ verdict' = "opened"
    /\ UNCHANGED <<regime, record>>

\* _observe_symbol stores the prediction, then _maybe_open_position asks the
\* gates in turn.
ObserveRegime(direction, stated) ==
    /\ made = NoPrediction
    /\ made' = [regime |-> regime, stated |-> stated, acted |-> direction # "hold"]
    /\ \/ direction # "buy" /\ verdict' = "no order"
       \/ direction = "buy" /\ ~RegimeAllowed(regime) /\ verdict' = "regime gate"
       \/ /\ direction = "buy" /\ RegimeAllowed(regime)
          /\ Calibrated(stated) < ConfidenceFloor
          /\ verdict' = "calibration gate"
       \/ /\ direction = "buy" /\ RegimeAllowed(regime)
          /\ Calibrated(stated) >= ConfidenceFloor
          /\ verdict' \in {"refused later", "opened"}
    /\ UNCHANGED <<regime, record>>

\* The prediction is evaluated.  Rows no reader looks at any more are dropped.
ScoreMade ==
    /\ made # NoPrediction
    /\ \E c \in (IF made.acted THEN {0, 1} ELSE {Held}) :
          record' = Latest(Append(record, [regime |-> made.regime,
                                           stated |-> made.stated, correct |-> c]),
                           Max({MemoryRows, CalibrationRows}))
    /\ made' = NoPrediction
    /\ UNCHANGED <<regime, verdict>>

\* The feed has no price for it: the prediction leaves no outcome.
LoseMade ==
    /\ made # NoPrediction
    /\ made' = NoPrediction
    /\ UNCHANGED <<regime, record, verdict>>

GatesCycle ==
    \/ \E d \in {"buy", "sell", "hold"}, c \in Stated : ObserveRegime(d, c)
    \/ ScoreMade \/ LoseMade

GatesNext == RegimeShifts \/ GatesCycle

GatesSpec == GatesInit /\ [][GatesNext]_gatesOwn
                       /\ WF_gatesOwn(GatesCycle) /\ SF_gatesOwn(ScoreMade)

-----------------------------------------------------------------------------
(* Properties *)

GatesTypeOK ==
    /\ regime \in Regimes
    /\ record \in Seq([regime : Regimes, stated : Stated, correct : {Held, 0, 1}])
    /\ Len(record) <= Max({MemoryRows, CalibrationRows})
    /\ made = NoPrediction \/ made \in [regime : Regimes, stated : Stated, acted : BOOLEAN]
    /\ \A c \in Stated : Calibrated(c) \in 0..100

\* A prediction made in one of these regimes turns out wrong.
Misses(regimes) == ScoreMade /\ Last(record').correct = 0 /\ Last(record').regime \in regimes

\* regime_gate.py: "a blocked regime keeps producing (un-traded) predictions, so
\* its accuracy stays live and the gate can re-open it".  A regime in which
\* predictions stop missing is let through in the end; and once they stop
\* missing everywhere, every decision whose stated confidence clears the floor
\* passes the calibration gate again.
GatesReopen ==
    /\ \A r \in Regimes : []<><<Misses({r})>>_gatesOwn \/ <>[]RegimeAllowed(r)
    /\ \/ []<><<Misses(Regimes)>>_gatesOwn
       \/ <>[](\A c \in Stated : c >= ConfidenceFloor => Calibrated(c) >= ConfidenceFloor)
=============================================================================
