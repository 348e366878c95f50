-------------------------- MODULE PredictionTracker --------------------------
(***************************************************************************)
(* prediction_tracker.py: what a prediction's outcome is, given the prices *)
(* that followed it, and what the outcomes say of the model's accuracy.    *)
(* Time is in ticks; `price` is the sequence of prices, the one of tick t  *)
(* at t + 1.  A prediction is a row of `predictions` and, in `outcome`,    *)
(* its row of `prediction_outcomes`, whose span is 0 while there is none.  *)
(***************************************************************************)
EXTENDS Integers, Sequences, FiniteSetsExt

CONSTANTS
    Horizons,       \* HORIZONS, in ticks
    MinSamples      \* outcomes below which the accuracy is not used

ASSUME TrackerAssumption == /\ Horizons \subseteq Nat \ {0}
                            /\ Horizons # {} /\ IsFiniteSet(Horizons)
                            /\ MinSamples \in Nat \ {0}

Directions == {"buy", "sell", "hold"}
LongHorizon == Max(Horizons)

PriceAt(price, tick) == price[tick + 1]

Unscored == -1
NoOutcome == [span |-> 0, correct |-> Unscored, hit |-> "none", pnl |-> 0]

\* The longest horizon that has passed, 0 when none has.
Matured(p, now) == Max({0} \cup {h \in Horizons : p.born + h <= now})

Sign(p) == IF p.direction = "buy" THEN 1 ELSE -1

StopReached(p, px) == Sign(p) * (px - p.stop) <= 0
TargetReached(p, px) == Sign(p) * (px - p.target) >= 0

\* The first tick after the prediction at which the stop or the target is
\* reached, 0 when neither is.
FirstHit(p, price, span) ==
    LET Hits == {m \in 1..span :
                    LET px == PriceAt(price, p.born + m)
                    IN  StopReached(p, px) \/ TargetReached(p, px)}
    IN  IF Hits = {} THEN 0 ELSE Min(Hits)

\* The outcome over the span that ends with the price `final`.
OutcomeAt(p, price, span, final) ==
    LET first == FirstHit(p, price, span)
        hit == IF first = 0 THEN "none"
               ELSE IF StopReached(p, PriceAt(price, p.born + first))
                    THEN "stop" ELSE "target"
        exit == CASE hit = "none" -> final
                  [] hit = "stop" -> p.stop
                  [] hit = "target" -> p.target
    IN  IF p.direction = "hold"
        THEN [NoOutcome EXCEPT !.span = span]
        ELSE [span |-> span,
              correct |-> IF Sign(p) * (final - p.entry) > 0 THEN 1 ELSE 0,
              hit |-> hit,
              pnl |-> Sign(p) * (exit - p.entry)]

\* Mutant: the price of the evaluation instead of the price of the horizon.
OutcomeNow(p, price, now) ==
    OutcomeAt(p, price, Matured(p, now), PriceAt(price, now))

\* evaluate_prediction, once a horizon has passed.
Outcome(p, price, now) ==
    LET span == Matured(p, now)
    IN  OutcomeAt(p, price, span, PriceAt(price, p.born + span))

\* build_prediction_memory: the outcomes that say something of direction.
Scored(preds) == {i \in DOMAIN preds : preds[i].outcome.correct # Unscored}
Right(preds) == {i \in Scored(preds) : preds[i].outcome.correct = 1}

Unknown == -1

\* recent_accuracy, in percent; Unknown below MinSamples.
Accuracy(preds) ==
    LET n == Cardinality(Scored(preds))
    IN  IF n < MinSamples THEN Unknown
        ELSE (100 * Cardinality(Right(preds))) \div n

AccuracyBelow(accuracy, percent) == accuracy # Unknown /\ accuracy < percent

\* Mutant: rows stay in the queue.
PendingEver(preds) == DOMAIN preds

Pending(preds) == {i \in DOMAIN preds : ~preds[i].evaluated}

\* unevaluated_predictions(limit): the oldest first.
Queue(preds, limit) ==
    LET ids == Pending(preds)
        head == {i \in ids : Cardinality({j \in ids : j < i}) < limit}
    IN  [k \in 1..Cardinality(head) |->
            CHOOSE i \in head : Cardinality({j \in head : j < i}) = k - 1]
=============================================================================
