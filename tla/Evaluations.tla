----------------------------- MODULE Evaluations -----------------------------
(***************************************************************************)
(* The predictions of the observer and their evaluation against what the   *)
(* prices did.  Each cycle inserts a prediction for every symbol it has    *)
(* fresh data for, then takes the oldest EvalPerCycle rows that are not    *)
(* evaluated.  Prices are one path for the whole watchlist.                *)
(***************************************************************************)
EXTENDS ObserverProcess, PredictionTracker

CONSTANTS
    EvalPerCycle,   \* _EVAL_PER_CYCLE
    Levels,         \* prices, relative to the one of tick 0
    FreshSymbols,   \* bound: symbols with fresh data in a scan
    MaxRows         \* bound: rows of predictions

ASSUME EvaluationAssumption == /\ EvalPerCycle \in Nat \ {0}
                               /\ Levels \subseteq Int
                               /\ {FreshSymbols, MaxRows} \subseteq Nat

VARIABLES
    price,      \* the price of every tick so far
    preds,      \* predictions and prediction_outcomes
    queue,      \* ids this cycle still has to evaluate
    givenUp     \* history: ids marked for want of market data

evaluationVars == <<process, price, preds, queue, givenUp>>

EvaluationInit ==
    /\ ProcessInit
    /\ price = <<0>>
    /\ preds = <<>> /\ queue = <<>> /\ givenUp = {}

PriceMoves ==
    /\ Elapse
    /\ \E l \in Levels : price' = Append(price, l)
    /\ UNCHANGED <<preds, queue, givenUp>>

EvaluatorStarts == Up /\ UNCHANGED <<price, preds, queue, givenUp>>

EvaluatorDies == Down /\ queue' = <<>> /\ UNCHANGED <<price, preds, givenUp>>

EvaluatorWakes == Wake("scan") /\ UNCHANGED <<price, preds, queue, givenUp>>

\* _observe_symbol's row: the stop and the target are one level away.
Prediction(direction) ==
    LET px == PriceAt(price, now)
        sign == CASE direction = "buy" -> 1
                  [] direction = "sell" -> -1
                  [] direction = "hold" -> 0
    IN  [direction |-> direction, entry |-> px, stop |-> px - sign,
         target |-> px + sign, born |-> now, evaluated |-> FALSE,
         outcome |-> NoOutcome]

\* The batch of the scan is committed, with as many rows as there are symbols
\* with fresh data, and _evaluate_predictions reads its queue.
ScanStored ==
    /\ At("scan") /\ Go("evaluate")
    /\ \E n \in 0..Min({FreshSymbols, MaxRows - Len(preds)}) :
        \E ds \in [1..n -> Directions] :
          preds' = preds \o [i \in 1..n |-> Prediction(ds[i])]
    /\ queue' = Queue(preds', EvalPerCycle)
    /\ UNCHANGED <<price, givenUp>>

\* The batch raises and is rolled back.
ScanLost == At("scan") /\ Raise /\ UNCHANGED <<price, preds, queue, givenUp>>

-----------------------------------------------------------------------------
(* One prediction of the queue. *)

Evaluating == At("evaluate") /\ queue # <<>>
Mature == Matured(preds[Head(queue)], now) > 0

\* Nothing has matured: the prediction keeps its place in the queue.
Premature ==
    /\ Evaluating /\ ~Mature
    /\ queue' = Tail(queue)
    /\ UNCHANGED <<process, price, preds, givenUp>>

\* upsert_outcome, or upsert_outcome_and_mark_evaluated at the last horizon.
Evaluate ==
    /\ Evaluating /\ Mature
    /\ LET outcome == Outcome(preds[Head(queue)], price, now)
       IN  preds' = [preds EXCEPT ![Head(queue)].outcome = outcome,
                                  ![Head(queue)].evaluated =
                                        (outcome.span = LongHorizon)]
    /\ queue' = Tail(queue)
    /\ UNCHANGED <<process, price, givenUp>>

\* Mutant: the prediction is left in the queue, to be tried again.
GiveUpUnmarked ==
    /\ Evaluating /\ Mature
    /\ queue' = Tail(queue)
    /\ UNCHANGED <<process, price, preds, givenUp>>

\* The feed raises ExchangeError: the prediction is marked, with no outcome or
\* with the one an earlier cycle wrote.
GiveUp ==
    /\ Evaluating /\ Mature
    /\ preds' = [preds EXCEPT ![Head(queue)].evaluated = TRUE]
    /\ givenUp' = givenUp \cup {Head(queue)}
    /\ queue' = Tail(queue)
    /\ UNCHANGED <<process, price>>

\* The same, and the mark raises.
GiveUpLost ==
    /\ Evaluating /\ Mature
    /\ Swallow("evaluate")
    /\ queue' = Tail(queue)
    /\ UNCHANGED <<price, preds, givenUp>>

\* The upsert raises, and its transaction is rolled back.
EvaluateFails ==
    /\ Evaluating /\ Mature
    /\ Raise
    /\ queue' = <<>>
    /\ UNCHANGED <<price, preds, givenUp>>

EvaluatorRests ==
    /\ At("evaluate") /\ queue = <<>>
    /\ Go("idle")
    /\ UNCHANGED <<price, preds, queue, givenUp>>

-----------------------------------------------------------------------------
EvaluatorStep ==
    \/ EvaluatorWakes \/ ScanStored \/ ScanLost
    \/ Premature \/ Evaluate \/ GiveUp \/ GiveUpLost \/ EvaluateFails
    \/ EvaluatorRests

EvaluationNext == PriceMoves \/ EvaluatorStarts \/ EvaluatorDies \/ EvaluatorStep

EvaluationSpec == EvaluationInit /\ [][EvaluationNext]_evaluationVars

-----------------------------------------------------------------------------
(* Properties *)

EvaluationTypeOK ==
    /\ ProcessOK
    /\ price \in Seq(Levels \cup {0}) /\ Len(price) = clock + 1
    /\ Len(preds) <= MaxRows
    /\ \A i \in DOMAIN preds : /\ preds[i].direction \in Directions
                               /\ preds[i].born \in 0..clock
                               /\ preds[i].outcome.span \in Horizons \cup {0}
    /\ \A k \in DOMAIN queue : queue[k] \in DOMAIN preds
    /\ givenUp \subseteq DOMAIN preds

\* A prediction marked evaluated, and not for want of market data, carries the
\* outcome of its whole horizon.  The outcome does not depend on when it was
\* computed: the process may have been down, or behind in its queue.
SettledOutcomeIsFinal ==
    \A i \in DOMAIN preds :
        preds[i].evaluated /\ i \notin givenUp =>
            preds[i].outcome = Outcome(preds[i], price, preds[i].born + LongHorizon)

\* What has been marked evaluated is never worked on again, so what the
\* accuracy has learnt from it stays as it is.
SettledPredictionsStay ==
    [][\A i \in DOMAIN preds : preds[i].evaluated => preds'[i] = preds[i]]_evaluationVars

\* In a process that stays up every prediction whose last horizon has passed
\* is settled in the end, however long the queue is and whatever the feed
\* answers.
EveryPredictionSettled ==
    <>[]up => \A i \in 1..MaxRows :
                (i \in DOMAIN preds /\ preds[i].born + LongHorizon <= clock)
                    ~> (i \in DOMAIN preds /\ preds[i].evaluated)
=============================================================================
