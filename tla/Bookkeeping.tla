----------------------------- MODULE Bookkeeping -----------------------------
(***************************************************************************)
(* The parts of an observer's cycle around its positions, together: the    *)
(* feed it reads, the gates in front of an entry, the evaluation of        *)
(* predictions, the alerts, the accounts of its days.  Each takes what it  *)
(* reads of another as an input, any value of it (prices, accuracy,        *)
(* drawdown), so they share no state: every behaviour of a part is one it  *)
(* has alone, and a behaviour here is one of one part, `part`.             *)
(***************************************************************************)
EXTENDS MarketFeed, EntryGates, Evaluations, AlertDesk, DayBook

VARIABLE part

evaluationOwn == <<price, preds, queue, givenUp>>
alertOwn == <<lastEmitted, alertRows, seen, due, muted>>
dayOwn == <<memory, tables>>
vars == <<part, process, feedOwn, gatesOwn, evaluationOwn, alertOwn, dayOwn>>

Parts == {"feed", "gates", "evaluations", "alerts", "days"}

\* What the market is like matters to the gates alone.
Init ==
    /\ part \in Parts
    /\ FeedInit /\ GatesInit /\ EvaluationInit /\ AlertInit /\ DayInit
    /\ part = "gates" \/ regime = CHOOSE r \in Regimes : TRUE

\* The steps of parts that do not run leave their variables alone.
Only(name) ==
    /\ part = name /\ UNCHANGED part
    /\ name # "feed" => UNCHANGED feedOwn
    /\ name # "gates" => UNCHANGED gatesOwn
    /\ name \in {"feed", "gates"} => UNCHANGED process
    /\ name # "evaluations" => UNCHANGED evaluationOwn
    /\ name # "alerts" => UNCHANGED alertOwn
    /\ name # "days" => UNCHANGED dayOwn

FeedPart == Only("feed") /\ FeedNext
GatesPart == Only("gates") /\ GatesNext
EvaluationPart == Only("evaluations") /\ EvaluationNext
AlertPart == Only("alerts") /\ AlertNext
DayPart == Only("days") /\ DayNext

Next == FeedPart \/ GatesPart \/ EvaluationPart \/ AlertPart \/ DayPart

\* The process runs its loop while it is alive, time passes, and the feed
\* answers for a prediction again and again.  Deaths, starts and changes of the
\* market are not owed.
GatesRun == Only("gates") /\ GatesCycle
PredictionScored == Only("gates") /\ ScoreMade
EvaluatorRuns == Only("evaluations") /\ EvaluatorStep
TimePasses == Only("evaluations") /\ PriceMoves

Spec == /\ Init /\ [][Next]_vars
        /\ WF_vars(GatesRun) /\ SF_vars(PredictionScored)
        /\ WF_vars(EvaluatorRuns) /\ WF_vars(TimePasses)

-----------------------------------------------------------------------------
\* Type invariant, of the part that runs.
TypeOK ==
    /\ part \in Parts
    /\ part = "feed" => FeedTypeOK
    /\ part = "gates" => GatesTypeOK
    /\ part = "evaluations" => EvaluationTypeOK
    /\ part = "alerts" => AlertTypeOK
    /\ part = "days" => DayTypeOK
=============================================================================
