-------------------------------- MODULE Fusion --------------------------------
(***************************************************************************)
(* The decision of one bar: the kill switch, the weighted vote of the four *)
(* signal layers and the price levels of an entry.                         *)
(*                                                                         *)
(* Scores are percentages from -100 to 100, confidences from 0 to 100,     *)
(* both rounded down.  How a layer comes to its score is not modelled: a   *)
(* layer's view is an input.                                               *)
(***************************************************************************)
EXTENDS Integers, FiniteSetsExt

CONSTANTS
    Weights,            \* fusion.weights: layer -> percent
    ActionThreshold,    \* fusion.action_threshold, percent
    MinConfidence,      \* fusion.min_confidence, percent
    EntryOffset,        \* entry_offset_vol_mult
    StopMult,           \* stop_vol_mult
    TargetMult,         \* target_vol_mult
    MacroRiskBlock      \* killswitch.macro_risk_block, as a rank

Layers == {"technical", "microstructure", "macro", "ml"}

ASSUME FusionAssumption ==
    /\ Weights \in [Layers -> Nat]
    /\ \E l \in Layers : Weights[l] > 0
    /\ ActionThreshold \in 1..99
    /\ MinConfidence \in 0..100
    /\ EntryOffset \in Nat
    /\ StopMult \in Nat \ {0}
    /\ TargetMult \in Nat \ {0}
    /\ MacroRiskBlock \in 0..3

\* What a layer thinks: [score, confidence].
LayerView == [score : -100..100, confidence : 0..100]

------------------------------------------------------------------------------
(* The kill switch *)

\* The conditions it looks at: the macro regime and risk rank, and what the
\* order book says (chop and thin liquidity count when they are enabled).
Conditions == [critical : BOOLEAN, risk : 0..3, chop : BOOLEAN, thin : BOOLEAN,
               wide : BOOLEAN]

KillSwitch(c) == \/ c.critical
                 \/ c.risk >= MacroRiskBlock
                 \/ c.chop
                 \/ c.thin
                 \/ c.wide

------------------------------------------------------------------------------
(* The vote *)

Sign(n) == IF n > 0 THEN 1 ELSE IF n < 0 THEN -1 ELSE 0

Magnitude(n) == IF n < 0 THEN -n ELSE n

SumOver(op(_)) == MapThenSumSet(op, Layers)

\* _fuse: the mean of the scores by weight and confidence, 0 when no layer has
\* any.
Fused(view) ==
    LET effective(l) == Weights[l] * view[l].confidence
        score(l) == effective(l) * view[l].score
        total == SumOver(effective)
        size == IF total = 0 THEN 0 ELSE Magnitude(SumOver(score)) \div total
    IN  Sign(SumOver(score)) * size

\* The share of the weight that points the way of the fused score; a neutral
\* layer counts half.
Agreement(view) ==
    LET direction == Sign(Fused(view))
        vote(l) == IF direction = 0 \/ view[l].score = 0 THEN Weights[l]
                   ELSE IF Sign(view[l].score) = direction THEN 2 * Weights[l]
                   ELSE 0
        weight(l) == 2 * Weights[l]
    IN  (100 * SumOver(vote)) \div SumOver(weight)

\* _confidence: the layers' confidence, the strength of the score, agreement.
Confidence(view) ==
    LET weighted(l) == Weights[l] * view[l].confidence
        weight(l) == Weights[l]
        strength == IF Magnitude(Fused(view)) >= 50 THEN 100 ELSE 2 * Magnitude(Fused(view))
    IN  (73 * (SumOver(weighted) \div SumOver(weight)) + 15 * strength
            + 10 * Agreement(view)) \div 100

\* _resolve_action.
Action(view, killed) ==
    IF \/ killed
       \/ Magnitude(Fused(view)) < ActionThreshold
       \/ Confidence(view) < MinConfidence
    THEN "hold"
    ELSE IF Fused(view) > 0 THEN "buy" ELSE "sell"

------------------------------------------------------------------------------
(* The levels *)

\* _levels of a BUY; `unit` is the volatility unit.
Levels(reference, unit) ==
    LET entry == reference - EntryOffset * unit
    IN  [entry |-> entry, stop |-> entry - StopMult * unit,
         target |-> entry + TargetMult * unit]
=============================================================================
