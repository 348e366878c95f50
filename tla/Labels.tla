-------------------------------- MODULE Labels --------------------------------
(***************************************************************************)
(* The triple-barrier label the meta-model is trained on: did a long taken *)
(* at the close of a bar reach its target before its stop and before the   *)
(* time-stop?  A bar is [low, high, close].                                *)
(***************************************************************************)
EXTENDS Integers, Sequences

\* The data ends before the barrier does.
NoLabel == "none"

\* Mutant: a bar that touches both barriers counts as target.
FirstTouchOptimistic(bars, stop, target) ==
    IF \E j \in DOMAIN bars : bars[j].high >= target /\ \A k \in 1..(j - 1) : stop < bars[k].low
    THEN "target"
    ELSE IF \E j \in DOMAIN bars : bars[j].low <= stop THEN "stop" ELSE "neither"

\* Which barrier the bars touch first; a bar that touches both counts as stop.
FirstTouch(bars, stop, target) ==
    IF \E j \in DOMAIN bars : bars[j].high >= target /\ \A k \in 1..j : stop < bars[k].low
    THEN "target"
    ELSE IF \E j \in DOMAIN bars : bars[j].low <= stop THEN "stop" ELSE "neither"

\* triple_barrier_label for one bar: `after` are the bars that follow it, as
\* far as the data goes, `close` is its close.
TripleBarrierLabel(close, after, stopDistance, targetDistance, maxHold) ==
    LET bars == SubSeq(after, 1, IF Len(after) < maxHold THEN Len(after) ELSE maxHold)
        touch == FirstTouch(bars, close - stopDistance, close + targetDistance)
    IN  IF touch = "target" THEN "win"
        ELSE IF touch = "stop" \/ Len(after) >= maxHold THEN "loss"
        ELSE NoLabel
=============================================================================
