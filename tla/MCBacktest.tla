----------------------------- MODULE MCBacktest -----------------------------
(* The backtest on a small price grid. *)
EXTENDS Backtest, TLC

\* Four layers of the default weights, each for, against or without a view.
MCWeights == "technical" :> 35 @@ "microstructure" :> 25 @@ "macro" :> 20 @@ "ml" :> 20

MCViews == [Layers -> [score : {-60, 60}, confidence : {0, 80}]]

MCAlarms == {[critical |-> k, risk |-> 1, chop |-> FALSE, thin |-> FALSE, wide |-> FALSE] :
                k \in BOOLEAN}

\* Closes around 6, wicks of at most one below and above, and one bar wide
\* enough to touch a stop and a target.
MCCandles == {[low |-> c - d, high |-> c + u, close |-> c] :
                 c \in 5..7, d \in 0..1, u \in 0..1}
             \cup {[low |-> 2, high |-> 9, close |-> 6]}
=============================================================================
