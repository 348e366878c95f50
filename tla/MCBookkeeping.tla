---------------------------- MODULE MCBookkeeping ----------------------------
(* The bookkeeping on small instances: three views of a symbol, of two.      *)
EXTENDS Bookkeeping

Fine == [mean |-> 70, panic |-> FALSE, thin |-> FALSE, chop |-> FALSE,
         trend |-> 40, volatility |-> 5]

MCLevels == {-1, 1}

MCViews == {Fine, [Fine EXCEPT !.panic = TRUE],
            [Fine EXCEPT !.thin = TRUE, !.chop = TRUE]}
=============================================================================
