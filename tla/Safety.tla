------------------------------- MODULE Safety -------------------------------
(***************************************************************************)
(* safety_score.py: the 0-100 score and the condition of one symbol, and   *)
(* of the watchlist.  The mean of the breakdown is an input, `mean`; the   *)
(* caps, the classification and the aggregation are the code's.  The score *)
(* of the watchlist is shown and stored but decides nothing: left out.     *)
(***************************************************************************)
EXTENDS Integers, Sequences, FiniteSetsExt

Conditions == {"PANIC", "ILLIQUID", "OVEREXTENDED", "CHOPPY", "MIXED",
               "CALM", "OPPORTUNISTIC"}

Lower(a, b) == IF a < b THEN a ELSE b

\* The caps of compute_safety_score; `weak` is an accuracy below 45 percent.
Score(in, weak) ==
    LET panicked == IF in.panic THEN Lower(in.mean, 18) ELSE in.mean
        thinned == IF in.thin THEN Lower(panicked, 38) ELSE panicked
        chopped == IF in.chop THEN Lower(thinned, 56) ELSE thinned
    IN  IF weak THEN Lower(chopped, 48) ELSE chopped

\* classify_condition; volatility in thousandths, trend in hundredths.
Condition(in, score) ==
    IF in.panic THEN "PANIC"
    ELSE IF in.thin THEN "ILLIQUID"
    ELSE IF in.volatility > 16 /\ in.trend > 80 THEN "OVEREXTENDED"
    ELSE IF in.chop THEN "CHOPPY"
    ELSE IF score >= 65 /\ in.trend >= 35 /\ in.volatility <= 10 THEN "OPPORTUNISTIC"
    ELSE IF score >= 60 /\ in.volatility <= 6 THEN "CALM"
    ELSE "MIXED"

Severity == <<"PANIC", "ILLIQUID", "OVEREXTENDED", "CHOPPY", "MIXED", "CALM",
              "OPPORTUNISTIC">>
Severe == {"PANIC", "ILLIQUID", "OVEREXTENDED"}

\* aggregate_safety: the condition of the market, which is severe when at
\* least 30 percent of the symbols are; `conditions` is one per symbol.
Aggregate(conditions) ==
    LET n == Cardinality(DOMAIN conditions)
        Showing(c) == Cardinality({s \in DOMAIN conditions : conditions[s] = c})
        Market == {k \in 1..Len(Severity) :
                      /\ Showing(Severity[k]) > 0
                      /\ Severity[k] \in Severe =>
                            100 * Showing(Severity[k]) >= 30 * n}
    IN  IF Market = {} THEN "MIXED" ELSE Severity[Min(Market)]
=============================================================================
