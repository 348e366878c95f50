----------------------------- MODULE PaperLedger -----------------------------
(***************************************************************************)
(* What the paper ledger promises whoever reads it (dashboard, reports, the *)
(* next process), without connections, transactions or processes: a book   *)
(* of trades that only grows.  A trade keeps its symbol and its place, a   *)
(* settled trade stays settled, and the trades that are not settled are of *)
(* distinct symbols and at most MaxOpen.                                   *)
(***************************************************************************)
EXTENDS Naturals, Sequences, FiniteSets

CONSTANTS
    Symbols,    \* the traded symbols
    MaxOpen     \* risk.max_open_positions

VARIABLE book   \* the trades, oldest first: [symbol, settled]

Trade == [symbol : Symbols, settled : BOOLEAN]

Unsettled(b) == {i \in DOMAIN b : ~b[i].settled}

\* A book that keeps to the limits.
Sound(b) ==
    /\ \A i, j \in Unsettled(b) : b[i].symbol = b[j].symbol => i = j
    /\ Cardinality({b[i].symbol : i \in Unsettled(b)}) <= MaxOpen

\* A book that continues another one: trades are added at the end and settled.
Continues(old, new) ==
    /\ Len(old) <= Len(new)
    /\ \A i \in DOMAIN old : /\ new[i].symbol = old[i].symbol
                             /\ old[i].settled => new[i].settled

Init == book = << >>

\* A transaction: trades are opened and settled, several at once.
Transact ==
    /\ book' # book
    /\ book' \in Seq(Trade)
    /\ Continues(book, book')
    /\ Sound(book')

Spec == Init /\ [][Transact]_book
=============================================================================
