----------------------------- MODULE MCObserver -----------------------------
(* The observer on a small instance. *)
EXTENDS Observer, TLC

\* Only safety runs may use it: symmetry is unsound for liveness.
SymbolSymmetry == Permutations(Symbols)
=============================================================================
