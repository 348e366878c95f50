---------------------------- MODULE MCLiveTrading ----------------------------
(* The observer on a live broker, on a small instance. *)
EXTENDS LiveTrading, TLC

SymbolSymmetry == Permutations(Symbols)
=============================================================================
