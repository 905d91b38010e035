----------------------------- MODULE MCExeSwap -----------------------------
(* A small instance of ExeSwap; instances of the app are interchangeable.  *)
EXTENDS ExeSwap, TLC

Symmetry == Permutations(Procs)
=============================================================================
