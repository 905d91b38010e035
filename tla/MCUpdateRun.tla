---------------------------- MODULE MCUpdateRun -----------------------------
(* UpdateRun on two runs that can be asked to read and write two saves.    *)
EXTENDS UpdateRun, TLC

CONSTANTS x, y

(* In place, to a separate output, and a preview; two runs then meet on    *)
(* one target, or one writes what the other reads.                         *)
SomeRequests ==
    { [edit |-> x, target |-> x, dry |-> FALSE],
      [edit |-> x, target |-> y, dry |-> FALSE],
      [edit |-> x, target |-> x, dry |-> TRUE] }

(* Runs are alike and so are the contents that others write.               *)
Symmetry == Permutations(Runs) \cup Permutations(Foreign)
=============================================================================
