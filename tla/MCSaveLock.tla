----------------------------- MODULE MCSaveLock -----------------------------
(* SaveLock on the platforms it is built for, with three or four attempts. *)
EXTENDS SaveLock, TLC

(* Attempts are alike, and so are lock files: no property names one.       *)
Symmetry == Permutations(Procs) \cup Permutations(Inodes)
=============================================================================
