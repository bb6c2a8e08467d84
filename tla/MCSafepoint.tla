---------------------------- MODULE MCSafepoint ----------------------------
(* Model-checking instance of Safepoint. *)
EXTENDS Safepoint, TLC

Symmetry == Permutations(Threads)

============================================================================
