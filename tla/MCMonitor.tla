----------------------------- MODULE MCMonitor -----------------------------
(* Model-checking instance of Monitor: threads and monitors are symmetric. *)
EXTENDS Monitor

Symmetry == Permutations(Threads) \cup Permutations(Monitors)

============================================================================
