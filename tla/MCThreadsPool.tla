--------------------------- MODULE MCThreadsPool ---------------------------
(* The instances of ThreadsPool that TLC checks.                           *)
EXTENDS ThreadsPool, TLC

Symmetry == Permutations(Threads)
=============================================================================
