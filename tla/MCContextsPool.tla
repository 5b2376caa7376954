--------------------------- MODULE MCContextsPool ---------------------------
(* The instances of ContextsPool that TLC checks.                          *)
EXTENDS ContextsPool, TLC

\* Threads of one kind run the same code and contexts are interchangeable.
Symmetry == Permutations(Ctx) \cup Permutations(Workers)
=============================================================================
