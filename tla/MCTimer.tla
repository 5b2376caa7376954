------------------------------ MODULE MCTimer ------------------------------
EXTENDS Timer, TLC

CONSTANTS c1, c2, c3

Symmetry == Permutations(Clients)

=============================================================================
