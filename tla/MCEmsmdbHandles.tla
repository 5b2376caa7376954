-------------------------- MODULE MCEmsmdbHandles --------------------------
EXTENDS EmsmdbHandles, TLC

Symm == Permutations(Guids) \cup Permutations(Rpcs)
=============================================================================
