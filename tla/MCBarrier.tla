----------------------------- MODULE MCBarrier -----------------------------
EXTENDS Barrier, TLC
Symmetry == Permutations(Task)
=============================================================================
