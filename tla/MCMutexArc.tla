----------------------------- MODULE MCMutexArc -----------------------------
EXTENDS MutexArc, TLC
Symmetry == Permutations(Task)
=============================================================================
