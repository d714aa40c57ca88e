---------------------------- MODULE MCRwLockArc ----------------------------
EXTENDS RwLockArc, TLC
Symmetry == Permutations(Task)
=============================================================================
