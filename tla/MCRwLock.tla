------------------------------ MODULE MCRwLock ------------------------------
EXTENDS RwLock, TLC
Symmetry == Permutations(Task)
=============================================================================
