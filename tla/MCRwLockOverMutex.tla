------------------------- MODULE MCRwLockOverMutex -------------------------
EXTENDS RwLockOverMutex, TLC
Symmetry == Permutations(Task)
=============================================================================
