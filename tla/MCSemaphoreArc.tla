--------------------------- MODULE MCSemaphoreArc ---------------------------
EXTENDS SemaphoreArc, TLC
Symmetry == Permutations(Task)
=============================================================================
