---------------------------- MODULE MCSemaphore ----------------------------
EXTENDS Semaphore, TLC
Symmetry == Permutations(Task)
=============================================================================
