----------------------------- MODULE MCOnceCell -----------------------------
EXTENDS OnceCell, TLC
Symmetry == Permutations(Task)
=============================================================================
