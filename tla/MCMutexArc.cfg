SPECIFICATION ArcSpec
CONSTANTS
  Task = {t1, t2, t3}
  MAX = 7
SYMMETRY Symmetry
INVARIANTS WordInv MutualExclusion NoLostWakeup CountExact LockOutlivesUse
PROPERTIES NeverWraps NoBarging ImplementsLock
CHECK_DEADLOCK FALSE
