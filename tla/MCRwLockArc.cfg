\* A state word of eight values: two readers make the third one abort.
SPECIFICATION ArcSpec
CONSTANTS
  Task = {t1, t2, t3}
  MAX = 7
  UsesDowngradeToUpgradable = TRUE
SYMMETRY Symmetry
INVARIANTS WordInv MutexInv WriterExclusive NoSleepingWriter
  CountExact LockOutlivesUse SoleHandleIsUnlocked
PROPERTIES NeverWraps ImplementsRwLock
CHECK_DEADLOCK FALSE
