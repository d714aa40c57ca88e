SPECIFICATION ArcSpec
CONSTANTS
  Task = {t1, t2, t3}
  Permits = 1
  MaxAdd = 2
  MaxForget = 1
  MAX = 2
SYMMETRY Symmetry
INVARIANTS TypeOK Conservation NoLostWakeup CountExact LockOutlivesUse
PROPERTIES ImplementsStock
CHECK_DEADLOCK FALSE
