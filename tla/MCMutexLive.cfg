\* MAX: all three may starve, and the last one aborts if the lock is taken by then.
SPECIFICATION FairSpec
CONSTANTS
  Task = {t1, t2, t3}
  MAX = 9
PROPERTIES Progress
CHECK_DEADLOCK FALSE
