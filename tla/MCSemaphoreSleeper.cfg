SPECIFICATION FairSpec
CONSTANTS
  Task = {t1, t2, t3}
  Permits = 1
  MaxAdd = 1
  MaxForget = 0
  MAX = 3
PROPERTIES PermitIsTaken
CHECK_DEADLOCK FALSE
