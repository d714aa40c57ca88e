SPECIFICATION FairSpec
CONSTANTS
  Task = {t1, t2, t3, t4}
  n = 4
  GEN = 4
  MaxCancel = 2
INVARIANTS NobodyOversleeps GroupsAreFull
PROPERTIES ImplementsBarrier ReleasedReturn
