SPECIFICATION FairSpec
CONSTANTS
  Task = {t1, t2, t3}
  MAX = 15
  UsesDowngradeToUpgradable = FALSE
INVARIANTS NoSleepingReader
PROPERTIES WriterIsServed ReaderIsWoken
