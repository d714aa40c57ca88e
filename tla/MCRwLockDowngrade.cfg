SPECIFICATION FairSpec
CONSTANTS
  Task = {t1, t2}
  MAX = 15
  UsesDowngradeToUpgradable = TRUE
PROPERTIES ReaderIsWoken
