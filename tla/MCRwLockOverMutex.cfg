\* Words of eight values: the third starving operation and the third reader abort.
SPECIFICATION RwSpec
CONSTANTS
  Task = {t1, t2, t3}
  MAX = 7
  UsesDowngradeToUpgradable = TRUE
SYMMETRY Symmetry
PROPERTIES ImplementsRw
CHECK_DEADLOCK FALSE
