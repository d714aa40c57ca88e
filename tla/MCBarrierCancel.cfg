SPECIFICATION Spec
CONSTANTS
  Task = {t1, t2}
  n = 2
  GEN = 4
  MaxCancel = 1
PROPERTIES AllAreThere
