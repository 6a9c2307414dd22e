CONSTANTS
  Workers = {w1}
  Admins = {a1}
  Threshold = 3
  Window = 2
  Attempts = 1
  MaxTime = 2
  MaxReports = 4
  MaxCommands = 1
SYMMETRY Interchangeable
SPECIFICATION Spec
CHECK_DEADLOCK FALSE
INVARIANT
  RollingWindowOpens
