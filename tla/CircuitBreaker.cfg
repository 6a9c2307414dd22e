CONSTANTS
  Workers = {w1, w2}
  Admins = {a1}
  Threshold = 3
  Window = 2
  Attempts = 2
  MaxTime = 2
  MaxReports = 4
  MaxCommands = 3
SYMMETRY Interchangeable
SPECIFICATION Spec
CHECK_DEADLOCK FALSE
INVARIANTS
  CountIsExact
  OpensAtThreshold
  WindowHolds
PROPERTIES
  OpenStaysUntilReset

