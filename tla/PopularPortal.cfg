CONSTANTS
  Movements = {m1, m2, m3, m4, m5}
  ItemsPerPage = 2
  MaxPages = 2
SPECIFICATION Spec
SYMMETRY Interchangeable
CHECK_DEADLOCK FALSE
INVARIANTS
  CollectedIsComplete
  WarmUpSeesExpiry
