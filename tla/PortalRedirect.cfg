CONSTANTS
  Movements = {m1, m2}
  ItemsPerPage = 2
  MaxPages = 1
SPECIFICATION Spec
CHECK_DEADLOCK FALSE
INVARIANT RedirectIsReported
