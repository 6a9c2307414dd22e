CONSTANTS
  Clients = {page}
  Workers = {w1, w2}
  Movements = {t1}
  None = None
  MaxRuns = 2
  MaxAttempts = 2
  MaxCopies = 1
  MaxFaults = 1
SPECIFICATION FairSpec
CHECK_DEADLOCK FALSE
INVARIANTS
  SuccessIsBacked
  ActiveRunsOverlap
PROPERTIES
  StoredMovementsStay
  OneFaultIsSurvived
  ButtonsComeBack
