CONSTANTS
  Events = {e1, e2, e3}
  Tokens = {p1, p2}
  Claims = {c1, c2}
  None = None
  LeaseTicks = 2
SYMMETRY Interchangeable
SPECIFICATION EpisodeSpec
CHECK_DEADLOCK FALSE
INVARIANTS
  RowStaysReadable
  OneMutationPerEvent
  UnsettledMutationIsKept
  ReplayIsEarned
  TwinAgrees
PROPERTIES
  VerdictSparesLeasedLogin
