CONSTANTS
  Events = {e1}
  Tokens = {m1, w1, w2}
  Claims = {q, w1, w2}
  None = None
  LeaseTicks = 1
  Monitors = {m1}
  Workers = {w1, w2}
  Schedule = q
  KnownAccount = TRUE
  MaxExpiries = 1
  MaxMishaps = 1
SPECIFICATION FairSpec
INVARIANTS
  LoginsOverlapOnlyByDecision
  AuditsPrecedeClose
PROPERTIES
  RestoredEpisodesClose
  FailedDeliveryIsNoticed
