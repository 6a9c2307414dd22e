CONSTANTS
  Events = {e1, e2}
  Tokens = {m1, w1}
  Claims = {q, w1}
  None = None
  LeaseTicks = 1
  Monitors = {m1}
  Workers = {w1}
  Schedule = q
  KnownAccount = TRUE
  MaxExpiries = 1
  MaxMishaps = 1
SYMMETRY Interchangeable
SPECIFICATION Spec
INVARIANT
  ClosedIdentityIsNotRevived
