CONSTANTS
  Callers = {s1, l1, l2}
  Logins = {l1, l2}
  Launchers = {b1, b2}
  None = None
  MaxSlots = 2
  QueueLimit = 1
  Threshold = 0
  Sustain = 1
SPECIFICATION FairSpec
INVARIANTS
  SlotsAreExact
  OneBrowser
  PagesHaveAnOwner
  AlertsMatchSpells
PROPERTIES
  LoginsComeBack
