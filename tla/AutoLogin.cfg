CONSTANTS
  Runs = {r1}
  LockTicks = 1
  MaxStarts = 2
  MaxMoves = 3
  MaxFaults = 2
SPECIFICATION FairSpec
INVARIANTS
  NextBoundaryCatches
  PasswordsDoNotStay
PROPERTIES
  SuccessIsClear
  RunsAnswer
  KeysEnd
