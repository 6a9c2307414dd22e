CONSTANTS
  AttemptIds = {a1}
  Tokens = {w1, w2}
  NoOwner = NoOwner
  MaxRetries = 1
  LeaseTicks = 1
  MaxCrashes = 1
SPECIFICATION FairSpec
INVARIANTS
  PortalSeesOneLogin
  UntouchedVerdicts
  AuthenticatedMeansSubmitted
  AuthenticatedIsDurable
PROPERTIES
  LateMutationIsReviewed
  ImplementsPolicy
  ImplementsOneLogin
  EveryInvocationAnswers
  DeliveriesFreeLeases
