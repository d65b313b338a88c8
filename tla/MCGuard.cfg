SPECIFICATION FairSpec
CONSTANTS
  Handles = {h1, h2}
  Renewers = {h1, h2}
  Renewed = {h1}
  MaxManaged = 1
INVARIANTS
  RenewalJoinedBeforeRelease
  LossIsReturned
PROPERTIES
  LossCancelsCallback
  RunReturns
  PanicEndsRenewal
CHECK_DEADLOCK FALSE
