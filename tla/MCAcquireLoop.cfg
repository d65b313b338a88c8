SPECIFICATION FairSpec
CONSTANTS
  Calls = {c1, c2}
  MaxDuration = 7
  MaxTTL = 6
  MaxWait = 6
  MaxAttempts = 2
  MaxOperationTimeout = 5
  DefaultTimeout = 4
  Options <- MCOptions
  Jitters <- MCJitters
  MaxWaiters = 1
  MaxTime = 1
INVARIANTS
  IInv
  PolicyRespected
  OneGrantPerCall
  DefiniteErrorsAreDefinite
PROPERTY AcquireReturns
CHECK_DEADLOCK FALSE
