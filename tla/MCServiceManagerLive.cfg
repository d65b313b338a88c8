SPECIFICATION FairSpec
CONSTANTS
  Handles = {h1, h2}
  Renewers = {h1, h2}
  Stoppers = {s1}
  MaxManaged = 1
  max = 1
PROPERTIES
  ShutdownEnds
  AcquireReturns
CHECK_DEADLOCK FALSE
