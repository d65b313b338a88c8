SPECIFICATION ManagedFairSpec
CONSTANTS
  Handles = {h1, h2}
  Renewers = {r1, r2}
  MaxManaged = 1
INVARIANTS
  OneOperation
  SlotsConserved
PROPERTIES
  StopJoins
  EndedHandleStopsRenewer
CHECK_DEADLOCK FALSE
