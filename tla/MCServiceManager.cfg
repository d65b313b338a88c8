SPECIFICATION Spec
CONSTANTS
  h1 = h1
  h2 = h2
  Handles = {h1, h2}
  Renewers = {h1, h2}
  Stoppers = {s1}
  MaxManaged = 1
  max = 2
SYMMETRY Symmetry
INVARIANTS
  AccountingExact
  CleanupSeesEveryEntry
  ShutdownLeavesNothing
  SuccessMeansReleased
CHECK_DEADLOCK FALSE
