SPECIFICATION ManagedSpec
CONSTANTS
  Handles = {h1}
  Renewers = {r1}
  MaxManaged = 1
INVARIANTS
  LossIsFailClosed
CHECK_DEADLOCK FALSE
