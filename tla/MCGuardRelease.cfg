SPECIFICATION Spec
CONSTANTS
  Handles = {h1}
  Renewers = {h1}
  Renewed = {h1}
  MaxManaged = 1
INVARIANTS
  ReleasedAfterHandler
CHECK_DEADLOCK FALSE
