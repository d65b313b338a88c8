CONSTANTS
  Key = {k1}
  Owner = {o1, o2}
  Duration <- MCDuration
  Call = {c1, c2}
  Batch = 1
  CleanupAge = 0
  MaxToken = 2
  MaxClock = 2
SPECIFICATION Spec
INVARIANTS
  IInv
  NoDeadlock
PROPERTIES
  ImplementsContract
  CleanupSparesLeases
SYMMETRY MCSymmetry
