CONSTANTS
  Key = {k1, k2}
  Owner = {o1, o2}
  Duration <- MCDuration
  MaxKeys = 1
  MaxToken = 2
  MaxClock = 2
SPECIFICATION Spec
INVARIANTS
  TypeOK
  CapacityOnlyRefusesNewKeys
PROPERTY ImplementsContract

SYMMETRY MCSymmetry
