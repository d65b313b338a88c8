CONSTANTS
  Key = {k1}
  Owner = {o1, o2}
  Duration <- MCDuration
  MaxToken = 2
  MaxClock = 2
  Client = {c1}
  Observers = 2
SPECIFICATION Spec
CONSTRAINT MCBound
INVARIANTS
  IInv
  OneCallbackPerSlot
  HolderIsNotOutranked
PROPERTIES
  ImplementsContract
  PublicationOrdered
  CallsReturn
