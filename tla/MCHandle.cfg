CONSTANTS
  Key = {k1}
  Owner = {o1}
  Handles = {h1, h2}
  KeyOf <- MCKeyOf
  OwnerOf <- MCOwnerOf
  TTL = 3
  SafetyMargin = 1
  Granularity = 2
  ServerEpoch = 3
  MaxTime = 3
  MaxLagTogether = 1
  MaxSkew = 1
  MaxLag = 1
  MaxToken = 2
SPECIFICATION Spec
CONSTRAINT MCBound
SYMMETRY MCSymmetry
INVARIANTS
  IInv
  AdmissionImpliesOwnership
  AtMostOneAdmitted
  AdmittedTokenIsHighest
PROPERTIES
  NoRevival
  TerminalStates
  OnlyHolderChangesUsableLease

