CONSTANTS
  Delay = 1
  DataStripes = 4
  ParityStripes = 2
  Setups <- MCSetups
SPECIFICATION Spec
CHECK_DEADLOCK FALSE
INVARIANTS
  InverseIsExact
  UnmarkedIsSent
  OwnParitySuffices
