CONSTANTS
  Delay = 2
  MAX_DATA = 2
  MAX_FEC = 2
SPECIFICATION Spec
INVARIANTS TypeOK SolvedIsDetermined RetainedCoversNoUnknown LoneLossSolved
