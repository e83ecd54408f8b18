CONSTANTS
  Settings <- SomeSettings
  MAX_SETTINGS = 3
  FrameSizes = {0, 300, 2048, 2049}
  MAX_FRAMES = 2
  MAX_LOST = 2
  MAX_GRID = 56
SPECIFICATION Spec
INVARIANTS AcceptedNeverFails GridsAgree PayloadReassembled DirectMeansComplete
CHECK_DEADLOCK FALSE
