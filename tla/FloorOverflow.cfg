CONSTANTS
  Settings <- LargestFloor
  MAX_SETTINGS = 1
  FrameSizes = {300}
  MAX_FRAMES = 1
  MAX_LOST = 0
  MAX_GRID = 448
SPECIFICATION Spec
INVARIANT FloorIsCapped
CHECK_DEADLOCK FALSE
