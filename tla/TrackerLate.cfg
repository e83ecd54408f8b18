CONSTANTS
  FRAME_SPACE = 32
  MAX_GAP = 16
  MAX_LATE = 2
  MAX_SESSION = 160
SPECIFICATION TrackerSpec
PROPERTY ResolvesClosest
