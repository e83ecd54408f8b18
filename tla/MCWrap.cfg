CONSTANTS
  Delay = 1
  FRAME_SPACE = 8
  TRACK_BITS = 64
  WORD_BITS = 8
  SEQ_SPACE = 1024
  MAX_DATA = 2
  MAX_FEC = 1
  HEADER_ROWS = 2
  Shapes <- LargeShape
  FIRST_FRAME = 10
  MAX_FRAMES = 3
  MAX_LAG = 3
SPECIFICATION Spec
INVARIANT DeliveredIntact
