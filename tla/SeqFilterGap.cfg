CONSTANTS
  TRACK_BITS = 8
  WORD_BITS = 2
  SEQ_SPACE = 64
  MAX_SKIP = 2
  MAX_SEQ = 13
SPECIFICATION FilterSpec
INVARIANT RefusedWasSeen
