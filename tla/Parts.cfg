CONSTANTS
  FRAME_SPACE = 32
  MAX_GAP = 16
  MAX_LATE = 0
  MAX_SESSION = 160
  TRACK_BITS = 8
  WORD_BITS = 2
  SEQ_SPACE = 64
  MAX_SKIP = 1
  MAX_SEQ = 13
  WINDOW = 3
  MAX_DATA = 8
  MAX_FEC = 5
  MAX_STRIPES_PER_PKT = 2
  MIN_PARITIES = {0, 4, 65535}
  PARITY_DELAYS = {0, 1}
  G_MIN_PACKET = 2
  G_MIN_FRAME = 1
  MULTI_FRAME_BURST = 2
  TAU = 2
  MAX_PACKETS = 2
  MAX_WINDOW = 4
SPECIFICATION Spec
INVARIANTS
  TrackerTypeOK TrackerFollows
  BitmapIsKnown
  PlanTypeOK SumsMatchHistory WindowFloor StripeBurstIsCovered WireFloor ParityFitsCode PacketsCarryPlan
  LossesAreMarked HistogramsAreRuns DensitiesMatchRfc BurstsSpanFrames
