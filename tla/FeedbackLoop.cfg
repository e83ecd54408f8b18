CONSTANTS
  G_MIN_PACKET = 1
  G_MIN_FRAME = 3
  MULTI_FRAME_BURST = 2
  TAU = 2
  FrameEndings <- Frames
  MAX_PACKETS = 2
  high_redundancy_byte = 1
  redundancy_step_factor = 2
  feedback_history_len = 2
  MAX_WINDOW = 2
  MAX_IN_FLIGHT = 2
SPECIFICATION FairSpec
INVARIANTS LevelWasRecommended HistoryIsChain
PROPERTIES NoticedLossRaises CalmsDown ReactsToLoss
