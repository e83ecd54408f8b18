CONSTANTS
  WINDOW = 3
  MAX_DATA = 10
  MAX_FEC = 6
  MAX_STRIPES_PER_PKT = 2
  MIN_PARITIES = {6}
  PARITY_DELAYS = {0}
SPECIFICATION PlanSpec
INVARIANT PacketBurstIsCovered
