CONSTANTS
  Delay = 1
  FRAME_SPACE = 16
  TRACK_BITS = 64
  WORD_BITS = 8
  SEQ_SPACE = 1024
  MAX_DATA = 2
  MAX_FEC = 1
  HEADER_ROWS = 2
  Shapes <- SmallAndLarge
  FIRST_FRAME = 0
  MAX_FRAMES = 5
  MAX_LAG = 4
SPECIFICATION SizedSpec
INVARIANTS WindowsAgree SlotsUnmixed DeliveredIntact DeliveredOnce CompleteIsDelivered VerdictsAreFinal DedupMatchesRing
PROPERTIES ImplementsDelivery SkippedAreCounted
