CONSTANTS
  Delay = 3
  MAX_DATA = 1
  MAX_FEC = 1
SPECIFICATION Spec
INVARIANT DecodeIsFixedPoint
