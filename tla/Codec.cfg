SPECIFICATION CodecSpec
CONSTANTS
  kMaxList = 2
  kMaxString = 1
  Shapes <- MCShapes
  Cuts <- MCCuts
INVARIANTS
  RoundTrip
  InBoundsAccepted
  NoOverread
CHECK_DEADLOCK FALSE
