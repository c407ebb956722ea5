CONSTANTS
  f1 = f1
  f2 = f2
  f3 = f3
  None = None
  Frame = {f1, f2, f3}
  Sender = {s1, s2}
  kHeaderSize = 2
  PayloadLength <- Lengths
  kMaxFramePayload = 1
  MayTimeOut = TRUE
SPECIFICATION FairChannelSpec
INVARIANT MalformedHasCause
PROPERTIES IsQueue Delivered
CHECK_DEADLOCK FALSE
