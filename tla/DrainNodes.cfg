SPECIFICATION Spec
CONSTANTS
  c1 = c1
  c2 = c2
  k1 = k1
  a1 = a1
  a2 = a2
  NodeConn = {c1, c2}
  ClientConn = {k1}
  NodeId = {a1, a2}
  NodeOf <- OwnId
  kMaxOutboundFrames = 1
  kMaxQueue = 3
  PeerFrames = 1
  CoreSends = 0
  Interrupts = FALSE
  None = None
INVARIANTS
  NodesLeaveFirst
CHECK_DEADLOCK FALSE
CONSTRAINT QuietUntilDrain
