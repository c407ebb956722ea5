SPECIFICATION Spec
CONSTANTS
  c1 = c1
  c2 = c2
  k1 = k1
  a1 = a1
  a2 = a2
  NodeConn = {c1}
  ClientConn = {}
  NodeId = {a1}
  NodeOf <- SameId
  kMaxOutboundFrames = 1
  kMaxQueue = 1
  PeerFrames = 1
  CoreSends = 0
  Interrupts = FALSE
  None = None
INVARIANTS
  NoJoinableDestroyed
CHECK_DEADLOCK FALSE
