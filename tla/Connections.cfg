SPECIFICATION OneAtATime
CONSTANTS
  c1 = c1
  c2 = c2
  k1 = k1
  a1 = a1
  a2 = a2
  NodeConn = {c1}
  ClientConn = {k1}
  NodeId = {a1}
  NodeOf <- SameId
  kMaxOutboundFrames = 1
  kMaxQueue = 1
  PeerFrames = 2
  CoreSends = 1
  Interrupts = TRUE
  None = None
INVARIANTS
  NoZombie
  AnswerLeavesFirst
PROPERTIES
  StopReturns
  DeadIsReaped
CHECK_DEADLOCK FALSE
