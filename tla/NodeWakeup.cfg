CONSTANTS
  a1 = a1  a2 = a2  w1 = w1
  None = None
  Attempt = {a1}
  Worker = {w1}
  kMaxQueue = 1
  kMaxCompQueue = 1
  Events = {"stop", "lost"}
  KernelEnds = {"Succeeded"}
  SendTimeouts = FALSE
SPECIFICATION Spec
PROPERTY ShutsDown
