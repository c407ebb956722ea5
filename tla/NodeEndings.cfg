CONSTANTS
  a1 = a1  a2 = a2  w1 = w1
  None = None
  Attempt = {a1, a2}
  Worker = {w1}
  kMaxQueue = 1
  kMaxCompQueue = 1
  Events = {"refuse", "cancel", "stop", "lost", "interrupt"}
  KernelEnds = {"Succeeded"}
  SendTimeouts = TRUE
SPECIFICATION QueueFullSpec
INVARIANTS ReportsInOrder TokensMatchWork
PROPERTIES EveryAttemptAnswered StopReturns
