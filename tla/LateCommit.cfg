SPECIFICATION Spec
CONSTANTS
  t1 = t1
  t2 = t2
  n1 = n1
  n2 = n2
  Task = {t1}
  Node = {n1}
  DrainNode = {n1}
  TaskSpec <- OneSpec
  Capacity <- OneSlot
  MaxAttempt = 2
  MaxSession = 1
  MaxEpoch = 1
INVARIANT CommitSucceeds
