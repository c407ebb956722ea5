SPECIFICATION Spec
CONSTANTS
  t1 = t1
  t2 = t2
  n1 = n1
  n2 = n2
  Task = {t1, t2}
  Node = {n1}
  DrainNode = {}
  TaskSpec <- ChainSpec
  Capacity <- OneSlot
  MaxAttempt = 2
  MaxSession = 2
  MaxEpoch = 2
INVARIANTS
  TypeOK
  DependencyGating
  SucceededIsCommitted
  DiskCurrent
  NoStaleAuthority
  CancelHonouredUntilRestart
PROPERTIES
  IsService
  CommitsAreDurable
