CONSTANTS
  t1 = t1  t2 = t2
  Task = {t1}
  ZeroId = zero
  Dependencies <- Single
  Conns = 2
  Requests = 3
  MaxEpoch = 1
SPECIFICATION Spec
INVARIANT RepeatedCancelSameAnswer
CHECK_DEADLOCK FALSE
