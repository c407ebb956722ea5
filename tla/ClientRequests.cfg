CONSTANTS
  t1 = t1  t2 = t2
  Task = {t1, t2}
  ZeroId = zero
  Dependencies <- Chain
  Conns = 2
  Requests = 2
  MaxEpoch = 2
SPECIFICATION Spec
INVARIANTS AnswersOwnRequest AnswersHold
CHECK_DEADLOCK FALSE
