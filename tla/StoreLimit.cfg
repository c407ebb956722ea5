CONSTANTS
  kRecEpoch = kRecEpoch  kRecAttempt = kRecAttempt
  e1 = e1  e2 = e2  a1 = a1  a2 = a2  a3 = a3
  None = None
  Tag <- Tags
  Entry <- Entries
  Committed <- CommittedEntries
  DurableState <- States
  Empty <- NewState
  SizeOf <- Sizes
  kHeader = 1
  kMaxFileSize = 2
  kMaxRecords = 3
  Faults = {}
SPECIFICATION Spec
INVARIANT EverySaveLoads
