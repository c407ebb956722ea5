CONSTANT Tries = 3
SPECIFICATION FairSpec
INVARIANT SameSession
PROPERTY Settles
CHECK_DEADLOCK FALSE
