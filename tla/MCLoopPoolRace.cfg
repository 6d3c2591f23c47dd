SPECIFICATION FairSpec
CONSTANTS
  MaxThreads = 2
  MaxStops   = 1
  Users      = {u1}
INVARIANT NoNeedToLock
CHECK_DEADLOCK FALSE
