SPECIFICATION FairSpec
CONSTANTS
  Conns      = {x1}
  MaxAccepts = 1
INVARIANT DestroyedDetached
CHECK_DEADLOCK FALSE
