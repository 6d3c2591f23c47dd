SPECIFICATION FairSpec
CONSTANTS
  Conns      = {x1, x2}
  MaxAccepts = 3
INVARIANTS
  TypeOK
  FaultsNeedOverlap
PROPERTY Served
\* Nobody has to connect, and a destroyed Listener does nothing.
CHECK_DEADLOCK FALSE
