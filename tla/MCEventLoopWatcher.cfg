SPECIFICATION FairSpec
CONSTANTS
  Producers = {p1, p2}
  Loop      = loop
  Functors  = {f1, f2}
  Stoppers  = {p1}
  Early     = {f1, f2}
INVARIANTS
  WatcherOutlivesNotify
CHECK_DEADLOCK FALSE
