SPECIFICATION FairSpec
CONSTANTS
  Producers = {p1, p2}
  Loop      = loop
  Functors  = {f1, f2}
  Stoppers  = {p1, loop}
  Early     = {f1}
INVARIANTS
  TypeOK
  OneBatch
  FlagMeansNotification
  NobodyForgotten
  CountIsWaiting
  EarlyRunFirst
PROPERTIES
  QueueOrder
  EarlyRuns
  StopEnds
\* The loop's thread may sleep for ever, and it stops for good after Run.
CHECK_DEADLOCK FALSE
