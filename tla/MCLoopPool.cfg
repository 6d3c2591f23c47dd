SPECIFICATION FairSpec
CONSTANTS
  MaxThreads = 2
  MaxStops   = 2
  Users      = {u1}
INVARIANTS
  TypeOK
  HandedLoopsHaveStarted
  StopWaitsForAll
  FatalRaces
PROPERTIES
  FirstCallbackRuns
  CallsReturn
\* The owner need not call anything, and the pool stops for good.
CHECK_DEADLOCK FALSE
