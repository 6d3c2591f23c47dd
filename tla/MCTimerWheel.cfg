SPECIFICATION FairSpec
CONSTANTS
  TIME_NEAR        = 2
  TIME_LEVEL       = 4
  TIME_LEVEL_COUNT = 2
  SPAN            <- MCSpan
  WORD_BITS        = 5
  UNIT_MILLISECOND = 2
  Tasks    = {t1, t2}
  Delays   = {1, 9}
  MaxClock = 8
  MaxLag   = 2
INVARIANTS
  TypeOK
  OneSlot
  WaitsOnItsPath
  TickTracksClock
  StopsAfterOneTurn
PROPERTIES
  NeverSteppedOver
  LateByWholeTurns
  SameTickFIFO
  EarlyOnlyByLag
  PunctualFires
