SPECIFICATION FairSpec
CONSTANTS
  TIME_NEAR        = 2
  TIME_LEVEL       = 4
  TIME_LEVEL_COUNT = 2
  SPAN            <- MCSpan
  WORD_BITS        = 5
  UNIT_MILLISECOND = 2
  Tasks    = {t1}
  Delays   = {1, 9}
  MaxClock = 16
  MaxLag   = 2
PROPERTIES
  EveryTaskFires
