\* A presence threshold no higher than the hysteresis.
SPECIFICATION FairSpec
CONSTANTS
  Feature = {0, 1}
  ScoreMax = 6
  Config <- LowPresence
  Hysteresis = 1
  DebounceRise = 2
  DebounceFall = 3
  ClockMod = 1
  HistoryPeriod = 1
PROPERTY QuietRoomReturnsToIdle
