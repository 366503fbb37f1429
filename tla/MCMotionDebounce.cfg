\* The debounce limits of the firmware; the types and the counters.
SPECIFICATION Spec
CONSTANTS
  Feature = {0, 1, 2}
  ScoreMax = 6
  Config <- TwoConfigs
  Hysteresis = 1
  DebounceRise = 3
  DebounceFall = 4
  ClockMod = 1
  HistoryPeriod = 1
INVARIANTS TypeOK CountersEarned
PROPERTIES LevelDebounced PresenceNotLearned
