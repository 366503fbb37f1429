\* Violated by calibrations and mixed windows; keep one line to see its trace.
SPECIFICATION Spec
CONSTANTS
  Feature = {0, 1}
  ScoreMax = 6
  Config <- WideConfigs
  Hysteresis = 1
  DebounceRise = 2
  DebounceFall = 3
  ClockMod = 3
  HistoryPeriod = 1
PROPERTY StateSinceIsWhenItBegan
PROPERTY EntryQualified
