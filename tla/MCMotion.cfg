\* Debounce, calibration, baseline and time stamps while a user retunes.
SPECIFICATION FairSpec
CONSTANTS
  Feature = {0, 1}
  ScoreMax = 6
  Config <- TwoConfigs
  Hysteresis = 1
  DebounceRise = 2
  DebounceFall = 3
  ClockMod = 2
  HistoryPeriod = 1
PROPERTIES LevelDebounced PresenceNotLearned ChangeStampsHonest CalibrationShowsIdle QuietRoomReturnsToIdle
