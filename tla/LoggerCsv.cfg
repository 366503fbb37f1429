\* A CSV export while several entries arrive.
SPECIFICATION Spec
CONSTANTS
  Capacity = 4
  Persister = {"logger"}
  Request = {"csv"}
  MaxLogs = 6
  MaxBoot = 0
INVARIANT CsvLosesAtMostOne
\* The model stops when the bounds on entries and restarts are reached.
CHECK_DEADLOCK FALSE
