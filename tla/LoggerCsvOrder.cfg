SPECIFICATION Spec
CONSTANTS
  Capacity = 2
  Persister = {"logger"}
  Request = {"csv"}
  MaxLogs = 2
  MaxBoot = 0
INVARIANT CsvNewestFirst
\* The model stops when the bounds on entries and restarts are reached.
CHECK_DEADLOCK FALSE
