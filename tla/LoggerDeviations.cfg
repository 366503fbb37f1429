\* Violated by overlapping persists and clears; keep one line to see its trace.
SPECIFICATION Spec
CONSTANTS
  Capacity = 3
  Persister = {"logger", "reboot"}
  Request = {"clear"}
  MaxLogs = 3
  MaxBoot = 1
INVARIANT CleanMeansStored
INVARIANT ClearedStayGone
PROPERTY StoredNeverOlder
\* The model stops when the bounds on entries and restarts are reached.
CHECK_DEADLOCK FALSE
