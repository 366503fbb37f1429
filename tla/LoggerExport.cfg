\* Both exports on a ring that keeps filling.
SPECIFICATION Spec
CONSTANTS
  Capacity = 4
  Persister = {"logger"}
  Request = {"json", "csv"}
  MaxLogs = 8
  MaxBoot = 0
INVARIANTS TypeOK ExportOrdered ExportsComplete
\* The model stops when the bounds on entries and restarts are reached.
CHECK_DEADLOCK FALSE
