\* Numbering, persistence, clears and restarts; both exports on a filling ring.
SPECIFICATION Spec
CONSTANTS
  Capacity = 3
  Persister = {"logger", "reboot"}
  Request = {"json", "csv", "clear"}
  MaxLogs = 7
  MaxBoot = 1
INVARIANTS NumberedWithoutGaps ExportOrdered ExportsComplete
CONSTRAINT Slices
\* The model stops when the bounds on entries and restarts are reached.
CHECK_DEADLOCK FALSE
