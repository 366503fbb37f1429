SPECIFICATION CsiSpec
CONSTANTS
  Half = 2
  MaxHeard = 2
INVARIANTS RatesAddUp
CHECK_DEADLOCK FALSE
