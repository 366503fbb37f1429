SPECIFICATION CsiSpec
CONSTANTS
  Half = 8
  MaxHeard = 3
INVARIANTS PacketsAccounted RatesAddUp ReportIsLive
CHECK_DEADLOCK FALSE
