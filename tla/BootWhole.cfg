SPECIFICATION BootSpec
CONSTANTS
  MaxFaults = 2
  Nothing = Nothing
INVARIANT ConfirmedIsWhole
\* The image is confirmed with a part missing.
CHECK_DEADLOCK FALSE
