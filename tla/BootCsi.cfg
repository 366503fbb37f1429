SPECIFICATION BootSpec
CONSTANTS
  MaxFaults = 2
  Nothing = Nothing
INVARIANT CsiFailureTolerated
\* A failed CSI start must not stop the device.
CHECK_DEADLOCK FALSE
