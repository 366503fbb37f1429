SPECIFICATION FairBootSpec
CONSTANTS
  MaxFaults = 3
  Nothing = Nothing
INVARIANT UsedAfterInit
PROPERTY ServiceRecovers
\* A device that is up has nothing left to bring up.
CHECK_DEADLOCK FALSE
