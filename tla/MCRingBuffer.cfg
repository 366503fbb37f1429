\* Two tasks on a three-slot ring, pushes enough to wrap it.
SPECIFICATION FairSpec
CONSTANTS
  Value = {v1, v2}
  NoValue = NoValue
  Capacity = 3
  Thread = {t1, t2}
  NoThread = NoThread
  MaxTotal = 5
INVARIANTS TypeOK LiveSlotsWritten ResultsAtomic
PROPERTIES ImplementsRecentQueue LockReleased
