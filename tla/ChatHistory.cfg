SPECIFICATION FairSpec
CONSTANTS
  Failed = Failed
  NoProfile = NoProfile
  None = None
  Limit = 3
  ShowLimit = 1
  EpochLength = 2
  Delay = 3
  Keep = 3
  Ahead = 0
  MaxTime = 5
  MaxMessages = 4
  MaxEvents = 1
INVARIANTS TypeOK  ShownStored ListsWithoutGaps
 
CHECK_DEADLOCK FALSE
