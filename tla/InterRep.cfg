SPECIFICATION FairSpec
CONSTANTS
  g1 = g1
  g2 = g2
  s1 = s1
  s2 = s2
  Zero = Zero
  Groups <- TwoGroups
  MaxMembers <- TwoAndNone
  PageSize = 3
  Capacity = 2
  Syncs = {s1, s2}
  MaxFaults = 1
INVARIANTS TypeOK  BlankOnlyIfRemoved ChangesArePublished
PROPERTIES CountsCatchUp
CHECK_DEADLOCK FALSE
