SPECIFICATION Spec
CONSTANTS
  g1 = g1
  g2 = g2
  s1 = s1
  s2 = s2
  Zero = Zero
  Groups <- OneGroup
  MaxMembers <- Two
  PageSize = 3
  Capacity = 2
  Syncs = {s1}
  MaxFaults = 0
INVARIANTS SettledMeansRemoved
CHECK_DEADLOCK FALSE
