SPECIFICATION Spec
CONSTANTS
  Levels = 2
  Zero = Zero
  a = a
  b = b
  c = c
  d = d
  e = e
  g1 = g1
  g2 = g2
  Groups <- MCGroups
  Registered <- MCDistinct
  MaxGone = 1
  MaxUpdates = 2
INVARIANT RootMatchesLeaves
CHECK_DEADLOCK FALSE
