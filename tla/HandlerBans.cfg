SPECIFICATION Spec
CONSTANTS
  Levels = 2
  Zero = Zero
  a = a
  b = b
  c = c
  m1 = m1
  m2 = m2
  m3 = m3
  m4 = m4
  m5 = m5
  Deliveries = {m1, m2, m3, m4, m5}
  Members <- Three
  SpamThreshold = 1
  AllowedDelay = 2
  MaxEpoch = 0
  MaxInFlight = 2
  MaxRedelivered = 0
  MaxKilled = 1
INVARIANTS TypeOK  RootRightAfterFirstBan
PROPERTIES RemovedStaysOut
SYMMETRY Symmetry
CHECK_DEADLOCK FALSE
