SPECIFICATION Spec
CONSTANTS
  Levels = 1
  Zero = Zero
  a = a
  b = b
  c = c
  m1 = m1
  m2 = m2
  m3 = m3
  m4 = m4
  m5 = m5
  Deliveries = {m1, m2, m3, m4}
  Members <- One
  SpamThreshold = 2
  AllowedDelay = 2
  MaxEpoch = 2
  MaxInFlight = 2
  MaxRedelivered = 2
  MaxKilled = 1
INVARIANTS  SignalBound RevealedOnlyIfSpamming
 
SYMMETRY Symmetry
CHECK_DEADLOCK FALSE
