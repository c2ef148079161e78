SPECIFICATION FairSpec
CONSTANTS
  Failed = Failed
  NoProfile = NoProfile
  a = a
  b = b
  r1 = r1
  r2 = r2
  Users = {a, b}
  Runs <- TwoRunsOfB
  SpamThreshold = 2
  MaxInFlight = 2
  MaxMade <- ThreeAndTwo
  MaxInits = 0
  MaxFaults <- FaultsOfA
INVARIANTS TypeOK KeysAgree StorageSynced QuotaBound NoBundleLost
PROPERTIES KeyKept RoomsGetKeys
CHECK_DEADLOCK FALSE
