SPECIFICATION FairSpec
CONSTANTS
  Failed = Failed
  NoProfile = NoProfile
  Senders = {s1, s2}
  opening = opening
  Names = {n1, n2}
  Keys = {k1}
  Usernames = {n1}
  None = None
  InOrder = TRUE
  MaxVersion = 2
  MaxFaults = 1
INVARIANTS TypeOK NoticeOrCurrent ProofsCurrent
 
CHECK_DEADLOCK FALSE
