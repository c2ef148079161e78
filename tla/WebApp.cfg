SPECIFICATION Spec
CONSTANTS
  Failed = Failed
  NoProfile = NoProfile
  None = None
  MaxCalls = 2
  MaxTexts = 1
  MaxSubmits = 2
  MaxEvents = 1
INVARIANTS TypeOK ShownRoomsKept RoomsListedOnce SentAsSubmitted
PROPERTIES TextKept
CHECK_DEADLOCK FALSE
