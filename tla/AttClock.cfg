SPECIFICATION FairSpec
CONSTANTS
  Opcode = {"write", "discover", "prepare", "execute"}
  NoOpcode = NoOpcode
  MaxRequests = 2
  Caller = {c1, c2}
  Handle = {h1}
  NoHandle = NoHandle
  Fragments = 1
  MaxLong = 1
  MaxExpired = 2
INVARIANTS TrackerInv
PROPERTIES TrackerDriven CallersReturn AnsweredOnce EveryRequestEnds
CHECK_DEADLOCK FALSE
