SPECIFICATION Spec
CONSTANTS
  Opcode = {"write", "discover", "prepare", "execute"}
  NoOpcode = NoOpcode
  MaxRequests = 9
  Caller = {c1, c2, c3}
  Handle = {h1}
  NoHandle = NoHandle
  Fragments = 2
  MaxLong = 3
  MaxExpired = 0
INVARIANTS AttInv
PROPERTIES WritesAreWhole
CHECK_DEADLOCK FALSE
