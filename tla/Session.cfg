SPECIFICATION FairSpec
CONSTANTS
  Central = c
  Peripheral = p
  Editor = {p}
  MaxEdits = 2
  MaxDrops = 1
INVARIANTS SessionInv
PROPERTIES HandshakesComplete ViewsSettle
CHECK_DEADLOCK FALSE
