SPECIFICATION Spec
CONSTANTS
  Central = c
  Peripheral = p
  Editor = {p}
  MaxEdits = 2
  MaxDrops = 1
INVARIANT NamesAreNames
CHECK_DEADLOCK FALSE
