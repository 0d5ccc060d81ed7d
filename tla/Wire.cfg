SPECIFICATION FairWireSpec
CONSTANTS
  Node = {a, b}
  Dialer = {a, b}
  Disconnecting = {a}
  MaxSockets = 2
  MaxCallbacks = 1
  MaxCrashes = 1
INVARIANTS WireInv
PROPERTIES DeadEntriesGo NoHalfOpen
CHECK_DEADLOCK FALSE
