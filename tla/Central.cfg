SPECIFICATION FairSpec
CONSTANTS
  Node = {a, b}
  Dialer = {a}
  Disconnecting = {a}
  Stopping = {a}
  MaxSockets = 3
  MaxCallbacks = 1
  MaxCrashes = 2
INVARIANTS CentralInv
PROPERTIES ReconnectsAfterAll
CHECK_DEADLOCK FALSE
