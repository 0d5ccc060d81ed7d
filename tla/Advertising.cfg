SPECIFICATION Spec
CONSTANTS
  Phone = {a, b}
  IDs = {1, 3, 5}
  DeviceName = 2
  UnknownDevice = 4
  MaxStops = 2
  MaxLosses = 1
INVARIANTS AdvertisingTypeOK OneSideDials
PROPERTIES MeetInTheEnd
CHECK_DEADLOCK FALSE
