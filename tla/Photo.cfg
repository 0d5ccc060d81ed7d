SPECIFICATION FairSpec
CONSTANTS
  a = a
  b = b
  c = c
  Phone = {a, b, c}
  Owner = a
  Scenarios <- MCScenarios
  MaxStreams = 1
INVARIANTS
  PhotoTypeOK
PROPERTIES
  NeverBack
  NewsArrive
  DirectPhotoArrives
CHECK_DEADLOCK FALSE
