SPECIFICATION WindowFairSpec
CONSTANTS
  Addresses = {w1, w2}
  Ids = {i1, i2}
  NULL = NULL
  NoID = NoID
  MaxQueue = 2
  MaxObjects = 2
  CloseTwice = TRUE
  GrabOver = TRUE
PROPERTIES
  FirstOpenIsServed
  CloseIsServed
  ProgramEnds
CHECK_DEADLOCK FALSE
