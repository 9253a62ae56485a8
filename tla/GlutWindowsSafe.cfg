SPECIFICATION WindowSpec
CONSTANTS
  Addresses = {w1, w2, w3}
  Ids = {i1, i2}
  NULL = NULL
  NoID = NoID
  MaxQueue = 3
  MaxObjects = 3
  CloseTwice = FALSE
  GrabOver = FALSE
INVARIANTS
  DatabaseConsistent
  QueuesAreLive
  NobodyIsForgotten
  NoWindowFault
CHECK_DEADLOCK FALSE
SYMMETRY Symmetry
