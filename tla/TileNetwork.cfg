SPECIFICATION Spec
CONSTANTS
  c1 = c1
  c2 = c2
  Clients <- Two
  Mortal <- One
  Slaves = 3
  MaxConns = 3
  MaxVersion = 1
  MaxSteps = 1
  StaleErrno <- One
  MasterErrno = TRUE
INVARIANTS
  MessagesInOrder
  AckMeansReceived
  
CHECK_DEADLOCK FALSE
