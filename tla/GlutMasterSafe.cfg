SPECIFICATION Spec
CONSTANTS
  Addresses = {w1, w2}
  Vals = {v}
  Ids = {i1}
  NULL = NULL
  NoID = NoID
  MaxSlots = 2
  MaxQueue = 1
  MaxObjects = 2
  Uses = {"tick", "timer", "idle"}
  TickArms = FALSE
  SelfDestroy = FALSE
  CloseTwice = FALSE
  GrabOver = FALSE
INVARIANTS  CallbacksHaveObjects HeldMotionHasATick
CHECK_DEADLOCK FALSE
SYMMETRY Symmetry
VIEW View
