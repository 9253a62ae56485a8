SPECIFICATION TimerSpec
CONSTANTS
  Addresses = {a, b}
  Vals = {v}
  NULL = NULL
  MaxSlots = 2
  Uses = {"tick", "timer", "idle"}
  TickArms = TRUE
  SelfDestroy = TRUE
INVARIANTS
  TimerTypeOK
  SlotsMatchCalls
  NothingOutlivesItsObject
  IdleCounted
PROPERTIES
  ImplementsService
CHECK_DEADLOCK FALSE
SYMMETRY Symmetry
