SPECIFICATION TimerFairSpec
CONSTANTS
  Addresses = {a, b}
  Vals = {v}
  NULL = NULL
  MaxSlots = 3
  Uses = {"tick", "timer"}
  TickArms = FALSE
  SelfDestroy = FALSE
INVARIANTS
  OneTickUnderWay
  WantedTicksArePending
  NoTimerFault
PROPERTIES
  TicksArrive
