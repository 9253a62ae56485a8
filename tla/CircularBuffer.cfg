SPECIFICATION Spec
CONSTANTS
  Vals = {x, y}
  Default = Default
  MaxCapacity = 4
INVARIANTS
  BookkeepingAgrees
PROPERTIES
  ImplementsDeque
CHECK_DEADLOCK FALSE
