SPECIFICATION Spec
CONSTANTS
  Trees <- AllTrees
  MaxLeaves = 4
  MaxRepeated = 0
INVARIANTS
  KeepsTheObject
CHECK_DEADLOCK FALSE
