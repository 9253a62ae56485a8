SPECIFICATION Spec
CONSTANTS
  Objects = {o1, o2, o3}
  MaxLength = 4
  MaxDepth = 2
  Careful = TRUE
INVARIANTS
  ListsAreMutual
  LoopsStandOnTheirObserver
PROPERTIES
  NotifyReachesEveryone
SYMMETRY Symmetry
