SPECIFICATION Spec
CONSTANTS
  outer = outer
  inner = inner
  other = other
  Keys = {outer, inner, other}
  Parts <- PartsOf
  Lists = {l1, l2, l3}
  NoList = NoList
  MinAge = 2
  MaxAge = 3
  Capacity = 2
  Modulus = 6
INVARIANTS
  CacheOwnsItsLists
  OldestAtTheBack
  PreviousFrameStays
  ListsDrawTheirObject
PROPERTIES
  GrowsOnlyForRecentFrames
SYMMETRY Symmetry
