SPECIFICATION PictureSpec
CONSTANTS
  Trees <- PictureTrees
  Views <- ViewsOf
  MaxLeaves = 5
  MaxRepeated = 4
  StencilMask = 3
  ZFar = 99
  AnySize = {5}
  RingSizes = {6, 7, 8, 9, 10, 11}
  CompleteSizes = {6, 7}
INVARIANTS
  OptimisedIsTheTree
  PictureIsTheTree
  EveryChainIsSubtracted
PROPERTIES
  RulesAreIdentities
  Terminates
CHECK_DEADLOCK FALSE
