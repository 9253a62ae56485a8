SPECIFICATION FairSpec
CONSTANTS
  Leftover <- AnyLeftover
  Toggles = TRUE
  SelfDestroy = FALSE
INVARIANTS
  HandlerHasAFreshAnswer
PROPERTIES
  DestructorReturns
  LatestAnswerArrives
CHECK_DEADLOCK FALSE
