SPECIFICATION Spec
CONSTANTS
  W = 8
INVARIANTS
  CellsFollowTheBraces
  LocalLikeGlobal
CHECK_DEADLOCK FALSE
