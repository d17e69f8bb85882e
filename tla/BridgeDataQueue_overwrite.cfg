SPECIFICATION DataSpec
CONSTANTS
  Sizes = {7}
  K = 2
  MaxItems = 1
  GiveUp = FALSE
  Items <- ItemsObject
INVARIANTS NoOverwrite
CHECK_DEADLOCK FALSE
