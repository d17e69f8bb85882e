SPECIFICATION DataFairSpec
CONSTANTS
  Sizes = {4, 14}
  K = 1
  MaxItems = 1
  GiveUp = TRUE
  Items <- ItemsLarge
INVARIANTS DataIntact TokenMatchesWait
PROPERTIES SendCompletes
CHECK_DEADLOCK FALSE
