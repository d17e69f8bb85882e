SPECIFICATION FairSpec
CONSTANTS
  MaxNumQueuedCommandBuffers = 1
  MaxLists = 3
  SubmitMayFail = TRUE
  DeviceMayBeLost = FALSE
PROPERTIES PresentAnswered
CHECK_DEADLOCK FALSE
