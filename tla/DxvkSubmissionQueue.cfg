SPECIFICATION FairSpec
CONSTANTS
  MaxNumQueuedCommandBuffers = 1
  MaxLists = 3
  SubmitMayFail = TRUE
  DeviceMayBeLost = TRUE
INVARIANTS ZeroMeansIdle WaitedForAll ReleasedAfterUse
PROPERTIES CallsReturn
CHECK_DEADLOCK FALSE
