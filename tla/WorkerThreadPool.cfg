SPECIFICATION FairSpec
CONSTANTS
  NumThread = 2
  NumTasksPerThread = 2
  TaskCount = 4
  Modes <- MCModes
  CountMod = 16
  MaxTasks = 5
  Dropped = {1}
  Cancels = {3}
INVARIANTS OwnResult CountAgrees
PROPERTIES RingsAreFifo TasksRun
CHECK_DEADLOCK FALSE
