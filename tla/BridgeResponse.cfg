SPECIFICATION ResponseFairSpec
CONSTANTS
  Threads = {t1, t2}
  MaxCmds = 4
  PopsAfterFailure = {t1}
INVARIANTS OwnResponse ExclusiveReader
PROPERTIES CallsReturn
CHECK_DEADLOCK FALSE
