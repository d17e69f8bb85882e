SPECIFICATION Spec
CONSTANTS
  b1 = b1
  b2 = b2
  Buffers = {b1, b2}
  Size <- TwoSizes
  LockKinds = {"discard", "none", "readonly"}
  SegmentSize = 3
  HeapSize = 5
  K = 3
  MaxUid = 4
  MaxLocks = 2
  Timeouts = TRUE
  MappingMayFail = TRUE
INVARIANTS AllocationsDisjoint UnlockedDataIntact ServerResolves
CHECK_DEADLOCK FALSE
