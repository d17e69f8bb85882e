SPECIFICATION FairSpec
CONSTANTS
  Textures = {t1, t2}
  Blocking = {t2}
  Unreadable = {t1}
  NoTexture = NoTexture
  AllMips = 2
  RingBudget = 2
  MaxReady = 1
  MaxReloads = 1
PROPERTIES QueuedIsUploaded ShutdownReturns
INVARIANTS SlicesDisjoint QueuedIsPending ShowsNewestAsset
CHECK_DEADLOCK FALSE
