SPECIFICATION Spec
CONSTANTS
  N = 3
  Dynamic = {1}
  MaxRefs = 1
  Options = {"fog", "textures"}
  Kind <- MCKind
  NoReset = {"textures"}
  Values <- MCValues
  Hashes <- MCHashes
  Default <- MCDefault
  Config <- MCConfig
  NoLimit = NoLimit
  Limits <- MCLimits
  Adjusts <- MCAdjusts
  Cutoff = 9
  One = 10
  Strengths = {5, 9}
  Thresholds = {6}
  OwnThreshold = 1
  MaxResolves = 2
INVARIANTS ResolvedIsCurrent ResolvesAsDescribed RedundantHasNoEffect BlendIsCaptured
CHECK_DEADLOCK FALSE
CONSTRAINT MCBound
