SPECIFICATION FairSpec
CONSTANTS
  K = 4
  Timeouts = TRUE
  FocusMayChange = TRUE
  ClientMayCrash = TRUE
  ServerMayHang = TRUE
  MaxFrames = 2
  MaxRetries = 1
INVARIANTS LeadBounded TokenArrives NoSpuriousAbort
PROPERTIES PresentCompletes ServerGoneAfterClient ServerLossNoticed DetachCompletes
CHECK_DEADLOCK FALSE
