SPECIFICATION FairSpec
CONSTANTS
  N = 4
  Values = {h1, h2}
  Default = none
  Torn = torn
  TimeoutOn = TRUE
INVARIANTS NoSlotRace
PROPERTIES ImplementsFifo PushCompletes
