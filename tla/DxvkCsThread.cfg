SPECIFICATION FairSpec
CONSTANTS
  Callers = {c1, c2}
  ChunkSize = 2
  MaxCommands = 4
INVARIANTS ExecutedInOrder SynchronizedMeansExecuted LastNumberMeansExecuted
PROPERTIES SynchronizeReturns
CHECK_DEADLOCK FALSE
