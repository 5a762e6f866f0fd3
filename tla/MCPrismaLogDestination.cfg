CONSTANTS
  BatchSize = 2
  MaxLines = 5
  MaxLinks = 2
  Unparsable = {2, 3}
SPECIFICATION FairSpec
INVARIANTS
  EveryLineAccountedFor
  OneFlushWhileServing
  StoredInOrder
  ShutdownDrains
PROPERTIES
  ImplementsLogSink
  PromisedLinesSettle
  ShutdownCompletes
CHECK_DEADLOCK FALSE
