CONSTANTS
  BatchSize = 2
  MaxLines = 4
  MaxLinks = 1
  MaxBody = 2
  NsPerMs = 2
  MaxMs = 1
SPECIFICATION LokiFairSpec
INVARIANT StampsFollowTheClock
PROPERTIES
  ImplementsLogSink
  PushesSettle
CHECK_DEADLOCK FALSE
