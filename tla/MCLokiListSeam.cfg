CONSTANTS
  NS_PER_MS = 3
  BatchSizes = {1, 3}
  Limit = 2
  Span = 1
  MaxMs = 1
  MaxBatches = 2
SPECIFICATION Spec
INVARIANT LokiPagesSkipNothing
CHECK_DEADLOCK FALSE
