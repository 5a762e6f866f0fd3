SPECIFICATION FairSpec
CONSTANTS
  MaxLines = 4
  MaxMs = 2
  Take = 2
INVARIANTS
  MissesAreExplained
  OrderedPerSource
PROPERTY CatchesUp
