CONSTANTS
  MINUTE = 4
  Table <- MCTable
  LokiTable <- MCLokiTable
  Texts <- MCTexts
  Instants <- MCInstants
  Clock <- MCClock
  DefaultService = "api"
  TOP_N = 2
  TopN = 1
  MaxClicks = 1
SPECIFICATION Spec
INVARIANT VolumeCountsItsBuckets
CHECK_DEADLOCK FALSE
