CONSTANTS
  MaxKey = 5
  Span = 3
  Limit = 2
  Cap = 3
  Around = 1
  BUFFER_CAPACITY = 2
  Lines <- MCLines
  Channels = {"slack"}
  Drafts <- MCDrafts
  MaxEdits = 2
  Ids = {"pager"}
  Ages = {1, 3, 5}
  Windows = {2, 4}
  RETENTION_DAYS = 4
  Urls = {"a", "b"}
  MaxLines = 4
  MINUTE = 4
  Table <- MCTable
  LokiTable <- MCLokiTable
  Texts <- MCTexts
  Instants <- MCInstants
  Clock <- MCClock
  DefaultService = "api"
  TopN = 1
  MaxClicks = 3
  NS_PER_MS = 3
  BatchSizes = {1, 2, 3}
  LokiSpan = 2
  MaxMs = 2
  MaxBatches = 2
  BURST_PAD = 1
  RANGE = 4
  QUANTUM = 2
  MaxFires = 2
  MaxDispatches = 1
  MaxClock = 5
  MaxCalls = 2
  MaxRestarts = 1
  Incidents = {"i1", "i2"}
  MaxChanges = 1
  TOP_N = 2
  MaxRequests = 2
  Begin = 7
  Until = 8
  Tenants = {"acme"}
  BadTenant = "Acme"
  TrailLimit = 1
  MaxActs = 2
  MaxPicks = 2
SPECIFICATION ConsoleSpec
INVARIANTS
  ListMissesNothing
  ExportCutsOnlyTheTail
  ContextIsNearest
  QuietViewsAreCurrent
  SupportedShapesCountWhatIsDrawn
  NoRowLeavesEarly
  AuditNamesTheWindow
  NoForeignRows
  ShowsTheNewest
  SourcesAgree
  ResubmitKeepsTheQuery
  PanelsCountTheList
  NarrowingKeepsTheRows
  
  TriggersTellTheTruth
  TilesTellWhatIsStored
  TenantsStayApart
PROPERTY TransitionsAreLegal
CHECK_DEADLOCK FALSE
