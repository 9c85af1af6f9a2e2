SPECIFICATION Spec
CONSTANTS
  t1 = t1
  t2 = t2
  t3 = t3
  t4 = t4
  node1 = node1
  node2 = node2
  Addresses = {1, 2}
  Heights = {1, 2}
  PageSize = 1
  MaxPages = 2
  ActiveWindow = 1
  MaxPoolShares = 3
  FeedTemplates = {t1, t2}
  OwnerOf <- MCOwners
  ShareMiners = {ann, bob}
  ShareLanes = {"full", "buyer-v2"}
  RecentLimit = 2
  MaxFeed = 3
  MaxBatch = 2
  Ids = {t1, t2, t3, t4}
  Template <- MCTemplate
  Queries <- MCQueries
  Columns = {"height", "merkle"}
  DefaultVisible = {"height", "merkle"}
  MaxMerkleCols = 2
  TraySlots = 2
  FlowBranches = 2
  MaxPicked = 3
  TableWindow = 1
  MaxTotal = 3
  ChunkSize = 2
  Forms <- MCForms
  ExtranonceLen = 12
  BtcPrices = {8, 16}
  SuiPrices = {2}
  Difficulties = {2, 6}
  DefaultBtc = 9
  DefaultDiff = 5
  ShareDiffs = {3}
  PurchasePrices = {20, 60}
  Aprs = {5}
  BlocksPerYear = 10
  Holdings = {2, 4}
  DiffChanges <- MCDiffChanges
  BtcChanges <- MCBtcChanges
  ScenarioRows <- MCScenarioRows
  Maturation = 4
  Curve <- MCCurve
  Ranges = {"7d", "30d"}
  Span <- MCSpan
  Window <- MCWindow
  PriceAt <- MCPriceAt
  RateAt <- MCRateAt
  Width = 2
  MaxTime = 4
INVARIANTS
  PoolListsInv
  StoredDataInv
  FiguresAndChartsInv
PROPERTIES
  ReadsEnd
CHECK_DEADLOCK FALSE
