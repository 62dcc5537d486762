SPECIFICATION ServicesSpec
CONSTANTS
  \* IncidentTracker
  Views <- ManyViews
  Callers = {c1, c2}
  ResolveAfter = 1
  MaxResolved = 1
  MaxTime = 2
  MaxCalls = 3
  MaxRestarts = 1
  \* Versions
  Snapshots = {s1, s2}
  Torn = torn
  Missing = missing
  KeepVersions = 2
  Records = {r1, r2, r3}
  MaxNumber = 4
  MaxCrashes = 2
  \* Topology
  Spans <- TraceSpans
  NoSpan = 0
  MaxSpans = 3
  MaxDurations = 1
  MaxDepth = 3
  MaxObserved = 5
  \* Correlation
  Symptoms <- SomeSymptoms
  Changes <- SomeChanges
  Graphs <- SomeGraphs
  CorrWindow = 2
  CoWindow = 1
  MinScore = 1
  CoarseFrom = 4
  MaxChanges = 1
  TopCauses = 2
  Grain = 12
  MaxSymptoms = 4
  \* Gateway
  Members = {1, 2}
  Peers <- FullMesh
  GateJobs = {"a", "b"}
  NoName = "-"
  Positions <- RingPositions
  KeyHash <- JobHash
  Budget = 3
  MaxRequests = 3
  \* Resources
  Owners = {"a", "b"}
  MaxForecasts = 1
  Lifetimes = {1, 2}
  MaxPosts = 3
  Lists = {1, 2}
  Items = {1, 2}
  MaxFilters = 1
  MaxItems = 1
  MaxPuts = 3
  Scopes <- RateScopes
  Rates = {1, 3}
  Whole = 2
  MaxInstant = 3
  \* Slo
  SloNames = {"x"}
  MaxSloSeries = 1
  MaxSloSamples = 2
  DefaultObjective <- NineInTen
  DefaultWindow = 6
  FastLong = 2
  FastShort = 4
  SlowLong = 1
  SlowShort = 2
  FastBurn <- FastRate
  SlowBurn <- SlowRate
  SampleTimes = {8, 12}
  ReportTimes = {9}
  Windows = {3}
  MaxSloPosts = 3
  \* Datafeed
  Span = 2
  ChunkBuckets = 1
  PageSize = 1
  MaxPages = 4
  LastDocTime = 4
  AskedWindows <- FetchWindows
  Terms = {0, 1}
  Readings = {1}
  MaxDocs = 2
INVARIANTS
  IdsUnique
  EventsTellOpen
  OpensOnlyUnmatched
  StoreStands
  TopologyTells
  IncidentsStand
  GatewayRoutes
  ResourcesKept
  ReportsStand
  FetchesCover
PROPERTIES
  ActivityAdvances
CHECK_DEADLOCK FALSE
