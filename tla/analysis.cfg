SPECIFICATION AnalysisSpec
CONSTANTS
  \* WatchLoop
  BucketTimes = {0, 1, 2, 3}
  MaxCalls = 5
  Series = {s1}
  MaxDocs = 1
  MaxDelay = 1
  Lookback = 2
  Dedup = 2
  MaxCrashes = 2
  \* AlarmGuard
  NotANumber = NotANumber
  Infinite = 100
  Scores = {0, 1, 2}
  MaxSamples = 6
  MaxWindow = 4
  MaxPenalty = 2
  Policies <- SomePolicies
  \* Pipeline
  DefaultHistory = 4
  MinHistory = 3
  MaxHistory = 6
  MinCalibrated = 1
  DefaultRefresh = 2
  Bridge = 0
  PairOf = 3
  RefractoryScale = 1
  Deviations = {0, 1, 3}
  PipeOptions <- SomePipes
  MaxSeen = 6
  \* Benchmark
  MaxSweep = 8
  AuditLimit = 1
  MaxPoints = 4
  Full = 10000
  Sigmoid <- TabledSigmoid
  Profiles <- SomeProfiles
  WindowSets <- SomeWindows
  MaxTimes = 6
  \* Calibration
  NaN = NaN
  Inf = 100
  CalScores <- CalibrationScores
  Alphas <- SomeAlphas
  MaxSample = 4
  Unit = 8
  MaxTests = 5
  GammaShare <- Shares
  \* Ranking
  Unknown = Unknown
  NoValue = 0
  Directions <- RankDirections
  FeatureValues = {0, 1}
  Errors = {1, 2}
  MaxWeight = 3
  MaxExamples = 3
  Rates <- RankRates
  Spelled <- SpelledInOrder
  InfRecords <- RankRecords
  Measures <- SomeMeasures
  \* Baseline
  BaseValues = {0, 1, 3}
  NoNumber = NoNumber
  Sides = {"both", "high", "low"}
  WindowSize = 6
  Warmups = {0, 2}
  DefaultWarmup = 3
  MultiWindow = 3
  RampBuckets = 1
  DriftLevel = 3
  DriftBuckets = 2
  MaxValues = 7
  Deviation <- FromMedian
  MultiDeviation <- MedianOf
  ScoreOf <- StepScore
  \* JobSpec
  DayLen = 2
  HourLen = 1
  CalendarTimes <- WindowEnds
  AskedTimes = {0, 1, 2, 3, 4, 5, 7, 10, 12, 13, 14, 15, 16, 20}
  FieldNames = {0, 1}
  NoLimit = NoLimit
  \* Emission
  Detectors <- EveryDetector
  BucketPoints <- SomeBuckets
  JobCalendars <- OneCalendar
  AutoThreshold <- AutoOn
  Sensitive = TRUE
  Judge <- Surprise
  Entropy <- Variety
  RareScore <- Rarity
  Quantile <- MiddleOf
  SpotLevel <- BelowMax
  DefaultThreshold = 50
  PenaltyStep = 25
  PenaltyMax = 40
  AdaptiveWindow = 3
  AdaptiveMin = 2
  RareWarmup = 3
  RareMaxBuckets = 2
  MaxRareValues = 2
  FullScale = 4
  MaxClosed = 4
  MaxMarks = 1
  MaxPeeks = 1
  \* Categorizer
  Lines <- SomeLines
  VarTokens = {"n1"}
  Wild = "*"
  MaxDepth = 1
  MaxChild = 1
  MaxClusters = 4
  Similar = 40
  CatWarmup = 1
  CatMinNew = 1
  CatRareMax = 1
  CatMaxExamples = 2
  ScoreNew = 90
  ScoreRareCategory = 65
  CatThreshold = 50
  SpikeScore <- Jump
  LastLineTime = 1
  MaxLines = 4
  MaxRestores = 1
  MaxToggles = 1
  \* Tail
  TailValues = {0, 4, 8, 20}
  NotFinite = NotFinite
  NoFit = NoFit
  FitOf <- LargestPeak
  QuantileAt <- AboveLargest
  SurvivalAt <- Receding
  TailLevel <- HalfLevel
  MinPeaks = 1
  MaxPeaks = 2
  RefitEvery = 2
  Depth = 2
  Calibrated <- SomeInitial
  MaxTail = 4
  \* Seasonal
  SeasonMinHistory = 6
  SeasonRedetect = 2
  SeasonMaxHistory = 9
  FirstBucket <- BeforeEpoch
  Gaps = {1, 2}
  FoundPeriods <- SomePeriods
  MaxSeason = 10
INVARIANTS
  LearnedOnce
  NothingLost
  WatchStands
  FiresAsPromised
  AlarmsStand
  MeasuresTell
  ErrorsControlled
  RankingsTell
  BaselinesTell
  JobsStand
  LearningUndisturbed
  RecordsTell
  TemplatesStand
CHECK_DEADLOCK FALSE
