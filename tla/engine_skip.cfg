SPECIFICATION SkipSpec
CONSTANTS
  DayLen = 4
  HourLen = 1
  CalendarTimes = {0}
  AskedTimes = {0}
  FieldNames = {0, 1}
  NoLimit = NoLimit
  Detectors <- SeasonalDetector
  BucketPoints <- SomeBuckets
  JobCalendars <- OneCalendar
  AutoThreshold <- AutoOn
  Sensitive = TRUE
  Judge <- Surprise
  Entropy <- Variety
  RareScore <- Rarity
  Quantile <- MiddleOf
  SpotLevel <- BelowMax
  DefaultThreshold = 50
  PenaltyStep = 8
  PenaltyMax = 12
  AdaptiveWindow = 3
  AdaptiveMin = 2
  RareWarmup = 2
  RareMaxBuckets = 1
  MaxRareValues = 2
  FullScale = 4
  MaxClosed = 4
  MaxMarks = 2
  MaxPeeks = 1
INVARIANTS
  SkippedNotLearned
CHECK_DEADLOCK FALSE
