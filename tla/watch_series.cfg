SPECIFICATION Spec
CONSTANTS
  BucketTimes = {0, 1, 2}
  MaxCalls = 4
  Series = {s1, s2}
  MaxDocs = 1
  MaxDelay = 0
  Lookback = 2
  Dedup = 2
  MaxCrashes = 0
INVARIANTS
  EverySeriesScored
CHECK_DEADLOCK FALSE
