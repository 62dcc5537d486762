SPECIFICATION Spec
CONSTANTS
  h1 = h1
  h2 = h2
  c1 = c1
  NumDetectors = 3
  Id <- JobIds
  CountFamily <- JobCounts
  Buckets <- JobBuckets
  MaxSeries = 3
  KnownCap = 2
  MaxBucket = 3
  MaxRestarts = 1
INVARIANTS
  CacheBounded
  KnownResident
PROPERTIES
  EvictsOldest
CHECK_DEADLOCK FALSE
