SPECIFICATION Spec
CONSTANTS
  Span = 1
  Grace = 0
  GapFill = TRUE
  MaxGapFill = 4
  BucketTimes = {0, 1, 2, 3, 4, 5}
  MaxCalls = 6
INVARIANTS
  Conservation
  ReopenedOnlyByFlush
  GapsTold
  StreamMatchesBatch
CHECK_DEADLOCK FALSE
