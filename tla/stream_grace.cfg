SPECIFICATION Spec
CONSTANTS
  Span = 2
  Grace = 3
  GapFill = TRUE
  MaxGapFill = 10
  BucketTimes = {0, 2, 4, 6, 8}
  MaxCalls = 6
INVARIANTS
  ReportedInOrder
PROPERTIES
  LedgerSpec
CHECK_DEADLOCK FALSE
