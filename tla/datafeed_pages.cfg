SPECIFICATION FeedSpec
CONSTANTS
  Span = 2
  ChunkBuckets = 1
  PageSize = 1
  MaxPages = 4
  LastDocTime = 4
  AskedWindows <- FetchWindows
  Terms = {0, 1}
  Readings = {1}
  MaxDocs = 2
INVARIANTS
  AllPagesRead
CHECK_DEADLOCK FALSE
