SPECIFICATION Spec
CONSTANTS
  Window = 1000
  CompactBuffer = 300
  SummaryChars = 600
  BlockingBuffer = 100
  CollapseKeepRecent = 2
  SnipKeepRecent = 1
  AutoKeepRecent = 2
  ReactiveKeepRecent = 2
  MicroKeepRecent = 2
  CompactEvery = 2
  TextSizes = {1000}
  ResultSizes = {100, 3200}
  CacheHits = FALSE
  MaxLength = 4
  MaxBatch = 2
INVARIANTS
  OversizedIsShrunk
CHECK_DEADLOCK FALSE
