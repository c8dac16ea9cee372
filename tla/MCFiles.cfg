SPECIFICATION SideBySide
CONSTANTS
  SessionIds = {"s1", "f1"}
  ForkIds = {"f1"}
  MaxMessages = 4
  Tools = {"ToolSearch", "TodoWrite", "EnterPlanMode"}
  AlwaysLoad = {"ToolSearch"}
  ReadOnly = {"ToolSearch", "EnterPlanMode"}
  Deferring = {}
  Search = "ToolSearch"
  ServerTools = {"mcp"}
  SubTools = {{"TodoWrite"}}
  Models = {"a"}
  MaxPrompts = 2
  MaxResults = 2
  Batches <- SomeBatches
  TextCalls <- SomeTextCalls
  Texts = {"a", "b"}
  NoText = "none"
  Similar <- SimilarTexts
  kRepeatWarnThreshold = 1
  kRepeatBreakThreshold = 2
  kSameToolWarnThreshold = 2
  kSameToolBreakThreshold = 3
  MaxTurns = 5
  BatchSizes = {1, 2}
  Operations = {"auto", "reactive", "micro", "too_long", "reload"}
  AutoKeepRecent = 3
  ReactiveKeepRecent = 2
  MicroKeepRecent = 2
  CollapseKeepRecent = 2
  MAX_RECOVERY_ATTEMPTS = 3
  MaxLength = 7
  MaxCalls = 4
  Window = 1000
  CompactBuffer = 300
  SummaryChars = 600
  BlockingBuffer = 100
  SizesCollapseKeepRecent = 2
  SnipKeepRecent = 1
  SizesAutoKeepRecent = 2
  SizesReactiveKeepRecent = 2
  SizesMicroKeepRecent = 2
  CompactEvery = 2
  TextSizes = {1000}
  ResultSizes = {100, 3200}
  CacheHits = FALSE
  MaxBatch = 2
  SizesMaxLength = 4
  WireBatchSizes = {0, 1, 2}
  MediaCalls = {1}
  WireOperations = {"reload"}
  MaxHistory = 9
  MaxSecond = 2
  KeepLast = 2
  MaxSaid = 5
  Names = {"project_x", "user_x", "big_project_x"}
  PartOf <- Parts
  MinMessages = 2
  MaxVersion = 3
  MemoriesMaxMessages = 2
  Conversations = {main, sub}
  Lanes = {1}
  NoRecord = none
  Ranges = {"lines"}
  FileToolsMaxVersion = 1
  MaxStamp = 1
  Processes = {p1, p2}
  NoProcess = none
  Providers = {"keeps", "rotates", "plain"}
  MaxToken = 2
  Values = {"x", "y", "z"}
  BadValues = {"z"}
  NoValue = "none"
  MaxLines = 9
  LicenseProcesses = {"app", "cli"}
  Stores = {"registry", "file"}
  MaxActivations = 2
  MaxStarts = 3
  ExpertsThreads = {"t1", "t2"}
  Experts = {"e0", "e1", "e2"}
  Shared = {"e0"}
  MaxCache = 2
  NoOne = "none"
  RagThreads = {"t1", "t2"}
  MaxId = 4
  MaxChunks = 2
  RagNoOne = "none"
  Callers = {"main", "agent"}
  Contexts = {3, 4, 5, 10}
  MaxTokens = 3
  KeepFront = 2
  Reserve = 1
  BatchSize = 2
  Lengths = {1, 8}
INVARIANTS
  RepliesAreSaved
  RequestsAreFit
  OnlyRunawaysAreStopped
  RewritesAreSound
  RowsRoundTrip
  IndexDescribesFiles
  NoBlindWrites
  LoginIsKept
  ReportedIsKept
  CacheIsBounded
  VectorsFindTheirRows
  AnswersComeFromThePrompt
PROPERTIES
  JournalGrows
  ToolsStayOffered
  SavedIsUsed
CHECK_DEADLOCK FALSE
