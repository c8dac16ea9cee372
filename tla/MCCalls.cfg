SPECIFICATION SideBySide
CONSTANTS
  Engines = {e1, e2}
  Slots = 2
  MaxAgents = 3
  MaxSubTasks = 2
  MaxRetries = 4
  CompatRetries = 1
  FallbackThreshold = 2
  KeepRecent = 2
  KeepTail = 1
  Budget = 3
  MaxResults = 4
  MaxCalls = 1
  McpCallers = {c1, c2}
  NoCaller = "none"
  Transport = "sse"
  MaxId = 4
  MaxConn = 2
  MaxVersion = 1
  Styles = {"posix", "windows", "popen"}
  MaxPiped = 1
  MaxOutput = 2
  Files = {1, 2, 3}
  Path <- Tree
  SearchLines <- Words
  Upper <- UpperCase
  Extensions <- KnownTypes
  Troubles <- SomeTroubles
  Calls <- SomeSearches
  SearchMaxResults = 2
  MaxFiles = 1
  MaxFileLines = 4
  PoolSize = 2
  Letters = {"a", "b"}
  Marks = {"m"}
  Blank = "_"
  Vocabularies <- SomeVocabularies
  MergeLists <- Trained
  MaxWord = 3
  MaxModel = 6
  MaxQuery = 1
  MaxText = 4
  LineKinds <- SomeLines
  StreamsMaxLines = 4
  MaxAgain = 1
  MaxAttempts = 2
INVARIANTS
  AnswerIsFinal
  CallsAreWhole
  SearchIsComplete
  ReadingIsExact
PROPERTIES
  QueuedAgentsStart
  ClearedStaysCleared
  EveryCallEnds
  ConnectionIsSound
  CallsEnd
CHECK_DEADLOCK FALSE
