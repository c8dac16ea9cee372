SPECIFICATION Spec
CONSTANTS
  Tools = {"Edit", "Bash", "Agent", "Read"}
  AgentTool = "Agent"
  McpTools = {}
  Registered = {"Edit", "Bash", "Agent", "Read"}
  ConcurrencySafe = {"Read"}
  AllowedTools = {"Edit", "Bash", "Agent"}
  AllowSubagents = FALSE
  Refused = {"Bash"}
  Inputs = {"i"}
  Texts = {"again"}
  Locals = {FALSE}
  Budgeted = FALSE
  maxTurns = 1
  CompactEvery = 3
  Contexts = {"low"}
  ApiErrors = {}
  StopReasons = {"end_turn"}
  DiskOpens = {TRUE}
  TextFormats = {TRUE, FALSE}
  MAX_COMPACTION_FAILURES = 3
  MAX_RECOVERY_ATTEMPTS = 3
  Similar = {}
  NoText = "none"
  kRepeatWarnThreshold = 1
  kRepeatBreakThreshold = 2
  kSameToolWarnThreshold = 1
  kSameToolBreakThreshold = 2
  AutoKeepRecent = 10
  ReactiveKeepRecent = 5
  MicroKeepRecent = 10
  CollapseKeepRecent = 6
  MaxPrompts = 2
  MaxCrashes = 1
  MaxBatch = 2
INVARIANTS
  HistoryIsAnswered
  LateStartsAreFew
  UnsafeToolsAreGated
  CallsAreOnDisk
  TranscriptIsFaithful
