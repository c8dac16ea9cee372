SPECIFICATION Spec
CONSTANTS
  Tools = {"Edit", "Read"}
  AgentTool = "Agent"
  McpTools = {}
  Registered = {"Edit", "Read"}
  ConcurrencySafe = {"Read"}
  AllowedTools = {"Edit"}
  AllowSubagents = TRUE
  Refused = {}
  Inputs = {"i"}
  Texts = {"again"}
  Locals = {FALSE}
  Budgeted = FALSE
  maxTurns = 2
  CompactEvery = 3
  Contexts = {"low"}
  ApiErrors = {}
  StopReasons = {"end_turn"}
  DiskOpens = {TRUE}
  TextFormats = {FALSE}
  MAX_COMPACTION_FAILURES = 3
  MAX_RECOVERY_ATTEMPTS = 3
  Similar = {}
  NoText = "none"
  kRepeatWarnThreshold = 1
  kRepeatBreakThreshold = 2
  kSameToolWarnThreshold = 1
  kSameToolBreakThreshold = 2
  AutoKeepRecent = 10
  ReactiveKeepRecent = 5
  MicroKeepRecent = 10
  CollapseKeepRecent = 6
  MaxPrompts = 1
  MaxCrashes = 0
  MaxBatch = 2
INVARIANTS
  FilteredToolsNeverRun
