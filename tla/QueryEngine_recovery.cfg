SPECIFICATION FairSpec
CONSTANTS
  Tools = {"Edit"}
  AgentTool = "Agent"
  McpTools = {}
  Registered = {"Edit"}
  ConcurrencySafe = {}
  AllowedTools = {}
  AllowSubagents = TRUE
  Refused = {}
  Inputs = {"i"}
  Texts = {}
  Locals = {TRUE, FALSE}
  Budgeted = TRUE
  maxTurns = 2
  CompactEvery = 2
  Contexts = {"low", "over95"}
  ApiErrors = {"too_long", "overloaded", "other"}
  StopReasons = {"end_turn", "max_tokens"}
  DiskOpens = {TRUE}
  TextFormats = {FALSE}
  MAX_COMPACTION_FAILURES = 1
  MAX_RECOVERY_ATTEMPTS = 1
  Similar = {}
  NoText = "none"
  kRepeatWarnThreshold = 1
  kRepeatBreakThreshold = 2
  kSameToolWarnThreshold = 1
  kSameToolBreakThreshold = 2
  AutoKeepRecent = 1
  ReactiveKeepRecent = 1
  MicroKeepRecent = 1
  CollapseKeepRecent = 1
  MaxPrompts = 2
  MaxCrashes = 1
  MaxBatch = 1
PROPERTIES
  FailuresAreBounded
