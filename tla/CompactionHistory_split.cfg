SPECIFICATION Spec
CONSTANTS
  BatchSizes = {1, 2}
  Operations = {"auto"}
  AutoKeepRecent = 3
  ReactiveKeepRecent = 2
  MicroKeepRecent = 2
  CollapseKeepRecent = 2
  MAX_RECOVERY_ATTEMPTS = 3
  MaxLength = 8
  MaxCalls = 5
INVARIANTS
  PairsAreNotSplit
