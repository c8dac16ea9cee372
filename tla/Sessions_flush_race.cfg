SPECIFICATION ClosingSpec
CONSTANTS
  SessionIds = {"s1"}
  ForkIds = {}
  MaxMessages = 3
INVARIANTS
  WrittenOnce
