SPECIFICATION Spec
CONSTANTS
  Conversations = {main}
  Lanes = {1, 2}
  NoRecord = none
  Ranges = {"whole", "lines"}
  MaxVersion = 2
  MaxStamp = 2
INVARIANTS
  ViewsStayMapped
CHECK_DEADLOCK FALSE
