SPECIFICATION SideBySide
CONSTANTS
  Workers = {"w1", "w2"}
  Clients = {"c1", "c2"}
  Priorities = {0, 1}
  Nobody = "nobody"
  MaxRequests = 2
  Tools = {"Bash"}
  MaxDenials = 2
  MaxStarts = 2
  Elicits = TRUE
  PhoneClients = {c1, c2}
  Main = main
  NoThread = nobody
  MaxTries = 2
  MaxPasses = 2
  MaxModels = 2
  MaxAgents = 2
  MaxTasks = 2
  NoTask = NoTask
  NoOne = NoOne
  Engines = {e1, e2}
  MaxRuns = 3
INVARIANTS
  QueueIsInOrder
  NobodyStuckGenerating
  DeniedCallsWait
  KeyboardIsShared
  NoFrameInText
  SendsReachOpenSockets
  AgentsKeepTheirClient
  ResultsAreOwn
  NeverTerminates
PROPERTIES
  WorkersWakeUp
CHECK_DEADLOCK FALSE
