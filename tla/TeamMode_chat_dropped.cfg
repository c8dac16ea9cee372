SPECIFICATION TeamSpec
CONSTANTS
  Workers = {"w1", "w2"}
  Clients = {"uuid1", "uuid2", "socket1", "socket2"}
  Sockets = {"socket1", "socket2"}
  Priorities = {0}
  Nobody = "nobody"
  MaxRequests = 2
INVARIANTS
  RegisteredChatsAreQueued
