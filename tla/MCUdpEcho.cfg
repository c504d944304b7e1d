CONSTANTS
  c1 = c1
  c2 = c2
  Clients <- MCClients
  N = 3
  Room = 2
SPECIFICATION FairSpec
INVARIANTS
  LagsByTimeouts
PROPERTIES
  PrintsOwnLinesInOrder
  TimedClientsEnd
CHECK_DEADLOCK FALSE
