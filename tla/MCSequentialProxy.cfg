CONSTANTS
  c1 = c1
  c2 = c2
  c3 = c3
  Nobody = nobody
  Clients <- MCClients
  Requests <- MCRequests
  MaxFd = 5
SPECIFICATION FairSpec
INVARIANTS
  RewritesKeepAlive
  LogsEveryConnection
PROPERTIES
  AcceptedIsClosed
CHECK_DEADLOCK FALSE
