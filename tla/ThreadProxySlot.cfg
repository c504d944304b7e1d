CONSTANTS
  c1 = c1
  c2 = c2
  Past = noconn
  Workers <- MCWorkers
  EntryLen <- MCEntryLen
  OldLen = 1
  MaxFd = 6
SPECIFICATION Spec
INVARIANTS
  HandlesItsConnection
CHECK_DEADLOCK FALSE
