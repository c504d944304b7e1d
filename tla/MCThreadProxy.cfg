CONSTANTS
  c1 = c1
  c2 = c2
  Past = noconn
  Workers <- MCWorkers
  EntryLen <- MCEntryLen
  OldLen = 1
  MaxFd = 6
SPECIFICATION FairSpec
INVARIANTS
  OwnConnectionUnlessOverwritten
  OwnDescriptorsUnlessOverwritten
PROPERTIES
  LogStaysWhole
  AcceptedIsClosed
CHECK_DEADLOCK FALSE
