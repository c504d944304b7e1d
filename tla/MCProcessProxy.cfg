CONSTANTS
  c1 = c1
  c2 = c2
  Past = root
  Workers <- MCWorkers
  EntryLen <- MCEntryLen
  OldLen = 1
  MaxFd = 5
SPECIFICATION FairSpec
INVARIANTS
  ClientHeldByItsOwn
PROPERTIES
  LogStaysWhole
  AcceptedIsClosed
  BackToAccept
CHECK_DEADLOCK FALSE
