CONSTANTS
  BufSize = 2
  Responses <- MCResponses
  GarbageLens <- MCGarbageLens
SPECIFICATION FairSpec
INVARIANTS
  CountsWhatItDelivers
  ChunkedIsComplete
PROPERTIES
  RelayEnds
CHECK_DEADLOCK FALSE
