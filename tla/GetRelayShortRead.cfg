CONSTANTS
  BufSize = 2
  Responses <- MCResponses
  GarbageLens <- MCGarbageLens
SPECIFICATION Spec
INVARIANT
  RelaysWholeResponse
CHECK_DEADLOCK FALSE
