CONSTANTS
  MsgLen = 2
  PointerLen = 1
  FileLen = 7
  BufLen = 3
  Room = 2
  Suites = {"channels"}
  Children = 3
  Messages = 4
  Requests = 2
  ChannelRoom = 3
  Contents <- SomeContents
  Arguments <- SomeArguments
  IntHalf = 4
  ServedLen <- SomeServedLen
  Limits = {1, 2}
SPECIFICATION MCSpec
INVARIANTS
  RequestsAnswered
CHECK_DEADLOCK FALSE
