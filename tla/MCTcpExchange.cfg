CONSTANTS
  MsgLen = 2
  PointerLen = 1
  FileLen = 7
  BufLen = 3
  Room = 2
  Suites = {"tcp", "channels", "file", "servers"}
  Children = 3
  Messages = 4
  Requests = 2
  ChannelRoom = 3
  Contents <- SomeContents
  Arguments <- SomeArguments
  IntHalf = 4
  ServedLen <- SomeServedLen
  Limits = {1, 2}
SPECIFICATION MCSpec
INVARIANTS
  CountsOccurrences
  NothingLost
  ChannelsLoseNothing
  PrintsOwnMessage
PROPERTIES
  ExchangesEnd
  ProcessesEnd
  FailsOnlyWhenBusy
  IdleClientDelaysNobody
CHECK_DEADLOCK FALSE
