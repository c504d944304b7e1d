CONSTANTS
  BufSize = 1
  Room = 2
  MaxSend = 2
  IntHalf = 2
SPECIFICATION FairSpec
PROPERTIES
  ClosedTunnelEnds
CHECK_DEADLOCK FALSE
