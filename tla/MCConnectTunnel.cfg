CONSTANTS
  BufSize = 1
  Room = 2
  MaxSend = 3
  IntHalf = 3
SPECIFICATION FairSpec
INVARIANTS
  PassesOnWhatItReads
PROPERTIES
  TimesOutOnlyWhenIdle
  OpenTunnelServed
CHECK_DEADLOCK FALSE
