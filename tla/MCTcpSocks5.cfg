SPECIFICATION FairSpec
CONSTANTS
  Half = 7
  WrapWindow = 2
  Header = 1
  Packets <- MCPackets
  LocalISNs <- MCLocalISNs
  Rooms = {0, 3}
  MSS = 1
  MaxReceived = 1
  TUN_YIELD = 1
  UseSocks5 = TRUE
  Lengths = {1}
  Windows = {4}
  AckSpan = 2
  DataSpan = 1
  SynLengths = {0}
INVARIANT
  ServerReachedFirst
PROPERTY
  FinishedIsFreed
