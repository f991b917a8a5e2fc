SPECIFICATION Spec
CONSTANTS
  Half = 7
  WrapWindow = 2
  Header = 1
  Packets <- MCPackets
  LocalISNs <- MCLocalISNs
  Rooms = {0, 3}
  MSS = 2
  MaxReceived = 2
  TUN_YIELD = 2
  UseSocks5 = FALSE
  Lengths = {1, 2}
  Windows = {0, 3}
  AckSpan = 4
  DataSpan = 2
  SynLengths = {0}
INVARIANTS
  TypeOK
  SocketMatchesState
  EventFindsSocket
  AckedIsForwarded
  GivenOnce
  FinComesLast
  QueueSorted
  NothingAfterEnd
  NothingLost
PROPERTIES
  ImplementsLife
  NeverBackwards
  DataFitsWindow
