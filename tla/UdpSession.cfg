SPECIFICATION FairSpec
CONSTANTS
  TUN_YIELD = 2
  UDP_YIELD = 3
  MaxMoved = 6
INVARIANTS
  TypeOK
  EventFindsSocket
  UsageReportedOnce
PROPERTIES
  ImplementsLife
  FinishedIsFreed
