SPECIFICATION FairSpec
CONSTANTS
  Slots = {m1, m2}
  Ids = {a, b}
  NoId = none
  TUN_YIELD = 2
INVARIANTS
  TypeOK
  EventFindsSocket
  OneLiveSession
  RestoresSoleId
PROPERTIES
  ImplementsLife
  StoppedIsFreed
