SPECIFICATION FairSpec
CONSTANTS
  Slots = {s1, s2, s3}
  MaxSessions = 2
  Timeouts <- MCTimeouts
  KeepTimeout <- MCKeepTimeout
  EPOLL_TIMEOUT = 3
INVARIANTS
  TypeOK
  NeverOverdue
PROPERTIES
  IdleEnds
