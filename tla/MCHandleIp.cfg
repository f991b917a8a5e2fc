SPECIFICATION Spec
CONSTANTS
  Uids = {0, 1}
  UID_MAX_AGE = 0
  MaxSockets = 2
  MaxCache = 2
  Links <- MCLinks
INVARIANTS
  TypeOK
  AnswerIsRecent
  SettledAnswerIsOwner
  NothingLeaks
