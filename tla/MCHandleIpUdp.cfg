SPECIFICATION Spec
CONSTANTS
  Uids = {0, 1}
  UID_MAX_AGE = 0
  MaxSockets = 1
  MaxCache = 1
  Links <- MCLinks
INVARIANTS
  DatagramsFollowRules
