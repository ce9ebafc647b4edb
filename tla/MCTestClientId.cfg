SPECIFICATION Spec
CONSTANTS
  Sessions = {s1, s2}
  SYSTEM_MAXIMUM_SESSION_COUNT = 3
  MaxSessionCount = 2
  NoSession = NoSession
  Rounds = 2
INVARIANTS
  OwnSenderId
CHECK_DEADLOCK FALSE
