SPECIFICATION FairSpec
CONSTANTS
  Sessions = {s1}
  Logics = {l1, l2}
  NoSession = NoSession
  SYSTEM_MAXIMUM_SESSION_COUNT = 2
  MaxSessionCount = 1
  ClientPackets = 0
  LogicPackets = 1
  MaxPackets <- MCMaxPackets
INVARIANTS
  NoCrashBeforeLogicLost
PROPERTIES
  StartsUp
  LeaversReleased
  ImplementsSwitchboard
CHECK_DEADLOCK FALSE
