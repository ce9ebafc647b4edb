SPECIFICATION FairSpec
CONSTANTS
  Sessions = {s1, s2, s3}
  SYSTEM_MAXIMUM_SESSION_COUNT = 3
  MaxSessionCount = 2
  Workers = {w1, w2}
  Main = Main
  NoSession = NoSession
INVARIANTS
  AcceptEventExclusive
  NoCrash
  CapacityRespected
  IdsUnique
PROPERTIES
  ReusedUntilConnected
  AcceptResumes
CHECK_DEADLOCK FALSE
