SPECIFICATION Spec
CONSTANTS
  Sessions = {s1, s2, s3}
  Logics = {l1}
  NoSession = NoSession
  SYSTEM_MAXIMUM_SESSION_COUNT = 2
  MaxSessionCount = 1
  ClientPackets = 1
  LogicPackets = 0
  MaxPackets <- MCMaxPackets
SYMMETRY MCSymmetry
INVARIANTS
  ManagerExact
  IdHandedOver
CHECK_DEADLOCK FALSE
