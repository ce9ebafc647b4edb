SPECIFICATION Spec
CONSTANTS
  Sessions = {s1, s2}
  Logics = {l1}
  NoSession = NoSession
  SYSTEM_MAXIMUM_SESSION_COUNT = 3
  MaxSessionCount = 2
  ClientPackets = 0
  LogicPackets = 2
  MaxPackets <- MCMaxPackets
SYMMETRY MCSymmetry
INVARIANTS
  RelayedInOrder
  LogicServerInformed
CHECK_DEADLOCK FALSE
