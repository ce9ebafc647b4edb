SPECIFICATION Spec
CONSTANTS
  Sessions = {s1, s2, s3}
  SYSTEM_MAXIMUM_SESSION_COUNT = 4
  MaxSessionCount = 2
  Workers = {w1, w2}
  Main = Main
  NoSession = NoSession
SYMMETRY MCSymmetry
INVARIANTS
  IdsStartAtOne
CHECK_DEADLOCK FALSE
