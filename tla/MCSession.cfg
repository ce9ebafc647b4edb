SPECIFICATION FairSpec
CONSTANTS
  Threads = {t1, t2, t3}
  NoThread = NoThread
  MaxSends = 3
INVARIANTS
  SendEventExclusive
  NoEmptyWSASend
  PendingIoHoldsSession
  NoReferenceCycle
  NoLostWakeup
  ReceiveChain
  NoCrash
PROPERTIES
  ReleasedLast
  ImplementsChannel
  SendProgress
  DisconnectCompletes
CHECK_DEADLOCK FALSE
