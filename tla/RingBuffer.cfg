SPECIFICATION RingFairSpec
CONSTANTS
  Threads = {t1, t2, t3}
  Size = 2
  MaxPush = 3
  MaxPop = 2
INVARIANTS
  PopReturnsItsTicket
  DataRaceFree
PROPERTIES
  EveryCallReturns
CHECK_DEADLOCK FALSE
