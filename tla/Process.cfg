SPECIFICATION FairSpec
CONSTANTS
  Receivers = {r1}
  Workers = {w1, w2}
  Logics = {l1}
  Receives = 1
  QueueCapacity = 1
  MaxKept = 1
INVARIANTS
  NoDeadlock
  EveryBufferComesBack
PROPERTIES
  StopEnds
CHECK_DEADLOCK FALSE
