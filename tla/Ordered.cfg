SPECIFICATION Spec
CONSTANTS
  SeqMod = 12
  Window = 3
  StartSeq = 7
  Senders = {"Session", "Client", "InternalClient"}
  MaxSend = 6
  MaxOverflow = 2
  Lifetime = 5
INVARIANTS
  AcceptedPacketIsSafe
  CacheAgreement
  KeptPacketIsRepeated
  KeptPacketIsAcceptable
PROPERTIES
  RefinesFifoDelivery
  CacheOnlyDrainsToDelivery
CHECK_DEADLOCK FALSE
