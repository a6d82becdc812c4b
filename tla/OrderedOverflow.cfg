SPECIFICATION FairSpec
CONSTANTS
  SeqMod = 12
  Window = 3
  StartSeq = 0
  Senders = {"Session"}
  MaxSend = 4
  MaxOverflow = 1
  Lifetime = 3
PROPERTIES
  ReliablePacketArrives
CHECK_DEADLOCK FALSE
