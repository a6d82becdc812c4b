SPECIFICATION FairSpec
CONSTANTS
  SeqMod = 9
  Window = 3
  StartSeq = 5
  Senders = {"Session"}
  MaxSend = 6
  MaxOverflow = 0
  Lifetime = 3
PROPERTIES
  ReliablePacketArrives
  WindowDrains
CHECK_DEADLOCK FALSE
