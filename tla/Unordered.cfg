SPECIFICATION Spec
CONSTANTS
  SeqMod = 16
  Window = 4
  StartSeq = 13
  Senders = {"Session", "Client", "InternalClient"}
  MaxSend = 7
  MaxOverflow = 2
  Lifetime = 5
  AcceptRange = 4
INVARIANTS
  MaskAgreement
PROPERTIES
  RefinesOnceDelivery
  OnlyNewer
CHECK_DEADLOCK FALSE
