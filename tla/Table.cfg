SPECIFICATION FairSpec
CONSTANTS
  c1 = c1
  a1 = a1
  a2 = a2
  null = null
  WorkerCount = 2
  Sessions = {s1, s2}
  Ids = {1, 2, 3}
  Addrs = {a1, a2}
  Clients = {c1}
  AddrsOf <- Roaming
  MayRetry = {c1}
  QueueCap = 1
  RemoveCap = 2
  AppDisconnects = TRUE
INVARIANTS
  TableAgreement
  NotedIsStillLate
PROPERTIES
  OnlyLateSessionsEnd
  LateSessionEnds
