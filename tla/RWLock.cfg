SPECIFICATION FairSpec
CONSTANTS
  Threads = {t1, t2, t3}
  ReadLimit = 4
  WRITE = 8
INVARIANTS
  MutualExclusion
  CountAgreement
PROPERTIES
  SomebodyGetsIn
