SPECIFICATION Spec
CONSTANTS
  plain = plain
  m1 = m1
  m2 = m2
  long = long
  Threads = {t1, t2}
  Messages = {plain, m1, m2, long}
  Chunks <- Sizes
  FlagBits = 2
  MayOverflow = TRUE
INVARIANTS
  ParsedIsWhole
  NothingLeftOver
SYMMETRY Symmetry
CHECK_DEADLOCK FALSE
