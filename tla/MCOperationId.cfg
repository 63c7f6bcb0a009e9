SPECIFICATION IdSpec
CONSTANTS
  t1 = t1
  t2 = t2
  t3 = t3
  Threads = {t1, t2, t3}
  MaxId = 3
  MaxCalls = 9
  NoId = NoId
INVARIANTS IdTypeOK IdsUnique
SYMMETRY Symmetry
CHECK_DEADLOCK FALSE
