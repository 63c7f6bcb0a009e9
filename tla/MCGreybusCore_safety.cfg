SPECIFICATION SafeSpec
CONSTANTS
  r1 = r1
  r2 = r2
  r3 = r3
  r4 = r4
  r5 = r5
  Requests = {r1, r2, r3, r4, r5}
  Receivers = {t1, t2}
  Events = {e1, e2}
  Forgetful = {e2}
  Blocks = {b1, b2, b3, b4}
  QueueLen = 2
  Handler <- MixedHandler
  Free = Free
  None = None
SYMMETRY Symmetry
INVARIANTS TypeOK OneOwner NoUseAfterFree OnlyKeptLeak
CHECK_DEADLOCK FALSE
