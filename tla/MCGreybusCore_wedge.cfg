SPECIFICATION SafeSpec
CONSTANTS
  r1 = r1
  r2 = r2
  r3 = r3
  r4 = r4
  r5 = r5
  Requests = {r1, r2, r3, r4, r5}
  Receivers = {t1}
  Events = {}
  Forgetful = {}
  Blocks = {b1, b2, b3, b4}
  QueueLen = 3
  Handler <- PayloadHandler
  Free = Free
  None = None
SYMMETRY Symmetry
INVARIANT WorkerNeverWedged
CHECK_DEADLOCK FALSE
