SPECIFICATION Spec
CONSTANTS
  r1 = r1
  r2 = r2
  r3 = r3
  r4 = r4
  r5 = r5
  Requests = {r1, r2, r3}
  Receivers = {t1}
  Events = {e1}
  Forgetful = {}
  Blocks = {b1, b2, b3, b4, b5}
  QueueLen = 1
  Handler <- LiveHandler
  Free = Free
  None = None
PROPERTIES ImplementsServer AllAnswered
