SPECIFICATION Spec
CONSTANTS
  Threads = {t1, t2}
  Frames = 3
  Length = 2
  Escaped <- LastEscaped
  Size = 3
  Fifo = 2
  MaxLost = 4
  MaxTorn = 0
INVARIANTS NeverWedged LeftAtTheWrap NothingElseLost Resync
PROPERTY ReceptionResumes
CHECK_DEADLOCK FALSE
