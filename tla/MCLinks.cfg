SPECIFICATION Spec
CONSTANTS
  Senders = {s1, s2}
  MaxConnections = 3
  MaxReceived = 2
  MaxSent = 2
  Writers = {w1, w2}
  Lengths <- SmallLengths
  PipeLen = 3
  MaxInits = 3
  MaxEvents = 2
INVARIANTS TypeOK MessagesIntact SvcReady
PROPERTIES LinkRecovers
CHECK_DEADLOCK FALSE
