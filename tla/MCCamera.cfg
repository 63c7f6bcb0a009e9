SPECIFICATION Spec
CONSTANTS
  NumBuffers = 2
  Pool = 5
  MaxTarget = 2
  Fragments = 2
INVARIANTS TypeOK QuietAfterFlush NeverStalls AtMostTarget
PROPERTIES RequestAnswered CaptureEnds
