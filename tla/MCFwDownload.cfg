SPECIFICATION Spec
CONSTANTS
  f1 = f1
  f2 = f2
  Firmware = {f1, f2}
  ImageSize <- SmallImages
  OffsetSpan = 3
  MaxLoads = 2
  MaxFailures = 2
  None = None
INVARIANTS TypeOK FlashInOrder ReleaseIsLast
PROPERTIES ValidatedIsWhole LoadReported
CHECK_DEADLOCK FALSE
