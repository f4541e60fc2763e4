CONSTANTS
  PACK_LEN = 4
  RxFifo = 2
  MaxBytes = 28
  MaxLost = 2
  LateBytes = 17
SPECIFICATION FairSpec
INVARIANTS TypeOK WholeFrames AtMostTwice MixedIsReparsed
PROPERTIES ScanFinds LatestFrameParsed
CHECK_DEADLOCK FALSE
