CONSTANTS
  Rows = 2
  Cols = 2
  MaxFrames = 8
  MaxLate = 2
  RT_SEM_VALUE_MAX = 2
SPECIFICATION Spec
INVARIANTS BuffersConserved NewestShown FreshCopy WholeCopy
CHECK_DEADLOCK FALSE
