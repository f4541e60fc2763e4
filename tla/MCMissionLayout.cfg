CONSTANTS
  PicNum = 3
  Repeats = 0
  MayLose = FALSE
  Layouts = {"X"}
SPECIFICATION SortedSpec
INVARIANT DeliveredRight
CHECK_DEADLOCK FALSE
