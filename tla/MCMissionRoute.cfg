CONSTANTS
  PicNum = 3
  Repeats = 0
  MayLose = FALSE
  Layouts = {"A"}
SPECIFICATION Spec
INVARIANT RouteCoversPictures
CHECK_DEADLOCK FALSE
