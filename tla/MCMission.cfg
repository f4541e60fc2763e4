CONSTANTS
  PicNum = 3
  Repeats = 0
  MayLose = TRUE
  Layouts = {"A"}
SPECIFICATION SortedSpec
INVARIANTS StandsWhileHandling FlagsTaken SearchReset LostHalts
PROPERTIES ImplementsPromise MissionEnds
CHECK_DEADLOCK FALSE
