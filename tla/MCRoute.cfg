CONSTANTS
  MAX_N = 5
  FKeys = {1, 2, 3}
  HKeys = {1, 2}
  Garbage = Garbage
  PicNum = 3
  Ants = 2
  TotIter = 2
  dis <- MCdis
  ToDepot <- MCToDepot
  Full = 16
  Bearings <- Goals
  target_v = 10
  arm_cos <- MCcos
  arm_sin <- MCsin
SPECIFICATION MCSpec
INVARIANTS FOrdered LeastF ToursComplete ShortestKept SteersForGoal
\* ant() returns.
CHECK_DEADLOCK FALSE
