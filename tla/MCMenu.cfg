CONSTANTS
  PARA_LEN = 2
  Values = 2
  MaxOffs = 2
  Blank = Blank
  Torn = Torn
SPECIFICATION Spec
INVARIANTS SaveSurvives GainsAsShown StartsOnce
