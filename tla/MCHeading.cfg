CONSTANTS
  Full = 24
  MaxRate = 4
  Turns <- MCTurns
SPECIFICATION FairHeadingSpec
PROPERTY LooksAheadAgain
