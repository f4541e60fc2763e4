CONSTANTS
  Window = 3
  Fifo = 2
SPECIFICATION FairBootSpec
INVARIANTS UsesExist NothingUndone
PROPERTY Boots
\* A failed assertion stops the program.
CHECK_DEADLOCK FALSE
