CONSTANTS
  m1 = m1
  m2 = m2
  r1 = r1
  r2 = r2
  NoMsg = NoMsg
  Msg <- MCMsg
  Receivers <- MCReceivers
  Size = 3
SPECIFICATION FairSpec
INVARIANT NoLostWakeup
PROPERTIES ImplementsFifo FullDrains
