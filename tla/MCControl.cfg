CONSTANTS
  Driven = {1}
  Kp = 1
  Ki = 2
  Kd = 0
  MaxOut = 10
  ClampTo = 9
  RefreshBelow = 8
  Timeout = 2
  DMax = 1
  SpeedMax = 3
  Demands <- MCDemands
SPECIFICATION FairSpec
INVARIANTS WindupBounded StandsUntilRun
PROPERTY BlockedResets
