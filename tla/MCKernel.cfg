CONSTANTS
  Threads = {"servo", "main", "gui", "idle"}
  Idle = "idle"
  Prio <- MCPrio
  Slice <- MCSlice
  Periods <- MCPeriods
  Takers = {"main"}
  Sleeps = {1, 2}
  TickMod = 8
  SemMax = 1
SPECIFICATION FairSpec
INVARIANTS NoThreadLost HighestRuns SleepsExactly TimerRanMeanwhile EqualsTakeTurns
PROPERTY TimersFire
