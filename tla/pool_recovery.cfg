SPECIFICATION FairEventSpec
CONSTANTS
  w1 = w1
  p1 = p1
  p2 = p2
  WorkerId <- MCWorkerId
  Pid <- MCPid
  BasePort = 1
  MaxPort = 1
  Started <- MCWorkerId
  StartPort <- MCStartPort
  StartPid <- MCStartPid
  MaxFailures = 2
  MaxUnhealthy = 2
  MaxLines = 1
  SpawnMayFail = TRUE
INVARIANT
  RestartBudgetKept
PROPERTIES
  CrashIsNoticed
  HungIsReplaced
  FailedIsRestarted
