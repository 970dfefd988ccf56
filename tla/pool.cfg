SPECIFICATION Spec
CONSTANTS
  w1 = w1
  w2 = w2
  p1 = p1
  p2 = p2
  p3 = p3
  WorkerId <- TwoIds
  Pid <- ThreePids
  BasePort = 1
  MaxPort = 2
  Started <- OneStarted
  StartPort <- Ports
  StartPid <- Pids
  MaxFailures = 1
  MaxUnhealthy = 2
  MaxLines = 1
  SpawnMayFail = FALSE
VIEW View
INVARIANTS
  TypeOK
  PortsUnique
  OneProcessPerPort
  NoOrphans
  DownMeansDead
