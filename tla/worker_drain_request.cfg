\* The standalone server asked to drain.
CONSTANTS
  r1 = r1
  r2 = r2
  r3 = r3
  t1 = t1
  t2 = t2
  Request <- MCRequest
  Task <- MCTask
  TaskOf <- MCTaskOf
  OrderKind <- MCOrderKind
  Drain = {"http"}
  InitCap = 2
  CapUpdate = {0, 1, 2}
  Deployment = "standalone"
  DrainTimer = FALSE
  MaxL0Events = 1
SPECIFICATION FairSpec
PROPERTY NoTaskAfterDrainRequest
CHECK_DEADLOCK FALSE
