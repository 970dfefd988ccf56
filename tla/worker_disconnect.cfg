\* The standalone server and a client that goes away.
CONSTANTS
  r1 = r1
  r2 = r2
  r3 = r3
  t1 = t1
  t2 = t2
  Request <- MCRequest
  Task <- MCTask
  TaskOf <- MCTaskOf
  OrderKind <- MCOrderKind
  Drain = {"http"}
  InitCap = 1
  CapUpdate = {0, 1, 2}
  Deployment = "standalone"
  DrainTimer = FALSE
  MaxL0Events = 1
SPECIFICATION Spec
INVARIANT OutcomeIsRecorded
CHECK_DEADLOCK FALSE
