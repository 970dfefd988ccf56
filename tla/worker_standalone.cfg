\* The standalone server with FUNCTION_TIMEOUT_MS set: client disconnects, the
\* drain timer, a shutdown request and reconfiguration all happen.
CONSTANTS
  r1 = r1
  r2 = r2
  r3 = r3
  t1 = t1
  t2 = t2
  Request <- MCRequest
  Task <- MCTask
  TaskOf <- MCTaskOf
  OrderKind <- MCOrderKind
  Drain = {"drain"}
  InitCap = 1
  CapUpdate = {0, 1, 2}
  Deployment = "standalone"
  DrainTimer = TRUE
  MaxL0Events = 1
SPECIFICATION FairSpec
INVARIANTS
  TypeOK
  SlotsAreRuns
  RunsDoNotInterleave
  RunLogWellFormed
  StreamMatchesLog
  StayingClientSeesTheEnd
  DrainedLineIsHonest
PROPERTIES
  SlotPoolSpec
  DrainEnds
\* The process exits for good.
CHECK_DEADLOCK FALSE
