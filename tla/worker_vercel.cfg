\* The Vercel handler: a write to a client that left is lost without an error,
\* the function timeout is always set and nothing asks for a drain.
CONSTANTS
  r1 = r1
  r2 = r2
  r3 = r3
  t1 = t1
  t2 = t2
  Request <- MCRequest
  Task <- MCTask
  TaskOf <- MCTaskOf
  OrderKind <- MCOrderKind
  Drain = {}
  InitCap = 1
  CapUpdate = {0, 1, 2}
  Deployment = "vercel"
  DrainTimer = TRUE
  MaxL0Events = 1
SPECIFICATION FairSpec
INVARIANTS
  OutcomeIsRecorded
  DrainingAnnouncedOnce
PROPERTIES
  DrainingTakesNoTask
  EveryRunEnds
\* The instance stays in DRAINING and refuses everything from then on.
CHECK_DEADLOCK FALSE
