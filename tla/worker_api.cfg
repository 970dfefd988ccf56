CONSTANTS
  e = e
  t1 = t1
  t2 = t2
  h1 = h1
  h2 = h2
  worker = worker
  Task <- MCTask
  EmptyId = e
  Hash <- MCHash
  NoHash = NoHash
  Capacities = {0, 2}
  MaxEvents = 4
  ClockSkew = 1
  WorkerId = worker
  Requests <- MCRequests
  NoAuth = NoAuth
  NoLimit = NoLimit
  NotSet = NotSet
  Settings = {"cap"}
  Deployments <- MCDeployments
  Times = {0, 2}
SPECIFICATION Spec
VIEW View
INVARIANTS
  TypeOK
  StampsOrderEvents
  LogIsLatestPart
  StoreBounded
  HashesAgreeUnlessRerun
  StatusCodesAgree
PROPERTIES
  OldestGoesFirst
  ReplayJudgesLatestRun
