SPECIFICATION Spec
CONSTANTS
  a = a
  b = b
  c = c
  Worker <- Two
  Boot <- One
  PoolCap = 2
  EventCap = 10
  MaxTalk = 0
  Faults = {}
INVARIANTS
  NoWorkerOutlivesSupervisor
CHECK_DEADLOCK FALSE
