SPECIFICATION FairSpec
CONSTANTS
  a = a
  b = b
  c = c
  Worker <- Two
  Boot <- One
  PoolCap = 1
  EventCap = 3
  MaxTalk = 1
  Faults = {"spawn", "bind", "leave"}
INVARIANTS
  TypeOK
PROPERTIES
  BootEnds
  ShutdownEnds
  ShutdownStopsItsWorkers
CHECK_DEADLOCK FALSE
