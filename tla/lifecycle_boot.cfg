SPECIFICATION FairSpec
CONSTANTS
  a = a
  b = b
  c = c
  Worker <- Three
  Boot <- Three
  PoolCap = 2
  EventCap = 15
  MaxTalk = 0
  Faults = {}
PROPERTIES
  BootEnds
CHECK_DEADLOCK FALSE
