SPECIFICATION Spec
CONSTANTS
  a1 = a1
  a2 = a2
  a3 = a3
  a4 = a4
  tracker = tracker
  detector = detector
  Addr <- MCAddr
  Consumers = {tracker}
  NoAddr = NoAddr
  PoolDepth = 2
  HoldLimit = 1
  MaxThrows = 1
PROPERTY RemoveWaitEnds
CHECK_DEADLOCK FALSE
