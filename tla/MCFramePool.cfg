SPECIFICATION Spec
CONSTANTS
  a1 = a1
  a2 = a2
  a3 = a3
  a4 = a4
  tracker = tracker
  detector = detector
  Addr <- MCAddr
  Consumers <- MCConsumers
  NoAddr = NoAddr
  PoolDepth = 2
  HoldLimit = 3
  MaxThrows = 1
INVARIANTS TypeOK RefCountExact Fresh PoolBounded AbortsOnlyUnfed WaitsOnlyForSlow
PROPERTIES ManagerProceeds IsFrameStore
CHECK_DEADLOCK FALSE
