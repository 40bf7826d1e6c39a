SPECIFICATION Spec
CONSTANTS
  N = 2
  KeepCountThr = 1
  DetectCount = 2
  MaxFaces = 2
PROPERTY WaitEnds
CHECK_DEADLOCK FALSE
