SPECIFICATION Spec
CONSTANTS
  N = 2
  KeepCountThr = 1
  DetectCount = 2
  MaxFaces = 2
INVARIANTS TypeOK TimelyNeverError TimelyHandOver TimelyPut TimelySnapshot TimelyWait
PROPERTIES DetectionEnds NoticeRecurs 
CHECK_DEADLOCK FALSE
