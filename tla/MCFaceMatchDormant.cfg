SPECIFICATION Spec
CONSTANTS
  N = 2
  DormantThr = 2
  SplitThr = 0
  EnableThr = 1
  SkipThr = 3
  Overlaps <- MCOverlaps
  MaxFaces = 2
PROPERTY DroppedOnlyWhenDue
