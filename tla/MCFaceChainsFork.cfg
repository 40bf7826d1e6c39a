SPECIFICATION Spec
CONSTANTS
  MaxFrames = 4
  MaxFaces = 2
INVARIANT LastTwoNodes
CHECK_DEADLOCK FALSE
