SPECIFICATION Spec
CONSTANTS
  MaxFrames = 4
  MaxFaces = 2
INVARIANTS TypeOK WalkStaysInside TailsOfHeads
PROPERTY ChainsEnd
CHECK_DEADLOCK FALSE
