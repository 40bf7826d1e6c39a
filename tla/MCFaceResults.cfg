SPECIFICATION Spec
CONSTANTS
  N = 2
  Positions = {p1, p2}
  Rect0 = Rect0
  Junk = Junk
  MaxFrames = 3
INVARIANTS TypeOK LandmarksBelong FacesOfTheFrame
