SPECIFICATION Spec
CONSTANTS
  N = 3
  FrameWaiters = {1}
  StatusWaiters = {2}
PROPERTY StopTerminates
CHECK_DEADLOCK FALSE
