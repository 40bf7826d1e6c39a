SPECIFICATION Spec
CONSTANTS
  N = 3
  FrameWaiters = {1}
  StatusWaiters = {2}
INVARIANT TypeOK HooksBeforeRun Quiescent NoThreadOutlivesObject
PROPERTY IsLibraryLife ParkedNeverResumes UnwindTerminates StopTerminatesOnceBegun
CHECK_DEADLOCK FALSE
