SPECIFICATION FairSpec
CONSTANTS
  NumBuffers = 2
  MaxPreviews = 2
INVARIANTS
  OffClosesCamera
CHECK_DEADLOCK FALSE
