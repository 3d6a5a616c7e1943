SPECIFICATION FairSpec
CONSTANTS
  NumBuffers = 2
  MaxPreviews = 2
INVARIANTS
  TypeOK
  FramesMeetTheirEncoder
  RingConserved
  OfferHasRoom
PROPERTIES
  QueuedFrameIsTaken
  ReleasedEncoderEnds
CHECK_DEADLOCK FALSE
