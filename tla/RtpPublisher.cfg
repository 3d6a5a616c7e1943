SPECIFICATION Spec
CONSTANTS
  PayloadSize = 2
  NumEncoders = 2
  MaxFrames = 3
  MaxLength = 3
INVARIANT TypeOK
INVARIANT FragmentsTile
INVARIANT FramesWhole
PROPERTY EncoderOrdered
CHECK_DEADLOCK FALSE
