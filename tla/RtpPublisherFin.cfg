SPECIFICATION Spec
CONSTANTS
  PayloadSize = 2
  NumEncoders = 1
  MaxFrames = 1
  MaxLength = 3
PROPERTY FinIsLast
CHECK_DEADLOCK FALSE
