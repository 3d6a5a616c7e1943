SPECIFICATION FairSpec
CONSTANTS
  Packets <- MCPackets
  Events = {e1, e2, e3}
  NoEvent = NoEvent
  QueueSize = 2
  FrameTimeout = 1
INVARIANT TypeOK
INVARIANT BuffersAccounted
INVARIANT FragmentsCoherent
INVARIANT FramesCoherent
INVARIANT FramesInOrder
INVARIANT ReleasedIsQuiet
PROPERTY RefinesFrameStream
PROPERTY ReleaseStopsReader
