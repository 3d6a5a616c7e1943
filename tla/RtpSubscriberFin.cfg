SPECIFICATION Spec
CONSTANTS
  Packets <- MCPackets
  Events = {e1, e2, e3}
  NoEvent = NoEvent
  QueueSize = 2
  FrameTimeout = 1
PROPERTY FinReleases
