SPECIFICATION FairSpec
CONSTANTS
  Streams = {s1}
  s1 = s1
  MaxPlayers = 1
  MaxEvents = 3
  QueueCap = 2
  ResyncThreshold = 1
PROPERTIES
  MarkEndsPlayer
