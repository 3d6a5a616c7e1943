SPECIFICATION FairSpec
CONSTANTS
  Streams = {s1, s2}
  s1 = s1
  s2 = s2
  MaxPlayers = 2
  MaxEvents = 3
  QueueCap = 2
  ResyncThreshold = 1
INVARIANTS
  TypeOK
  BuffersAccounted
  ListenerIsListed
  EmptyAfterJoin
  OffIsQuiet
PROPERTIES
  SwitchOffReturns
