SPECIFICATION FairSpec
CONSTANTS
  Streams = {s1, s2, s3}
  NumViews = 1
  MaxPlayers = 3
  MaxWakeUps = 1
  None = None
CHECK_DEADLOCK FALSE
PROPERTY ReleasedPlayerLeaves
PROPERTY SwitchOffReturns
PROPERTY RefinesPool
