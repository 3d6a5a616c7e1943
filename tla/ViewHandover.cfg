SPECIFICATION FairSpec
CONSTANTS
  Streams = {s1, s2}
  NumViews = 1
  MaxPlayers = 2
  MaxWakeUps = 1
  None = None
CHECK_DEADLOCK FALSE
PROPERTY HandoverIsShown
