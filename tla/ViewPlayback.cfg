SPECIFICATION Spec
CONSTANTS
  Streams = {s1, s2, s3, s4}
  NumViews = 2
  MaxPlayers = 4
  MaxWakeUps = 1
  None = None
CHECK_DEADLOCK FALSE
INVARIANT TypeOK
INVARIANT ViewsConserved
INVARIANT TableMatchesScheduler
INVARIANT LivePlayerHears
INVARIANT OffIsQuiet
INVARIANT RunningIsConfigured
SYMMETRY Symmetry
