\* Up to three iterations of each test, timed and counted.
SPECIFICATION LiveSpec

CONSTANTS
  TimedTests = {"TCP_STREAM", "TCP_MAERTS", "TCP_RR", "UDP_STREAM", "UDP_RR", "TCP_CRR", "TCP_CC"}
  CountedTests = {"TCP_STREAM", "TCP_MAERTS", "TCP_RR", "UDP_RR", "TCP_CRR", "TCP_CC", "REM_CPU"}
  MaxIterations = 3
  Limit = 5
  Window = 3
  MaxCount = 6
  Faults = {"client", "server", "host"}

INVARIANTS
  TypeOK
  InStep
  CountsAgree
  AlarmsOff
  NoFalseFailure
PROPERTIES
  ClientEnds
  ServerEnds

\* A run ends, or hangs.
CHECK_DEADLOCK FALSE
