SPECIFICATION FairSpec
CONSTANTS
  Slot = {c1, c2, c3}
  NoChild = NoChild
  HeartbeatEvery = 1
  MonitorEvery = 1
  HeartbeatStale = 3
  StaleConfirm = 2
  ReadyTimeout = 3
  ShutdownGrace = 1
  RestartWindow = 6
  MaxRestarts = 2
  RestartMax = 1
  Sleeps <- SomeSleeps
  MaxFaults = 2
  AlwaysSlow = FALSE
PROPERTIES Recovers StopEnds OrphansEnd
\* The supervisor ends.
CHECK_DEADLOCK FALSE
