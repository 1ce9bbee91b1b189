SPECIFICATION FairSpec
CONSTANTS
  Absent = Absent
  MayCreate = TRUE
  MaxUpdates = 2
  Backup = {b1, b2}
  MaxSessions = 2
  MaxStamps = 3
  MaxTroubles = 2
  MaxLosses = 1
INVARIANTS CompletedIsBackup RunsWhole
PROPERTIES RestoreEnds
\* The bounds are used up.
CHECK_DEADLOCK FALSE
