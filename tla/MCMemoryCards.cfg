SPECIFICATION Spec
CONSTANTS
  Days = 2
  t1 = t1
  t2 = t2
  Turn <- MCTurn
  DayOf <- MCDayOf
  None = None
  MaxEdits = 1
  MaxTroubles = 2
INVARIANTS
  CoveredIsTold
  WeekReadsAsItsDays
  TimerTellsWhatIsDue
PROPERTIES
  EverythingIsTold
CHECK_DEADLOCK FALSE
