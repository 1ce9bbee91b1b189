SPECIFICATION Spec
CONSTANTS
  t1 = t1
  t2 = t2
  t3 = t3
  Turn <- MCTurn
  Weight <- MCWeight
  SoftMark = 1
  TargetMark = 1
  HardCap = 2
  RoundLimit = 3
  RawTail = 1
  BatchMax = 2
  SummaryLimit = 1
  FullMode = FALSE
  FlushRecords = 3
  NoTurn = NoTurn
  NoIndex = NoIndex
  NoProof = NoProof
  MaxTroubles = 1
INVARIANTS
  IndexIsTranscript
  OnlyTheArchiveForgets
  OnlyBrokenTurnsRepeat
  SessionResumes
PROPERTIES
  EveryTurnIsCommitted
CHECK_DEADLOCK FALSE
