SPECIFICATION Spec
CONSTANTS
  p1 = p1
  p2 = p2
  m1 = m1
  m2 = m2
  Packet <- MCPacket
  Sources <- MCSources
  FullMode = TRUE
  Rebuilt = {2}
  Batch <- MCBatch
  None = None
  MaxTroubles = 1
INVARIANTS
  CompletedIsResolved
  HalfStoredIsRetried
PROPERTY EveryPacketSettles
CHECK_DEADLOCK FALSE
