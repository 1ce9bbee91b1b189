SPECIFICATION StoreSpec
CONSTANTS
  c1 = c1
  c2 = c2
  e1 = e1
  e2 = e2
  p1 = p1
  packet = packet
  review = review
  Claim <- MCClaim
  Event <- MCEvent
  Projection <- MCProjection
  Refs <- MCRefs
  Support <- MCSupport
  Tx <- MCTx
  Review <- MCReview
  Extracted <- MCExtracted
  Doubtful <- MCDoubtful
  NoTx = NoTx
  NoRecord = NoRecord
  NoCache = NoCache
  MaxTime = 2
  MaxPatches = 2
  MaxBreaks = 1
INVARIANTS
  CacheIsResolution
  NothingRestsOnUnsupported
  CursorNeverLeads
CHECK_DEADLOCK FALSE
