SPECIFICATION FairLockSpec
CONSTANTS
  r1 = r1
  r2 = r2
  sup = sup
  tool = tool
  Proc <- RootProcs
  Lock <- RootLocks
  Wants <- RootWants
INVARIANTS ExclusiveUnlessMislaid
PROPERTIES AttemptsEnd
\* Every process is gone or dead in the end.
CHECK_DEADLOCK FALSE
