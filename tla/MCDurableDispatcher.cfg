SPECIFICATION Spec
CONSTANTS
  Update <- MCUpdate
  Chat <- MCChat
  ChatOf <- MCChatOf
  MaxAttempts = 1
  MaxCrashes = 2
  MaxFaults = 2
  MaxPauses = 2
  MaxOps = 1
INVARIANTS NoOvertaking
PROPERTIES OnlyOperatorRevives
\* Quiescence: every update settled, the bounds used up.
CHECK_DEADLOCK FALSE
