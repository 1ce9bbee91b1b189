SPECIFICATION TurnFairSpec
CONSTANTS
  Update <- ThreeUpdates
  Chat <- TwoChats
  ChatOf <- ThreeChatOf
  Envelope = {"e", "f"}
  EnvelopesOf <- ThreeEnvelopesOf
  ToolTurns = {1}
  MaxCrashes = 1
  MaxFaults = 0
  MaxPauses = 1
  MaxOps = 0
  MaxAsks = 1
  MaxTears = 0
  MaxAttempts = 1
PROPERTIES EveryUpdateSettles
\* Quiescence: every update settled, the bounds used up.
CHECK_DEADLOCK FALSE
