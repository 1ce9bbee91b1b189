SPECIFICATION TurnSpec
CONSTANTS
  Update <- OneUpdate
  Chat <- OneChat
  ChatOf <- OneChatOf
  Envelope = {"e", "f"}
  EnvelopesOf <- ImageEnvelopesOf
  ToolTurns = {1}
  MaxCrashes = 2
  MaxFaults = 1
  MaxPauses = 1
  MaxOps = 2
  MaxAsks = 3
  MaxTears = 1
  MaxAttempts = 2
INVARIANTS AtMostOnce NoReinferenceAfterLoss ShownIsRemembered
PROPERTIES KeepsPromise
\* Quiescence: every update settled, the bounds used up.
CHECK_DEADLOCK FALSE
