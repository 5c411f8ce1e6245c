SPECIFICATION LoopSpec
CONSTANTS
  Providers <- VastOnly
  ReplyMayBeLost = FALSE
  InterruptAt <- Never
  Attempts = 3
  MaxPasses = 4
  MaxFails = 3
INVARIANTS
  GateJustWaits
CHECK_DEADLOCK FALSE
