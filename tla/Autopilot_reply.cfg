SPECIFICATION LoopSpec
CONSTANTS
  Providers <- VastOnly
  ReplyMayBeLost = TRUE
  InterruptAt <- Never
  Attempts = 3
  MaxPasses = 1
  MaxFails = 1
INVARIANTS
  NoSilentLeak
CHECK_DEADLOCK FALSE
