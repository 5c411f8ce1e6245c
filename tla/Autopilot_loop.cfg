SPECIFICATION LoopSpec
CONSTANTS
  Providers <- AllProviders
  ReplyMayBeLost = FALSE
  InterruptAt <- OutsideCall
  Attempts = 3
  MaxPasses = 3
  MaxFails = 2
INVARIANTS
  TypeOK
  NoSilentLeak
  RentalIsKnown
  StopFileHolds
  VainRentalsBounded
PROPERTIES
  WatchdogEndsRun
CHECK_DEADLOCK FALSE
