SPECIFICATION FairSpec
CONSTANTS
  Supply = 2
  MaxAnchor = 0
  MaxTarget = 1
  Prices <- PricesDef
  Reserves <- ReservesDef
  Funds = 3
  MaxPrice = 1
  MaxSpend = 2
  Target = 2
  MaxReverts = 2
  Modes <- LiveAndDry
  MaxSessions = 2
  MaxJobs = 2
  MaxTx = 3
INVARIANTS
  Inv
  InFlightIsMarked
  BudgetHolds
  Solvent
  NoCatForgotten
  TargetNeverOvershot
  RevertsBounded
PROPERTIES
  StopIsFinal
  DryRunTouchesNothing
  SessionEnds
  KeepsIntentLog
CHECK_DEADLOCK FALSE
