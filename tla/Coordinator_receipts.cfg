SPECIFICATION Spec
CONSTANTS
  Supply = 2
  MaxAnchor = 0
  MaxTarget = 2
  Prices <- PricesDef
  Reserves <- ReservesDef
  Funds = 4
  MaxPrice = 1
  MaxSpend = 3
  Target = 1
  MaxReverts = 2
  Modes <- LiveOnly
  MaxSessions = 1
  MaxJobs = 2
  MaxTx = 2
INVARIANTS
  ReceiptsListWhatMinted
CHECK_DEADLOCK FALSE
