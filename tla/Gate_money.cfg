SPECIFICATION Spec
CONSTANTS
  Space = 1088
  Hour = 60
  PlanSeconds = 10
  Supply = 4
  MinGas = 1
  Targets = {0, 16, 64}
  Prices = {0, 3, 6}
  Gases = {0, 1}
  Sales = {0, 10, 40}
  Fees = {5, 100}
  Balances = {7, 8}
  Rates = {0, 2, 5}
  Speeds = {0, 1, 2, 3}
  AssumedGhs = 2
  MaxDph = 2
  MaxPrice = 3
  MinProfit = 5
  MinRemaining = 2
  TargetMints = 2
  Reserve = 2
INVARIANTS
  RefusedForCause
  PassedPays
  VerdictDefined
  WalletLasts
CHECK_DEADLOCK FALSE
