\* Five ticks with every move of a small market, ticks without a price among
\* them, windows of five units that the ticks run through or skip.
SPECIFICATION Spec
CONSTANTS
  ReturnScale = 200
  VarianceFloor = 1
  MaxHistory = 4
  ExtractPrices = 3
  ExtractReturns = 2
  ShortTail = 2
  LongTail = 3
  RunScale = 8
  MaxPriors = 2
  KeptPriors = 1
  PriorWeight <- Weights
  Duration = 5
  LateWindow = 2
  MinPoints = 3
  MinReturns = 3
  ModelLoaded = TRUE
  ModelPrices = 5
  ModelOutputs = {300, 500, 700}
  Logit <- LogitTable
  InvLogit <- InvLogitTable
  Uncertainty = 9
  MinStake = 35
  MaxLoss = 5000
  Balances = {100, 10000}
  Prices = {0, 98, 99, 100, 102}
  Gaps = {1, 5}
  MaxTicks = 5
INVARIANTS
  IInv
  NoPutIsEntered
  DirectionIsBacked
CHECK_DEADLOCK FALSE
