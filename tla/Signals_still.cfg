\* No model, and a market of two prices, which may not move at all.
SPECIFICATION Spec
CONSTANTS
  ReturnScale = 200
  VarianceFloor = 1
  MaxHistory = 5
  ExtractPrices = 3
  ExtractReturns = 2
  ShortTail = 2
  LongTail = 3
  RunScale = 3
  MaxPriors = 2
  KeptPriors = 1
  PriorWeight <- Weights
  Duration = 5
  LateWindow = 2
  MinPoints = 4
  MinReturns = 3
  ModelLoaded = FALSE
  ModelPrices = 6
  ModelOutputs = {300, 500, 700}
  Logit <- LogitTable
  InvLogit <- InvLogitTable
  Uncertainty = 9
  MinStake = 35
  MaxLoss = 5000
  Balances = {100, 10000}
  Prices = {100, 101}
  Gaps = {1}
  MaxTicks = 5
INVARIANT StillMarketIsQuiet
CHECK_DEADLOCK FALSE
