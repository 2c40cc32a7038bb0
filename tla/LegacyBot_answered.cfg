\* A run that is not dry, with a price in every tick.
SPECIFICATION Spec
CONSTANTS
  Capital = 100
  MinStake = 4
  RsiPeriod = 1
  Oversold = 30
  BandPeriod = 2
  MacdFast = 1
  MacdSlow = 2
  MacdSignal = 1
  LateFrom = 2
  LateUntil = 0
  MinRoi = 100
  MaxRoi = 1100
  LateEdge = 50
  History = 3
  Chosen = {"Temporal", "Rsi", "BollingerBands", "Macd", "Lmsr", "Ensemble",
            "LateCycle", "MtfPlaybook"}
  Modes = {FALSE}
  Duration = 1
  Grace = 1
  AuthTimeout = 1
  Channel = 1
  Buffer = 2
  Prices = {1, 2}
  MaxTime = 3
  MaxTicks = 2
  MaxSent = 6
CHECK_DEADLOCK FALSE
PROPERTIES
  AnsweredProposalIsBought
