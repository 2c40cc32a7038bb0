SPECIFICATION Spec
CONSTANTS
  DayLength = 3
  MaxOpenPositions = 1
  MaxLossPerDay = 3
  CooldownAfterLoss = 1
  MaxConsecutiveLosses = 2
  InitialBalance = 100
  MinBalance = 5
  MaxTime = 5
  MaxTrades = 4
  MaxSkew = 0
  MaxStake = 2
  MaxGain = 1
INVARIANTS
  IInv
  DailyLossBounded
PROPERTIES
  DailyLossStopsEntries
  StreakStopsEntries
  CooldownKept
