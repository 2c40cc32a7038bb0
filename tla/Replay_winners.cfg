SPECIFICATION Spec
CONSTANTS
  DayLength = 50
  MaxOpenPositions = 1
  MaxLossPerDay = 2
  CooldownAfterLoss = 1
  MaxConsecutiveLosses = 2
  InitialBalance = 10
  MinBalance = 1
  Duration = 2
  Gaps = {1}
  Prices = {1, 2}
  WarmUp = 2
  MinReturns = 1
  History = 3
  MaxTicks = 8
  MaxReplays = 1
CHECK_DEADLOCK FALSE
INVARIANTS WinnersWereRight
