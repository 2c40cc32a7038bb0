SPECIFICATION Spec
CONSTANTS
  DayLength = 50
  MaxOpenPositions = 1
  MaxLossPerDay = 1
  CooldownAfterLoss = 1
  MaxConsecutiveLosses = 2
  InitialBalance = 10
  MinBalance = 1
  Duration = 3
  Gaps = {0, 1, 2}
  Prices = {0, 1, 2}
  WarmUp = 2
  MinReturns = 1
  History = 3
  MaxTicks = 5
  MaxReplays = 2
CHECK_DEADLOCK FALSE
INVARIANTS IInv OpenTradeRowIsOpen ClosedTradeIsSettled
PROPERTIES EarlierReplaysKept
