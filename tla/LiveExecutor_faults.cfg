\* The same with failing telemetry, crashes and odd answers.
SPECIFICATION Spec
CONSTANTS
  MaxAttempts = 2
  MaxOpenPositions = 1
  Pause = 2
  ContractLife = 2
  Modes = {TRUE, FALSE}
  Faults = {"telemetry", "crash", "odd_answer"}
INVARIANTS
  IInv
  OpenTradeIsGated
  SignalFindsIdleTrader
  RealizedOnce
PROPERTIES
  TradeRowLifecycle
  KeepsTradeAttempts
