\* The live executor against broker and connection, without the optional faults.
SPECIFICATION FairSpec
CONSTANTS
  MaxAttempts = 3
  MaxOpenPositions = 1
  Pause = 2
  ContractLife = 2
  Modes = {FALSE}
  Faults = {}
INVARIANTS
  GatingMatchesTrader
  OneHeldContractAlive
  UnwatchedIsOnRecord
PROPERTIES
  PositionReleased
  OpenRowIsClosed
