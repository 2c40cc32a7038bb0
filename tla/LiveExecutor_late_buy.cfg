\* A buy answered after its timeout.
SPECIFICATION Spec
CONSTANTS
  MaxAttempts = 2
  MaxOpenPositions = 1
  Pause = 2
  ContractLife = 2
  Modes = {FALSE}
  Faults = {}
INVARIANT FailedEntryOpenedNothing

