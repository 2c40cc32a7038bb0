\* One symbol, three ticks, lost connections, crashes and a failing database.
SPECIFICATION FairSpec
CONSTANTS
  Symbols = {"R_100"}
  WithBalance = TRUE
  WithTime = TRUE
  Retention = 1
  Quiet = 1
  MaxTicks = 3
  MaxInbox = 2
  MaxRows = 3
INVARIANTS
  IInv
  FreshTicksKept
PROPERTIES
  KeepsTape
  QuietMinutesPrune
