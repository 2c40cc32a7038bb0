\* One connection, from its opening to its end.
SPECIFICATION FairSpec
CONSTANTS
  MaxAsks = 4
  MaxMessages = 4
  WriteCap = 1
  RawCap = 2
  HandlerAsks = 2
INVARIANTS
  IInv
  OwnAnswer
PROPERTIES
  InOrder
  RequestEnds
  ReaderUnblocks
  DisconnectNoticed
