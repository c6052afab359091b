SPECIFICATION FairSpec
CONSTANTS
  MaxReqs = 2
  MaxOut = 2
  QueueLen = 1
INVARIANTS
  BridgeTypeOK
  NoTruncation
  ExitStatusDelivered
PROPERTIES
  OutputIsStream
  CommandEnds
  HandlerReturns
CHECK_DEADLOCK FALSE
