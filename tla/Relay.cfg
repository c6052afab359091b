SPECIFICATION FairSpec
CONSTANTS
  MaxData = 2
  MaxChans = 2
INVARIANTS
  RelayTypeOK
  NothingLost
PROPERTIES
  ForwardIsStream
  RelayEnds
  EofPassed
  EndsWithClient
CHECK_DEADLOCK FALSE
