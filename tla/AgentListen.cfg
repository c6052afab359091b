SPECIFICATION FairSpec
CONSTANTS
  Timeouts = {0, 10, 11}
  Keys = {k1, k2}
  None = None
  Absent = Absent
  Torn = Torn
INVARIANTS
  ListenTypeOK
  PingsOnlyWhileListening
  StableIdentity
PROPERTIES
  Reconnects
  CancelEndsListen
CHECK_DEADLOCK FALSE
