SPECIFICATION FairSpec
CONSTANTS
  Timeouts = {11}
  Keys = {k1}
  None = None
  Absent = Absent
  Torn = Torn
PROPERTY
  CloseEndsListen
CHECK_DEADLOCK FALSE
