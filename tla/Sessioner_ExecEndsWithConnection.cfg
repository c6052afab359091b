SPECIFICATION FairSpec
CONSTANTS
  None = None
  Sess = {s1}
  MaxOut = 1
PROPERTY
  ExecEndsWithConnection
CHECK_DEADLOCK FALSE
