SPECIFICATION FairSpec
CONSTANTS
  None = None
  Sess = {s1, s2}
  MaxOut = 1
INVARIANTS
  SessionerTypeOK
  ExecOutputComplete
PROPERTIES
  EndsWithConnection
  RegisteredShellIsKilled
CHECK_DEADLOCK FALSE
