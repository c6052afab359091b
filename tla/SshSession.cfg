SPECIFICATION FairSessionSpec
CONSTANTS
  None = None
  Key = {k1}
  Tunnel = {t1, t2}
  Dialer = {d1, d2}
  SessionChan = {s1, s2}
  TcpChan = {f1}
  MaxAuthTries = 2
INVARIANTS
  SessionTypeOK
  PasswordMeansAgent
  OneStream
  PanicsOnlyWithoutAgent
PROPERTIES
  FreshHandshake
  StreamReleased
CHECK_DEADLOCK FALSE
