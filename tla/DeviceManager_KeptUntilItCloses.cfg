SPECIFICATION Spec
CONSTANTS
  None = None
  Name = {n1}
  Conn = {c1, c2}
  Dialer = {x1}
  Backlog = 1
PROPERTY
  KeptUntilItCloses
