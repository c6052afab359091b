SPECIFICATION FairSpec
CONSTANTS
  None = None
  Name = {n1}
  Conn = {c1, c2}
  Dialer = {x1, x2}
  Backlog = 1
INVARIANTS
  TypeOK
  LiveIsMapped
  MappedIsServed
  OpenedIsMapped
PROPERTIES
  DialReturns
  WritersGetIn
  KeepsPromise
