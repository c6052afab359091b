SPECIFICATION FairSpec
CONSTANTS
  Writers = {w1, w2}
  MaxMsg = 4
  Buf = 2
  MaxBytes = 6
  None = None
INVARIANTS
  WSTypeOK
  InOrder
  NoIdleReads
PROPERTY
  Delivered
CHECK_DEADLOCK FALSE
