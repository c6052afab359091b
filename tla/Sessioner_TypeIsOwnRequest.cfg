SPECIFICATION Spec
CONSTANTS
  None = None
  Sess = {s1, s2}
  MaxOut = 1
INVARIANT
  TypeIsOwnRequest
CHECK_DEADLOCK FALSE
