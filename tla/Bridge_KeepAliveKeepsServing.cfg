SPECIFICATION Spec
CONSTANTS
  MaxReqs = 1
  MaxOut = 1
  QueueLen = 1
INVARIANT
  KeepAliveKeepsServing
CHECK_DEADLOCK FALSE
