\* times in halves of 1000 ms: 6000, 9500 and 20500 ms, a tick of 10000 ms
CONSTANTS
  Ids      = {0, 1}
  Timeouts = {12, 19, 41}
  Tick     = 20
  Scale    = 2
  FdLimit  = 2
  MaxIdle  = 2
  MaxMsgs  = 4
  MaxInbox = 2
SPECIFICATION Spec
PROPERTY ExpiryReported
CHECK_DEADLOCK FALSE
