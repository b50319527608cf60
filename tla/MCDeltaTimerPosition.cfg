\* times in units of 1000 ms, so that no truncation occurs: 6000, 9000 and 20000 ms
CONSTANTS
  Ids      = {0, 1}
  Timeouts = {6, 9, 20}
  Tick     = 10
  Scale    = 1
  FdLimit  = 2
  MaxIdle  = 1
  MaxMsgs  = 4
  MaxInbox = 2
SPECIFICATION Spec
PROPERTY InsertedInPlace
CHECK_DEADLOCK FALSE
