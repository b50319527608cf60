CONSTANTS
  WindowFront = 2
  WindowSize  = 3
  ClientBuf   = 5
  ServerBuf   = 6
  AckSlots    = 5
  Sentinel    = 50
  FinSeq      = 4
  Uninit      = {0}
  MaxControl  = 2
  MaxExpired  = 1
  Duplicates  = FALSE
  Garbles     = FALSE
  MaxWindow   = 9
  MaxFlight   = 1
SPECIFICATION Spec
INVARIANT NothingForgotten
CHECK_DEADLOCK FALSE
