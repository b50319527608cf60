CONSTANTS
  WindowFront = 1
  WindowSize  = 2
  ClientBuf   = 3
  ServerBuf   = 4
  AckSlots    = 3
  Sentinel    = 50
  FinSeq      = 2
  Uninit      = {0, 3}
  MaxControl  = 2
  MaxExpired  = 1
  Duplicates  = FALSE
  Garbles     = FALSE
  MaxWindow   = 3
  MaxFlight   = 1
SPECIFICATION FairSpec
PROPERTY TransferCompletes
CHECK_DEADLOCK FALSE
