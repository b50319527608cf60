CONSTANTS
  WindowFront = 1
  WindowSize  = 2
  ClientBuf   = 3
  ServerBuf   = 4
  AckSlots    = 3
  Sentinel    = 50
  FinSeq      = 3
  Uninit      = {1, 3}
  MaxControl  = 3
  MaxExpired  = 1
  Duplicates  = TRUE
  Garbles     = TRUE
  MaxWindow   = 2
  MaxFlight   = 8
SPECIFICATION Spec
INVARIANTS IInv NothingForgotten DoneWhenDelivered WithinServerWindow
PROPERTIES TransferSpec ReceiverSpec SenderSpec
CHECK_DEADLOCK FALSE
