\* server_window 20, server_buffer 64, acks 64 and 9999 scaled down
CONSTANTS
  WindowSize = 2
  BufSize    = 4
  AckSlots   = 3
  Sentinel   = 50
  FinSeq     = 5
  Ahead      = 2
  Lag        = 3
SPECIFICATION Spec
INVARIANTS TypeOK IInv AckedOnlyDelivered
PROPERTIES TransferSpec DuplicateReAcked NextIsDelivered WaitingKept
CHECK_DEADLOCK FALSE
