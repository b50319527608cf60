\* server_window 20, server_buffer 64, acks 64 and 9999 scaled down: a file
\* with more packets than the number find_low starts from
CONSTANTS
  WindowSize = 2
  BufSize    = 4
  AckSlots   = 3
  Sentinel   = 3
  FinSeq     = 5
  Ahead      = 2
  Lag        = 3
SPECIFICATION Spec
PROPERTY TransferSpec
CHECK_DEADLOCK FALSE
