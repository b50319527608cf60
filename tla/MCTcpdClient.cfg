\* window 20, buffer 64 scaled down; the file is a header and three blocks
CONSTANTS
  WindowFront = 2
  BufSize     = 3
  FinSeq      = 4
  Uninit      = {0, 1, 2, 3}
  MaxControl  = 3
  MaxExpired  = 2
SPECIFICATION Spec
INVARIANTS TypeOK WindowInBuffer WindowedHasTimer GoNotLost
CHECK_DEADLOCK FALSE
