\* times in eighths: the first rto 6000, then 20001 for packet 1, and
\* 9000 or 31501.125 for a later one; a tick of 10000
CONSTANTS
  Ids      = {1, 2}
  Timeouts = {48000, 160008, 72000, 252009}
  Tick     = 80000
  Scale    = 8
  Samples  = {20001}
  FdLimit  = 2
  MaxIdle  = 1
  MaxMsgs  = 4
  MaxInbox = 2
SPECIFICATION FairProcessSpec
INVARIANTS TypeOK CountCoversList ListOnHeap MemoryAccounted
PROPERTIES OthersUndisturbed EveryTimerEnds AlarmSetSpec SendingStartsTimer
CHECK_DEADLOCK FALSE
