CONSTANTS
  MaxCopies = 2
SPECIFICATION FairSpec
INVARIANTS TypeOK TimerHasItsPort HeaderHasTimer AckedIsAtFtps
PROPERTIES TransferBegins
CHECK_DEADLOCK FALSE
