SPECIFICATION FairSpec
CONSTANTS
  Capacity = 3
  MaxMessages = 2
  MaxStarts = 3
  MaxChunks = 12
  MaxPeriodic = 4
INVARIANTS
  TypeOK
  EveryMessageSettled
  
  
PROPERTIES
  QuietOnceStopped
  StopsOnceListening
CHECK_DEADLOCK FALSE
