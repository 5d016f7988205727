SPECIFICATION FairSpec
CONSTANTS
  Capacity = 3
  MaxMessages = 1
  MaxStarts = 1
  MaxChunks = 12
  MaxPeriodic = 1
PROPERTY StopsOnSignal
CHECK_DEADLOCK FALSE
