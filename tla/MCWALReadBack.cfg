SPECIFICATION Spec
CONSTANTS
  SequenceNums = {1, 2}
  MaxChunks = 6
  MaxCount = 3
PROPERTY SyncedReadsBack
CHECK_DEADLOCK FALSE
