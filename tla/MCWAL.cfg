SPECIFICATION Spec
CONSTANTS
  SequenceNums = {1, 2}
  MaxChunks = 6
  MaxCount = 3
INVARIANTS
  TypeOK
  AcceptedInFile
  SyncedSurvives
PROPERTY CleanLogReadsBack
CHECK_DEADLOCK FALSE
