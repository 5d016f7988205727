SPECIFICATION FairSpec
CONSTANTS
  Changes <- MCChanges
  TapeLength = 2
  MaxProcessed = 1
  MaxServerSteps = 3
INVARIANTS
  TypeOK
  LevelsDrawable
  StaleOnlyIfMissed
  TradesTapeSound
PROPERTIES
  ConnectsAgain
  
CHECK_DEADLOCK FALSE
