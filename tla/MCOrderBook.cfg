SPECIFICATION Spec
CONSTANTS
  OrderIds = {a, b, c}
  Prices <- MCPrices
  PriceBound = 2
  Quantities <- MCQuantities
  ModQuantities <- MCModQuantities
  TIFs = {"GTC", "IOC", "FOK"}
  MaxNodes = 3
  ReuseIds = TRUE
SYMMETRY IdSymmetry
INVARIANTS
  TypeOK
  IndexSound
  LevelsSound
  
  CrossedOnlyByReadd
  PriorityRespected
  FillsAccounted
  NothingLeftToMatch
