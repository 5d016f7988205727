SPECIFICATION FairSpec
CONSTANTS
  OrderIds = {a, b, c}
  Prices <- MCPrices
  PriceBound = 2
  Quantities <- MCQuantities
  ModQuantities <- MCModQuantities
  TIFs = {"GTC", "FOK"}
  MaxNodes = 3
  ReuseIds = FALSE
  FokRollsBack = FALSE
INVARIANT IndexComplete
PROPERTIES
  ImplementsPriority
  MatchTerminates
