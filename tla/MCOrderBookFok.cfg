SPECIFICATION Spec
CONSTANTS
  OrderIds = {a, b}
  Prices <- MCPrices
  PriceBound = 2
  Quantities <- MCQuantities
  ModQuantities <- MCModQuantities
  TIFs = {"GTC", "FOK"}
  MaxNodes = 3
  ReuseIds = FALSE
INVARIANT RejectedLeavesBook
