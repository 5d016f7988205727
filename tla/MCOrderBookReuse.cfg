SPECIFICATION Spec
CONSTANTS
  OrderIds = {a, b}
  Prices <- MCPrices
  PriceBound = 2
  Quantities <- MCQuantities
  ModQuantities <- MCModQuantities
  TIFs = {"GTC"}
  MaxNodes = 3
  ReuseIds = TRUE
PROPERTY CancelRemoves
