SPECIFICATION FeedSpec
CONSTANTS
  s = s
  UnnamedSymbol = unnamed
  Malformed = malformed
  Mistyped = mistyped
  Symbols <- MCSymbols
  ClientIds <- MCClientIds
  AutoIds = 3
  OrderIds <- MCOrderIds
  Prices <- MCPrices
  PriceBound = 20000
  QuantityWidth = 3
  Quantities <- MCQuantities
  ModQuantities <- MCModQuantities
  TIFs = {"GTC", "IOC"}
  Capacity = 3
  MaxEvents = 4
  RejectCallback = TRUE
  FeedMessages <- MCFeedMessages
  MaxDropped = 1
INVARIANTS
  TypeOK
  
  CallbacksTellTheBook
  AnsweredInOrder
PROPERTIES
  LimitWithinATick
  ImplementsCounts
