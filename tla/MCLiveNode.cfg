SPECIFICATION Spec
CONSTANTS
  Venue = binance
  OrderQty = 2
  MaxOpenOrders = 2
  Gateways = {"paper", "rest", "stream"}
  Faults = TRUE
  KillActions = {"stop_all"}
  MaxLocalId = 2
INVARIANTS
  TypeOK
  
  ExchangeOrdersKnown
  RestNeverAhead
CHECK_DEADLOCK FALSE
