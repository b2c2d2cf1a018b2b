SPECIFICATION Spec
CONSTANTS
  Venue = binance
  OrderQty = 2
  MaxOpenOrders = 1
  Gateways = {"rest"}
  Faults = FALSE
  KillActions = {"stop_all"}
  MaxLocalId = 2
INVARIANT
  OpenOrdersBounded
CHECK_DEADLOCK FALSE
