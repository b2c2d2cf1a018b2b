SPECIFICATION Spec
CONSTANTS
  Venue = binance
  OrderQty = 2
  MaxOpenOrders = 1
  Gateways = {"stream"}
  Faults = FALSE
  KillActions = {"stop_all"}
  MaxLocalId = 1
INVARIANT
  ShutdownLeavesNothing
CHECK_DEADLOCK FALSE
