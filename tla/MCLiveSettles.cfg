SPECIFICATION FairSpec
CONSTANTS
  Venue = binance
  OrderQty = 2
  MaxOpenOrders = 2
  Gateways = {"rest"}
  Faults = TRUE
  KillActions = {"cancel_all"}
  MaxLocalId = 2
PROPERTY
  SubmittedSettles
CHECK_DEADLOCK FALSE
