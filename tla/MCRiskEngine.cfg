SPECIFICATION Spec
CONSTANTS
  MaxOrderQty = 2
  MaxPositionQty = 3
  MaxNotional = 3
  MaxTotalNotional = 3
  MaxOpenOrders = 2
  MaxLoss <- MCMaxLoss
  MaxOrdersPerSecond = 2
  MaxSpread = 1
  MaxConsecutiveLosses = 2
  MaxDrawdownBps = 5000
  Second = 2
  OrderQtys = {1, 3}
  Prices = {1}
  Positions <- MCPositions
  PnlDeltas <- MCPnlDeltas
  Spreads = {0, 2}
  MaxNow = 3
  PnlBound = 2
  MaxAccepted = 3
INVARIANTS
  TypeOK
  RateLimited
  BreakerCoversBreach
PROPERTY
  AcceptedWithinLimits
