SPECIFICATION Spec
CONSTANTS
  Venues = {v1, v2}
  PrimaryVenue = v1
  OrderQty = 2
  VpinEnabled = TRUE
  MaxLevels = 2
  VpinWindow = 2
  MaxInventory = 2
  HalfSpread = 2
  Gamma = 5000
  WarmupTicks = 2
  CooldownTicks = 1
  RequoteThreshold = 1
  MmWindow = 2
  MmVolAlpha = 5000
  MmToxicThreshold = 6000
  MmMaxInventory = 2
  MmHalfSpread = 2
  MmGamma = 5000
  MmRequoteThreshold = 1
  MmMinQuoteInterval = 1
  MmWarmupTicks = 2
  MakerFeeBps = 0
  TakerFeeBps = 500
  QtyDivisor = 2
  Modes = {"live", "backtest", "harness"}
  LiveUpdates <- MCLiveUpdates
  BacktestUpdates <- MCBacktestUpdates
  HarnessUpdates <- MCHarnessUpdates
  Trades <- MCTrades
  FillPrices = {7, 12}
  FillQtys = {1, 2}
  Fees = {1}
  HarnessOrders <- MCOrders
  Budgets <- MCBudgets
  MaxOrders = 3
INVARIANTS
  TypeOK
  BooksAgree
  
  QuotesPassive
  
  InventoryTracks
  
  
  BacktestBooksBalance
  JudgedByCash
  FlatMeansNoInventory
  PositionBounded
  RouterConserves
  TrackerMirrorsVenue
  OrderTermsKept
CHECK_DEADLOCK FALSE
