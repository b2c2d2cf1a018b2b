SPECIFICATION Spec
CONSTANTS
  Venue = binance
  OrderQty = 2
  Gateways = {"rest"}
  FlushEvery = 2
  FlushLong = 4
  SnapshotInterval = 5
  PruneAt = 2
  Keep = 2
  StreamBase = 9
  MaxLocalId = 2
  MaxSeq <- RestSeqs
  MaxStarts <- RestStarts
INVARIANT
  ReplayIdentical
CHECK_DEADLOCK FALSE
