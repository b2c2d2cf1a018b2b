SPECIFICATION Spec
CONSTANTS
  Venue = binance
  OrderQty = 2
  Gateways = {"paper", "rest", "stream"}
  FlushEvery = 2
  FlushLong = 4
  SnapshotInterval = 3
  PruneAt = 2
  Keep = 2
  StreamBase = 9
  MaxLocalId = 2
  MaxSeq <- Seqs
  MaxStarts <- Starts
INVARIANTS
  TypeOK
  NoDoubleReplay
  FillsCountedOnce
  PaperSeqFresh
  PaperReplayIdentical
CHECK_DEADLOCK FALSE
