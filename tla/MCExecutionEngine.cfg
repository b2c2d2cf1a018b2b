SPECIFICATION Spec
CONSTANTS
  Venues = {binance}
  ForeignIds = {seed}
  Sides = {Buy}
  OrderQtys = {1, 2}
  FillQtys = {0, 1, 2}
  Times = {0}
  MaxLocalId = 2
INVARIANTS
  TypeOK
  FillAccounting
PROPERTY
  ImplementsLife
