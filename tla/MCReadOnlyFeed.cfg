SPECIFICATION MCSpec
CONSTANTS
  m1 = m1  m2 = m2  m3 = m3
  Price = {1}
  Stream = {1, 2}
  MaxQty = 1
  None = None
  Market = {m1, m2, m3}
  Generation <- MCGeneration
  Sequence <- MCSequence
  LevelLists <- MCLevelLists
  Change <- MCChange
  Scope = "shared_stream"
  Protocol = "book_and_trades_v1"
  Selection <- MCSelection
  Time = {0, 1}
  TradeSequence = {1, 2, 3}
INVARIANTS
  ReportsAreTrueInBoth
PROPERTIES
  HealthyLosesNothing
