SPECIFICATION MCSpec
CONSTANTS
  Price = {1}
  Stream = {1, 2}
  MaxQty = 1
  None = None
  Market = {m1, m2}
  Generation <- MCGeneration
  Sequence <- MCSequence
  LevelLists <- MCLevelLists
  Change <- MCChange
  Scope = "shared_stream"
  StreamOf <- OneStream
  MaxLog = 5
INVARIANTS
  ValidBookIsVenueBookInBoth
CHECK_DEADLOCK FALSE
