SPECIFICATION TrackerSpec
CONSTANTS
  m1 = m1  m2 = m2  m3 = m3  c1 = c1  c2 = c2
  Price = {1, 2}
  Stream = {1}
  MaxQty = 1
  None = None
  Market = {m1, m2, m3}
  Generation <- MCGeneration
  Sequence <- MCSequence
  LevelLists <- MCLevelLists
  Change <- MCChange
  Scope = "shared_stream"
  Constraint = {c1, c2}
  LegsOf <- MCLegsOf
  Scale = 4
  MaxCash = 4
INVARIANTS
  MarketConsistent
  TrackerIsCurrent
  CandidateIsExecutable
PROPERTIES
  StaleNeedsRecovery
  ValidBookMovesForward
CHECK_DEADLOCK FALSE
