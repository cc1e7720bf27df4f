SPECIFICATION FairSpec
CONSTANTS
  MaximumConnections = 4
  Commands = 2
  Observed = TRUE
INVARIANTS
  ReplayIsLiveFeed
  CleanHistoryReplays
PROPERTIES
  RunEnds
