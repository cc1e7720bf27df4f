SPECIFICATION Spec
CONSTANTS
  MaximumConnections = 2
  Commands = 2
  Observed = TRUE
INVARIANT FinalizedReplays
