SPECIFICATION MCSpec
CONSTANTS
  ConstraintId <- MCId
  Version = {0, 1}
  Key = {"", "a", "b", "c"}
  NoKey = ""
  Market <- MCMarket
  MaxPayout = 3
  Ticker = {"", "A", "B"}
  NoTicker = ""
  Documents <- MCDocuments
  MaxEntries = 3
  MaxQuantity = 2
INVARIANTS
  RegistryConsistent
  PayoffsAreExact
  LoadIsExact
  SizesAreExact
  ScreenIsSound
