SPECIFICATION MCSpec
CONSTANTS
  c1 = c1
  c2 = c2
  m1 = m1
  m2 = m2
  m3 = m3
  Constraint = {c1, c2}
  LegMarket <- MCLegMarket
  LegYes <- MCLegYes
  Policies <- MCPolicies
  Capital = 3
  Payout = 1
  QuantityCap = 2
  Reserves = {1}
  MaxTime = 3
INVARIANTS
  LedgerConserved
  PairsNeverUnwound
  NeverOverHedged
  ImmediateLedgerSound
  BasketAccountsAddUp
  BasketLiquidityNeverReused
PROPERTIES
  NoTradeAfterResolution
  ImmediateFillsAreReal
