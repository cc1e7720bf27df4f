SPECIFICATION MCSpec
CONSTANTS
  PriceScale = 10
  CoefficientScale = 5
  MaxCash = 60
  Fees <- MCFees
  Step = 1
  MaxQuantity = 6
  Width = 7
  Weight <- MCWeight
  Denominator = 42
  W = 32
  Scale = 4
  Cash <- MCWords
  Time <- MCWords
INVARIANTS
  OrderSound
  ExactOrRefused
  SumIsExact
  TextsAreExact
CHECK_DEADLOCK FALSE
