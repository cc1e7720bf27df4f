SPECIFICATION MCSpec
CONSTANTS
  Markets = {"m1", "m2", "m3", "m4", "m5"}
  Legs <- MCLegs
  Shown <- MCShown
  Fragile = {"m1"}
  Par = 10
  Cash = 17
  MinimumMargin = 4
  MaxEvents = 3
  ValidFrom = 1
  ValidUntil = 3
  Wall = {0, 1, 3}
  MaxTime = 2
  MaxGeneration = 1
  Listed = {1, 2, 3, 4, 5, 6}
  Rows <- MCRows
  MaxRows = 3
  NoMeaning = NoMeaning
  Settlement = {0, 1, 2, 3, 4, 5}
INVARIANTS
  EpisodesAreReal
  PolicySound
PROPERTIES
  AccountingIsExact
CHECK_DEADLOCK FALSE
