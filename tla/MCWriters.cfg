SPECIFICATION MCSpec
CONSTANTS
  Capacity = 2
  ByteLimit = 4
  Charge = {1, 2, 5}
  MaxAppends = 4
  Budget = 4
  MaxPending = 2
  MaxLines = 4
INVARIANTS
  RingSafe
PROPERTIES
  ImplementsLog
  StreamImplementsLog
  WritersFinish
