SPECIFICATION SessionSpec
CONSTANTS
  JournalRecord <- MCRecord
  MaxRecords = 2
  Version = 1
INVARIANTS
  JournalIsWhole
  VerifiesIffPublished
CHECK_DEADLOCK FALSE
