SPECIFICATION MCSpec
CONSTANTS
  Displayed = 3
  Wanted = 2
  Window = 1
  Budget = 2
  MaxJoined = 2
  MaxEvents = 4
  MaxTime = 4
INVARIANTS
  ConservativeIsSafe
  RemovalsCountOnce
PROPERTIES
  ProbeSound
CHECK_DEADLOCK FALSE
