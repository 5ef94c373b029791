SPECIFICATION Spec
CONSTANTS
  t1 = t1
  t2 = t2
  f1 = f1
  Tables = {t1, t2}
  Phones = {f1}
  MaxTime = 2
  MaxMoves = 3
  MaxLosses = 1
  MaxFaults = 1
INVARIANTS
  CaughtAreStopped
  LineDownIsPaused
  ForcedCountedOnce
PROPERTIES
  UnwatchedIsPaused
  SyncEnds
CHECK_DEADLOCK FALSE
