SPECIFICATION Spec
CONSTANTS
  p1 = p1
  p2 = p2
  Players = {p1, p2}
  Nobody = Nobody
  Turn = 2
  Hold = 1
  MaxEpoch = 3
  MaxFaults = 2
  Faults = {"outage","line","restart","torn","lock","sweep","late"}
SYMMETRY MCSymmetry
INVARIANTS
  TurnHasClock
PROPERTIES
  NeverEarly
  NobodyFoldedByAStop
  StoppedOnceByAnOutage
CHECK_DEADLOCK FALSE
