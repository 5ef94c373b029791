SPECIFICATION Spec
CONSTANTS
  p1 = p1
  p2 = p2
  Players = {p1, p2}
  Nobody = Nobody
  Turn = 2
  Hold = 1
  MaxEpoch = 3
  MaxFaults = 1
  Faults = {"outage","restart","line"}
PROPERTIES
  TurnEnds
CHECK_DEADLOCK FALSE
