SPECIFICATION Spec
CONSTANTS
  p1 = p1
  p2 = p2
  p3 = p3
  c1 = c1
  c2 = c2
  Players = {p1, p2, p3}
  Cmds = {c1, c2}
  NoCmd = NoCmd
  Points = 0
  MaxTries = 2
  MaxFaults = 2
SYMMETRY MCSymmetry
INVARIANTS
  ActiveCounted
  WayOut
PROPERTIES
  LiveHandKept
  CheckpointAtBoundary
CHECK_DEADLOCK FALSE
