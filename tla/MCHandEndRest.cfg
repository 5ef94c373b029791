SPECIFICATION Spec
CONSTANTS
  p1 = p1
  p2 = p2
  c1 = c1
  Players = {p1, p2}
  Cmds = {c1}
  NoCmd = NoCmd
  Points = 1
  MaxTries = 2
  MaxFaults = 1
PROPERTIES
  CommandsRest
CHECK_DEADLOCK FALSE
