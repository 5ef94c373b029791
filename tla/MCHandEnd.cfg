SPECIFICATION Spec
CONSTANTS
  p1 = p1
  p2 = p2
  p3 = p3
  c1 = c1
  Players = {p1, p2, p3}
  Cmds = {c1}
  NoCmd = NoCmd
  Points = 1
  MaxTries = 2
  MaxFaults = 2
SYMMETRY MCSymmetry
INVARIANTS
  MoneyForChips
  LedgerHoldsChips
PROPERTIES
  AskedBeforeEliminated
CHECK_DEADLOCK FALSE
