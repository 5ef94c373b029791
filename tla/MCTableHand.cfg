SPECIFICATION Spec
CONSTANTS
  N = 3
  BlindLevels <- MCBlindLevels
  StartStack = 3
  MaxIssued = 9
INVARIANTS
  PotIsContributions
  TurnOwnerCanAct
  ShowdownResolvable
PROPERTIES
  ChipsLostOnlyUnclaimed
  EverybodyActs
  ReopenedByFullRaise
  WinningsCapped
  HandReachesShowdown
CHECK_DEADLOCK FALSE
