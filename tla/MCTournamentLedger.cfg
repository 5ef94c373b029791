SPECIFICATION Spec
CONSTANTS
  M = 3
  Fees = {4, 8}
  Rake = 10
  PayoutTable <- MCPayoutTable
  Stacks = {1, 2}
  StartPoints <- MCStartPoints
  MinPlayers = 2
  MaxTables = 2
  MaxBuyIns = 2
  Finishing = {f1, f2}
  MaxCalls = 1
  Elsewhere = {2}
INVARIANTS
  PrizeOnce
  PointsNotNegative
  CancelOwesAll
  BooksBalance
PROPERTIES
  BookKept
SYMMETRY Symmetry
CHECK_DEADLOCK FALSE
