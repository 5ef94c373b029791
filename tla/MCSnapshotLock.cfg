SPECIFICATION LSpec
CONSTANTS
  c1 = c1
  c2 = c2
  c3 = c3
  Calls = {c1, c2, c3}
  NoCall = NoCall
  Ttl = 2
  MaxWait = 2
INVARIANTS
  OverwritesOnlyLate
PROPERTIES
  MutationsAtomic
CHECK_DEADLOCK FALSE
