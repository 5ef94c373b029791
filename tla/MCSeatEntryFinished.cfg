SPECIFICATION Spec
CONSTANTS
  u1 = u1
  u2 = u2
  u3 = u3
  s1 = s1
  s2 = s2
  f1 = f1
  f2 = f2
  Users = {u1, u2, u3}
  Seats = {s1, s2}
  Phones = {f1, f2}
  Nobody = Nobody
  MaxFaults = 0
SYMMETRY MCSymmetry
PROPERTIES
  FinishedNeverDealt
CHECK_DEADLOCK FALSE
