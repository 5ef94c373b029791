---------------------------- MODULE MCSeatEntry ----------------------------
(* The instance of SeatEntry for TLC.  Users, seats and phones are          *)
(* interchangeable.                                                         *)
EXTENDS SeatEntry, TLC

MCSymmetry == Permutations(Users) \union Permutations(Seats) \union Permutations(Phones)
=============================================================================
