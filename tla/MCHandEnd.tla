----------------------------- MODULE MCHandEnd -----------------------------
(* Instances of HandEnd for TLC: the participants are interchangeable.     *)
EXTENDS HandEnd, TLC

MCSymmetry == Permutations(Players)
=============================================================================
