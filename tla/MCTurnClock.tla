---------------------------- MODULE MCTurnClock ----------------------------
(* Instances of TurnClock for TLC.  The players are interchangeable.       *)
EXTENDS TurnClock, TLC

MCSymmetry == Permutations(Players)

=============================================================================
