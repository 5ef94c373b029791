---------------------------- MODULE MCTableHand ----------------------------
(* The instance of TableHand for TLC.  An ante comes with a small blind of *)
(* at least 5 chips (deriveAnteAmount); without one the unit of chips is   *)
(* free, so small stacks do.  A hand is dealt at either level: at the high *)
(* one every stack is short of the blind or the ante.                      *)
EXTENDS TableHand

MCBlindLevels == {[sb |-> 1, ante |-> 0], [sb |-> 5, ante |-> 1]}
=============================================================================
