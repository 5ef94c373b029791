---------------------------- MODULE MCSeatTablet ----------------------------
(* The instance of SeatTablet for TLC.                                       *)
EXTENDS SeatTablet
=============================================================================
