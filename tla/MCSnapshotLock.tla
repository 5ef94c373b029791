--------------------------- MODULE MCSnapshotLock ---------------------------
(* The instance of SnapshotLock for TLC: three calls, so that a third one  *)
(* can get in next to a late and a punctual call.                          *)
EXTENDS SnapshotLock, TLC

CONSTANTS c1, c2, c3
=============================================================================
