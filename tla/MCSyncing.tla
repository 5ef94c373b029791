----------------------------- MODULE MCSyncing -----------------------------
(* The instance of Syncing for TLC: two tables, one phone.  No symmetry:    *)
(* the run checks liveness.                                                 *)
EXTENDS Syncing
=============================================================================
