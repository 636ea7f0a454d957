------------------------- MODULE MCSyncCoordinator -------------------------
(* SyncCoordinator on a small instance.                                      *)
EXTENDS SyncCoordinator, TLC
=============================================================================
