--------------------------- MODULE MCSyncReceive ---------------------------
(* SyncReceive with the processes as a symmetry set.                         *)
EXTENDS SyncReceive, TLC

Symmetry == Permutations(Processes)
=============================================================================
