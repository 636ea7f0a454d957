---------------------------- MODULE MCSyncInbox ----------------------------
(* SyncInbox on small instances.  Attempt tokens are random and processes    *)
(* are interchangeable.                                                      *)
EXTENDS SyncInbox, TLC

OneScope == [s \in Secure |-> 1]

Symmetry == Permutations(Tokens) \cup Permutations(Processes) \cup Permutations(Ordinary)
=============================================================================
