-------------------------- MODULE MCSyncDispatcher --------------------------
(* SyncDispatcher on small instances: the first input belongs to the watched *)
(* owner, the others to any owner the configuration names.                   *)
EXTENDS SyncDispatcher, TLC

OneOwner == [i \in Inputs |-> Watched]

\* Every owner has at least one input when there are as many of each.
Spread == CHOOSE f \in [Inputs -> Owners] : \A o \in Owners : \E i \in Inputs : f[i] = o

Symmetry == Permutations(Inputs)
=============================================================================
