--------------------------- MODULE ReplyDelivery ---------------------------
(***************************************************************************)
(* What the daemon promises about the final reply of a run: once the run   *)
(* has ended with a reply, the reply is queued; a queued reply settles     *)
(* exactly once, as sent or as failed, and stays settled; and every queued *)
(* reply does settle.  FinalOutbox is shown to implement this, and AcpHost *)
(* uses it as its view of the outbox.                                      *)
(***************************************************************************)
CONSTANT Runs
VARIABLE final

FinalStates == {"none", "pending", "sent", "failed"}

InitFinal == final = [r \in Runs |-> "none"]

\* The reply of run r is committed together with the end of its task.
QueueFinal(r) ==
    /\ final[r] = "none"
    /\ final' = [final EXCEPT ![r] = "pending"]

\* The reply of run r is settled.
SettleFinal(r, outcome) ==
    /\ final[r] = "pending"
    /\ final' = [final EXCEPT ![r] = outcome]

Settle(r) == \E outcome \in {"sent", "failed"} : SettleFinal(r, outcome)

NextFinal == \E r \in Runs : QueueFinal(r) \/ Settle(r)

SpecFinal ==
    /\ InitFinal
    /\ [][NextFinal]_final
    /\ \A r \in Runs : WF_final(Settle(r))
=============================================================================
