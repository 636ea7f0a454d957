----------------------------- MODULE SyncService -----------------------------
(* What the receive coordinator promises its callers, with no run ids, no    *)
(* pending slot and no waiter list: receive runs happen one at a time; a run *)
(* that succeeds may answer the requests that only want the current state,   *)
(* but it may answer a dirty request only if that request was already there  *)
(* when the run began; a run that fails fails everyone.                      *)
CONSTANT Requests

VARIABLES
    dirty,    \* the requests submitted to announce a change
    open,     \* the submitted requests that still wait
    running,  \* whether a receive run is under way
    seen,     \* the open requests that were there when it began
    done      \* what each request was told

serviceVars == <<dirty, open, running, seen, done>>

Init ==
    /\ dirty = {}
    /\ open = {}
    /\ running = FALSE
    /\ seen = {}
    /\ done = [r \in Requests |-> "none"]

Submit(r) ==
    /\ r \notin open \cup dirty
    /\ done[r] = "none"
    /\ open' = open \cup {r}
    /\ dirty' \in {dirty, dirty \cup {r}}
    /\ UNCHANGED <<running, seen, done>>

Withdraw(r) ==
    /\ r \in open
    /\ open' = open \ {r}
    /\ seen' = seen \ {r}
    /\ UNCHANGED <<dirty, running, done>>

Begin ==
    /\ ~running
    /\ running' = TRUE
    /\ seen' = open
    /\ UNCHANGED <<dirty, open, done>>

Tell(rs, outcome) ==
    /\ open' = open \ rs
    /\ done' = [r \in Requests |-> IF r \in rs THEN outcome ELSE done[r]]
    /\ running' = FALSE
    /\ seen' = {}
    /\ UNCHANGED dirty

Succeed ==
    /\ running
    /\ \E rs \in SUBSET open :
        /\ rs \cap dirty \subseteq seen
        /\ Tell(rs, "current")

\* Also between two runs: a follow-up may be given up before it begins.
Fail == (running \/ open # {}) /\ Tell(open, "failed")

Next ==
    \/ \E r \in Requests : Submit(r) \/ Withdraw(r)
    \/ Begin
    \/ Succeed
    \/ Fail

Fairness ==
    /\ WF_serviceVars(Begin /\ open # {})
    /\ WF_serviceVars(Succeed \/ Fail)

Spec == Init /\ [][Next]_serviceVars /\ Fairness
=============================================================================
