--------------------------- MODULE SyncCoordinator ---------------------------
(* The single-flight message receive coordinator of im-core, one per owner:  *)
(* crates/im-core/src/internal/message_runtime/sync_coordinator.rs.          *)
(*                                                                           *)
(* A request is one call of MessageSyncCoordinator::execute.  It first takes *)
(* a strong handle from the registry, then registers, then awaits a oneshot. *)
(* The run ids, the pending follow-up and the waiter list are the fields of  *)
(* MessageSyncCoordinatorState, every access of which is one critical        *)
(* section of its mutex and therefore one action here.  A run id of 0 stands *)
(* for None: next_run_id never returns 0.                                    *)
(*                                                                           *)
(* An Option<u32> limit is the set holding it, so None is {}.                *)
EXTENDS Integers, FiniteSets

CONSTANTS
    Requests,     \* the calls of execute, each made once
    LimitValues,  \* the page limits a request may state
    MaxRunId      \* u64::MAX

ASSUME RunIdAssumption == MaxRunId \in Nat \ {0}
ASSUME LimitAssumption == LimitValues \subseteq Nat

VARIABLES
    lastStarted,  \* last_started_run_id
    active,       \* active_run_id, 0 for None
    pending,      \* the PendingSyncRun, as a set of at most one
    waiters,      \* the SyncWaiters: a request and the run it waits for
    tasks,        \* the leader runs spawned tasks are carrying out
    phase,        \* where each call of execute is
    call,         \* the kind and limit each call registered with
    answer        \* what each call's oneshot received

state == <<lastStarted, active, pending, waiters>>
vars == <<lastStarted, active, pending, waiters, tasks, phase, call, answer>>

Kinds == {"EnsureCurrent", "DirtyAfterCurrent"}
Limits == {{}} \cup {{n} : n \in LimitValues}
Calls == [kind : Kinds, limit : Limits]

\* "current" is Ok with status Idle or Changed; "failed" is every other result
\* an executor returns; "stopped" and "internal" are made by the coordinator.
Outcomes == {"current", "failed", "stopped", "internal"}
Answers == [outcome : Outcomes, covers : SUBSET Requests, limit : Limits]
NoAnswer == [outcome |-> "none", covers |-> {}, limit |-> {}]
NoCall == [kind |-> "none", limit |-> {}]

PendingRuns == [limit : Limits, executor : Requests]
Waiters == [request : Requests, target : 1 .. MaxRunId]
Phases == {"new", "held", "waiting", "answered", "returned", "cancelled", "refused"}

\* A leader run: `covers` are the requests that were registered when its
\* executor was called (a history field), and `step` says whether it was.
Tasks == [run : 1 .. MaxRunId, limit : Limits, executor : Requests,
          step : {"spawned", "next", "executing"}, covers : SUBSET Requests]

TypeOK ==
    /\ lastStarted \in 0 .. MaxRunId
    /\ active \in 0 .. MaxRunId
    /\ pending \in SUBSET PendingRuns
    /\ waiters \in SUBSET Waiters
    /\ tasks \in SUBSET Tasks
    /\ phase \in [Requests -> Phases]
    /\ call \in [Requests -> Calls \cup {NoCall}]
    /\ answer \in [Requests -> Answers \cup {NoAnswer}]

Init ==
    /\ lastStarted = 0
    /\ active = 0
    /\ pending = {}
    /\ waiters = {}
    /\ tasks = {}
    /\ phase = [r \in Requests |-> "new"]
    /\ call = [r \in Requests |-> NoCall]
    /\ answer = [r \in Requests |-> NoAnswer]

-----------------------------------------------------------------------------
(* The registry keeps only a Weak pointer: the coordinator lives as long as  *)
(* a call of execute or a spawned task holds it, and a lookup after that     *)
(* makes a fresh one, whose run ids start again.                             *)

Holding == {"held", "waiting", "answered"}

\* Mutation: the spawned task does not keep the coordinator alive.
ReferencedByCallersOnly == \E r \in Requests : phase[r] \in Holding

Referenced == tasks # {} \/ \E r \in Requests : phase[r] \in Holding

ForOwner(r) ==
    /\ phase[r] = "new"
    /\ phase' = [phase EXCEPT ![r] = "held"]
    /\ IF Referenced
       THEN UNCHANGED state
       ELSE /\ lastStarted' = 0
            /\ active' = 0
            /\ pending' = {}
            /\ waiters' = {}
    /\ UNCHANGED <<tasks, call, answer>>

-----------------------------------------------------------------------------
(* register, followed without an await by the spawn of the leader.           *)

HasNextRunId(current) == current < MaxRunId

\* Mutation: the newest request's limit replaces the pending one.
NewestLimit(left, right) == right

LargestLimit(left, right) ==
    {n \in left \cup right : \A m \in left \cup right : m <= n}

MergePendingRequest(p, limit, executor) ==
    [limit |-> LargestLimit(p.limit, limit), executor |-> executor]

\* Mutation: a dirty request waits for a follow-up it does not schedule.
PendingWithout(r, limit) == pending

\* The follow-up a dirty request leaves behind: a new one, or the waiting one
\* widened to cover it.
PendingWith(r, limit) ==
    IF pending = {}
    THEN {[limit |-> limit, executor |-> r]}
    ELSE {MergePendingRequest(p, limit, r) : p \in pending}

Wait(r, kind, limit, target) ==
    /\ waiters' = waiters \cup {[request |-> r, target |-> target]}
    /\ phase' = [phase EXCEPT ![r] = "waiting"]
    /\ call' = [call EXCEPT ![r] = [kind |-> kind, limit |-> limit]]

RegisterLeader(r, kind, limit) ==
    /\ phase[r] = "held"
    /\ active = 0
    /\ HasNextRunId(lastStarted)
    /\ lastStarted' = lastStarted + 1
    /\ active' = lastStarted + 1
    /\ tasks' = tasks \cup {[run |-> lastStarted + 1, limit |-> limit, executor |-> r,
                             step |-> "spawned", covers |-> {}]}
    /\ Wait(r, kind, limit, lastStarted + 1)
    /\ UNCHANGED <<pending, answer>>

EnsureTarget == IF pending # {} THEN active + 1 ELSE active

RegisterEnsure(r, limit) ==
    /\ phase[r] = "held"
    /\ active # 0
    /\ pending # {} => HasNextRunId(active)
    /\ Wait(r, "EnsureCurrent", limit, EnsureTarget)
    /\ UNCHANGED <<lastStarted, active, pending, tasks, answer>>

\* Mutation: a dirty request joins the run that is already under way.
RegisterDirtyJoiningCurrent(r, limit) ==
    /\ phase[r] = "held"
    /\ active # 0
    /\ Wait(r, "DirtyAfterCurrent", limit, active)
    /\ UNCHANGED <<lastStarted, active, pending, tasks, answer>>

RegisterDirty(r, limit) ==
    /\ phase[r] = "held"
    /\ active # 0
    /\ HasNextRunId(active)
    /\ pending' = PendingWith(r, limit)
    /\ Wait(r, "DirtyAfterCurrent", limit, active + 1)
    /\ UNCHANGED <<lastStarted, active, tasks, answer>>

\* register returns "run id exhausted" before it changes anything.
RegisterRefused(r, kind) ==
    /\ phase[r] = "held"
    /\ \/ active = 0 /\ ~HasNextRunId(lastStarted)
       \/ active # 0 /\ ~HasNextRunId(active) /\ (kind = "DirtyAfterCurrent" \/ pending # {})
    /\ phase' = [phase EXCEPT ![r] = "refused"]
    /\ UNCHANGED <<lastStarted, active, pending, waiters, tasks, call, answer>>

-----------------------------------------------------------------------------
(* run and complete_run.                                                     *)

Answered(ws, result) ==
    [r \in Requests |->
        IF \E w \in ws : w.request = r /\ phase[r] = "waiting" THEN result ELSE answer[r]]

\* The waiters in ws receive the result; the callers that are gone do not.
Publish(ws, result) ==
    /\ answer' = Answered(ws, result)
    /\ phase' = [r \in Requests |->
                    IF \E w \in ws : w.request = r /\ phase[r] = "waiting"
                    THEN "answered" ELSE phase[r]]
    /\ waiters' = waiters \ ws

FailAllWaiters(result) ==
    /\ pending' = {}
    /\ active' = 0
    /\ Publish(waiters, result)

\* The task calls the executor of the run it leads.
CallExecutor(t) ==
    /\ t.step \in {"spawned", "next"}
    /\ tasks' = (tasks \ {t}) \cup
                {[t EXCEPT !.step = "executing", !.covers = {w.request : w \in waiters}]}
    /\ UNCHANGED <<lastStarted, active, pending, waiters, phase, call, answer>>

Result(t, outcome) == [outcome |-> outcome, covers |-> t.covers, limit |-> t.limit]

\* Mutation: the comparison with target_run_id is off by one.
WaitersBefore(run) == {w \in waiters : w.target < run}

WaitersThrough(run) == {w \in waiters : w.target <= run}

CompleteThenFollowUp(t) ==
    /\ t.step = "executing"
    /\ active = t.run
    /\ pending # {}
    /\ HasNextRunId(t.run)
    /\ Publish(WaitersThrough(t.run), Result(t, "current"))
    /\ pending' = {}
    /\ lastStarted' = t.run + 1
    /\ active' = t.run + 1
    /\ tasks' = (tasks \ {t}) \cup
                {[run |-> t.run + 1, limit |-> p.limit, executor |-> p.executor,
                  step |-> "next", covers |-> {}] : p \in pending}
    /\ UNCHANGED call

\* The waiters a successful run with no follow-up does not cover, and those
\* whose follow-up has no run id, receive an internal error instead.
CompleteThenIdle(t) ==
    /\ t.step = "executing"
    /\ active = t.run
    /\ pending # {} => ~HasNextRunId(t.run)
    /\ pending' = {}
    /\ active' = 0
    /\ waiters' = {}
    /\ LET covered(r) == \E w \in WaitersThrough(t.run) : w.request = r
           waiting(r) == phase[r] = "waiting" /\ \E w \in waiters : w.request = r
       IN  /\ answer' = [r \in Requests |->
                           IF waiting(r)
                           THEN Result(t, IF covered(r) THEN "current" ELSE "internal")
                           ELSE answer[r]]
           /\ phase' = [r \in Requests |-> IF waiting(r) THEN "answered" ELSE phase[r]]
    /\ tasks' = tasks \ {t}
    /\ UNCHANGED <<lastStarted, call>>

\* Mutation: a failed run drops its follow-up but answers only its own waiters.
CompleteFailedForOwnWaiters(t) ==
    /\ t.step = "executing"
    /\ pending' = {}
    /\ active' = 0
    /\ Publish(WaitersThrough(t.run), Result(t, "failed"))
    /\ tasks' = tasks \ {t}
    /\ UNCHANGED <<lastStarted, call>>

\* The run failed, or it is no longer the active one.
CompleteFailed(t) ==
    /\ t.step = "executing"
    /\ FailAllWaiters(Result(t, IF active = t.run THEN "failed" ELSE "internal"))
    /\ tasks' = tasks \ {t}
    /\ UNCHANGED <<lastStarted, call>>

\* Mutation: no completion guard, so a stopped task just disappears.
TaskStoppedUnguarded(t) ==
    /\ t.step \in {"next", "executing"}
    /\ tasks' = tasks \ {t}
    /\ UNCHANGED <<lastStarted, active, pending, waiters, phase, call, answer>>

\* The task panics or is dropped once run holds its completion guard.
TaskStopped(t) ==
    /\ t.step \in {"next", "executing"}
    /\ IF active = 0 /\ waiters = {}
       THEN UNCHANGED <<active, pending, waiters, phase, answer>>
       ELSE FailAllWaiters(Result(t, "stopped"))
    /\ tasks' = tasks \ {t}
    /\ UNCHANGED <<lastStarted, call>>

-----------------------------------------------------------------------------
(* The caller drops its future, or its call returns; the handle goes with it.*)

Cancel(r) ==
    /\ phase[r] \in {"held", "waiting"}
    /\ phase' = [phase EXCEPT ![r] = "cancelled"]
    /\ UNCHANGED <<lastStarted, active, pending, waiters, tasks, call, answer>>

Return(r) ==
    /\ phase[r] = "answered"
    /\ phase' = [phase EXCEPT ![r] = "returned"]
    /\ UNCHANGED <<lastStarted, active, pending, waiters, tasks, call, answer>>

Complete(t) == CompleteThenFollowUp(t) \/ CompleteThenIdle(t) \/ CompleteFailed(t)

Register(r) ==
    \/ \E kind \in Kinds, limit \in Limits : RegisterLeader(r, kind, limit)
    \/ \E limit \in Limits : RegisterEnsure(r, limit)
    \/ \E limit \in Limits : RegisterDirty(r, limit)
    \/ \E kind \in Kinds : RegisterRefused(r, kind)

Next ==
    \/ \E r \in Requests : ForOwner(r) \/ Register(r) \/ Cancel(r) \/ Return(r)
    \/ \E t \in tasks : CallExecutor(t) \/ Complete(t) \/ TaskStopped(t)

\* A spawned task is polled, and an executor returns: receive_run has a deadline.
Fairness ==
    /\ WF_vars(\E t \in tasks : CallExecutor(t))
    /\ WF_vars(\E t \in tasks : Complete(t) \/ TaskStopped(t))

Spec == Init /\ [][Next]_vars /\ Fairness

-----------------------------------------------------------------------------
(* Properties.                                                               *)

\* One executor at a time: however calls come, are dropped and find the registry
\* empty, a receive run of this owner never overlaps another one.
SingleFlight == \A t, u \in tasks : t = u

\* A waiter left in the list is one that the active run or its follow-up will
\* answer; with no active run there is none.  The branches of complete_run that
\* report "left uncovered waiters" exist because nothing in register checks it.
WaitersCovered ==
    \A w \in waiters :
        /\ active # 0
        /\ w.target = active \/ (w.target = active + 1 /\ pending # {})

\* The coordinator's own internal errors ("active run changed unexpectedly",
\* "left uncovered waiters", an exhausted id at the hand-over) reach no caller.
NoInternalError == \A r \in Requests : answer[r].outcome # "internal"

\* A change announced by DirtyAfterCurrent is reported as synchronised only by a
\* run whose executor was called after the announcement was registered.
DirtySeenByItsRun ==
    \A r \in Requests :
        call[r].kind = "DirtyAfterCurrent" /\ answer[r].outcome = "current"
            => r \in answer[r].covers

\* A coalesced follow-up reads at least as many events as each of the dirty
\* requests it answers asked for.
DirtyLimitHonoured ==
    \A r \in Requests :
        call[r].kind = "DirtyAfterCurrent" /\ answer[r].outcome = "current"
            => \A n \in call[r].limit : \E m \in answer[r].limit : n <= m

\* No run is manufactured: the active run is one that some call, still waiting
\* or since cancelled, registered for.
RunIsWanted == active # 0 => \E w \in waiters : w.target = active

\* Every call that waits is answered unless its caller drops it: cancelled
\* callers, failed leaders and stopped tasks strand nobody.
EveryWaiterAnswered ==
    \A r \in Requests : phase[r] = "waiting" ~> phase[r] \in {"answered", "returned", "cancelled"}

-----------------------------------------------------------------------------
(* The coordinator implements the service.                                   *)

Open == {r \in Requests : phase[r] = "waiting"}
Executing == {t \in tasks : t.step = "executing"}
Told(r) == CASE answer[r].outcome = "none" -> "none"
             [] answer[r].outcome = "current" -> "current"
             [] OTHER -> "failed"

Dirty == {r \in Requests : call[r].kind = "DirtyAfterCurrent"}
Running == Executing # {}
Seen == {r \in Open : \E t \in Executing : r \in t.covers}
Done == [r \in Requests |-> Told(r)]

Service == INSTANCE SyncService WITH
    dirty <- Dirty, open <- Open, running <- Running, seen <- Seen, done <- Done

\* Every step of register, complete_run, the completion guard and the callers is
\* a step of the service or one its callers cannot see, and its fairness follows
\* from that of the spawned task.
ImplementsService == Service!Spec
=============================================================================
