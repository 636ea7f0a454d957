------------------------ MODULE SyncCoordinatorProofs ------------------------
(* Proofs about SyncCoordinator, for every set of calls, every set of limits *)
(* and every range of run ids.                                               *)
EXTENDS SyncCoordinator, TLAPS

(* The inductive invariant.  The checked invariants are not inductive: that  *)
(* a dirty request is answered by a run that began after it needs, besides   *)
(* WaitersCovered, that the one task carries the active run, that a waiter   *)
(* targeting an executing run was there when it began, and that the limits   *)
(* of the waiters are below that of the run they wait for.                   *)

IsDirty(r) == call[r].kind = "DirtyAfterCurrent"

Within(limit, wider) == \A n \in limit : \E m \in wider : n <= m

ActiveInv ==
    /\ \A t \in tasks : t.run = active
    /\ active # 0 => tasks # {}
    /\ active # 0 => active = lastStarted

PendingInv ==
    /\ \A p, q \in pending : p = q
    /\ pending # {} => active # 0 /\ active < MaxRunId
    /\ pending # {} => \E w \in waiters : w.target = active + 1

WaiterInv ==
    /\ \A w \in waiters : phase[w.request] \in {"waiting", "cancelled"}
    /\ \A r \in Requests : phase[r] = "waiting" => \E w \in waiters : w.request = r
    /\ \A v, w \in waiters : v.request = w.request => v = w

CoverInv ==
    \A t \in tasks, w \in waiters :
        t.step = "executing" /\ w.target = t.run /\ IsDirty(w.request) => w.request \in t.covers

LimitInv ==
    \A w \in waiters : IsDirty(w.request) =>
        /\ \A t \in tasks : w.target = t.run => Within(call[w.request].limit, t.limit)
        /\ \A p \in pending : w.target = active + 1 => Within(call[w.request].limit, p.limit)

AnswerInv ==
    \A r \in Requests : phase[r] \notin {"answered", "returned"} => answer[r] = NoAnswer

IInv ==
    /\ TypeOK
    /\ SingleFlight
    /\ ActiveInv
    /\ PendingInv
    /\ WaitersCovered
    /\ WaiterInv
    /\ AnswerInv
    /\ CoverInv
    /\ LimitInv
    /\ RunIsWanted
    /\ NoInternalError
    /\ DirtySeenByItsRun
    /\ DirtyLimitHonoured

-----------------------------------------------------------------------------

\* The limit of a coalesced request is one of the given limits and at least each
\* of the two it merges (merge_pending_request).
LEMMA MergeWidens ==
    ASSUME NEW left \in Limits, NEW right \in Limits
    PROVE  /\ LargestLimit(left, right) \in Limits
           /\ Within(left, LargestLimit(left, right))
           /\ Within(right, LargestLimit(left, right))
<1>1. CASE left = {} \/ right = {}
  BY <1>1, LimitAssumption DEF LargestLimit, Limits, Within
<1>2. CASE left # {} /\ right # {}
  <2>1. PICK m \in LimitValues, n \in LimitValues : left = {m} /\ right = {n}
    BY <1>2 DEF Limits
  <2>2. m \in Nat /\ n \in Nat
    BY LimitAssumption
  <2>3. CASE m <= n
    <3>1. LargestLimit(left, right) = {n}
      BY <2>1, <2>2, <2>3 DEF LargestLimit
    <3>. QED BY <3>1, <2>1, <2>2, <2>3 DEF Limits, Within
  <2>4. CASE ~(m <= n)
    <3>1. LargestLimit(left, right) = {m}
      BY <2>1, <2>2, <2>4 DEF LargestLimit
    <3>. QED BY <3>1, <2>1, <2>2, <2>4 DEF Limits, Within
  <2>. QED BY <2>3, <2>4
<1>. QED BY <1>1, <1>2

\* A limit is not wider than itself, and widening is transitive.
LEMMA WithinTransitive ==
    ASSUME NEW a \in Limits, NEW b \in Limits, NEW c \in Limits, Within(a, b), Within(b, c)
    PROVE  Within(a, c)
<1>1. \A x, y, z \in Nat : x <= y /\ y <= z => x <= z
  OBVIOUS
<1>. QED BY <1>1, LimitAssumption DEF Within, Limits

LEMMA WithinReflexive ==
    ASSUME NEW a \in Limits
    PROVE  Within(a, a)
BY LimitAssumption DEF Within, Limits

\* With no active run there is no task, no follow-up and no waiter.
LEMMA IdleIsEmpty ==
    ASSUME IInv, active = 0
    PROVE  tasks = {} /\ pending = {} /\ waiters = {}
BY RunIdAssumption DEF IInv, TypeOK, ActiveInv, PendingInv, WaitersCovered, Tasks

\* While a task exists it is the only one and carries the active run.
LEMMA OneTask ==
    ASSUME IInv, NEW t \in tasks
    PROVE  tasks = {t} /\ t.run = active /\ active # 0 /\ t \in Tasks
BY RunIdAssumption DEF IInv, TypeOK, SingleFlight, ActiveInv, Tasks

-----------------------------------------------------------------------------

\* The default state of a coordinator with no calls satisfies the invariant.
LEMMA InitInv == Init => IInv
BY RunIdAssumption DEF Init, IInv, TypeOK, SingleFlight, ActiveInv, PendingInv, WaitersCovered, WaiterInv, AnswerInv, CoverInv, LimitInv, RunIsWanted, NoInternalError, DirtySeenByItsRun, DirtyLimitHonoured,
   NoAnswer, NoCall, Phases

\* A registry lookup, which may replace a coordinator nobody holds.
LEMMA ForOwnerInv ==
    ASSUME IInv, NEW r \in Requests, ForOwner(r)
    PROVE  IInv'
<1>0. tasks = {} => active = 0 /\ pending = {} /\ waiters = {}
  BY IdleIsEmpty DEF IInv, ActiveInv
<1>TypeOK. TypeOK'
  BY <1>0, RunIdAssumption DEF IInv, TypeOK, Calls, Waiters, Tasks, PendingRuns,
     Phases, Answers, Outcomes, ForOwner, Referenced, state
<1>SingleFlight. SingleFlight'
  BY <1>0, RunIdAssumption DEF IInv, TypeOK, SingleFlight, ForOwner, Referenced, state
<1>ActiveInv. ActiveInv'
  BY <1>0, RunIdAssumption DEF IInv, TypeOK, ActiveInv, ForOwner, Referenced, state
<1>PendingInv. PendingInv'
  BY <1>0, RunIdAssumption DEF IInv, TypeOK, PendingInv, ForOwner, Referenced, state
<1>WaitersCovered. WaitersCovered'
  BY <1>0, RunIdAssumption DEF IInv, TypeOK, WaitersCovered, ForOwner, Referenced,
     state
<1>WaiterInv. WaiterInv'
  BY <1>0, RunIdAssumption DEF IInv, TypeOK, WaiterInv, ForOwner, Referenced, state
<1>AnswerInv. AnswerInv'
  BY <1>0, RunIdAssumption DEF IInv, TypeOK, AnswerInv, ForOwner, Referenced, state
<1>CoverInv. CoverInv'
  BY <1>0, RunIdAssumption DEF IInv, TypeOK, CoverInv, IsDirty, ForOwner, Referenced,
     state
<1>LimitInv. LimitInv'
  BY <1>0, RunIdAssumption DEF IInv, TypeOK, LimitInv, IsDirty, Within, ForOwner,
     Referenced, state
<1>RunIsWanted. RunIsWanted'
  BY <1>0, RunIdAssumption DEF IInv, TypeOK, RunIsWanted, ForOwner, Referenced, state
<1>NoInternalError. NoInternalError'
  BY <1>0, RunIdAssumption DEF IInv, TypeOK, NoInternalError, WaiterInv, AnswerInv,
     NoAnswer, ForOwner, Referenced, state
<1>DirtySeenByItsRun. DirtySeenByItsRun'
  BY <1>0, RunIdAssumption DEF IInv, TypeOK, DirtySeenByItsRun, WaiterInv, AnswerInv,
     NoAnswer, ForOwner, Referenced, state
<1>DirtyLimitHonoured. DirtyLimitHonoured'
  BY <1>0, RunIdAssumption DEF IInv, TypeOK, DirtyLimitHonoured, WaiterInv, AnswerInv,
     NoAnswer, ForOwner, Referenced, state
<1>. QED BY <1>TypeOK, <1>SingleFlight, <1>ActiveInv, <1>PendingInv, <1>WaitersCovered,
     <1>WaiterInv, <1>AnswerInv, <1>CoverInv, <1>LimitInv, <1>RunIsWanted,
     <1>NoInternalError, <1>DirtySeenByItsRun, <1>DirtyLimitHonoured DEF IInv

\* A caller drops its future: its waiter stays in the list.
LEMMA CancelInv ==
    ASSUME IInv, NEW r \in Requests, Cancel(r)
    PROVE  IInv'
<1>TypeOK. TypeOK'
  BY DEF IInv, TypeOK, Calls, Waiters, Tasks, PendingRuns, Phases, Answers, Outcomes,
     Cancel
<1>SingleFlight. SingleFlight'
  BY DEF IInv, TypeOK, SingleFlight, Cancel
<1>ActiveInv. ActiveInv'
  BY DEF IInv, TypeOK, ActiveInv, Cancel
<1>PendingInv. PendingInv'
  BY DEF IInv, TypeOK, PendingInv, Cancel
<1>WaitersCovered. WaitersCovered'
  BY DEF IInv, TypeOK, WaitersCovered, Cancel
<1>WaiterInv. WaiterInv'
  BY DEF IInv, TypeOK, WaiterInv, Cancel
<1>AnswerInv. AnswerInv'
  BY DEF IInv, TypeOK, AnswerInv, Cancel
<1>CoverInv. CoverInv'
  BY DEF IInv, TypeOK, CoverInv, IsDirty, Cancel
<1>LimitInv. LimitInv'
  BY DEF IInv, TypeOK, LimitInv, IsDirty, Within, Cancel
<1>RunIsWanted. RunIsWanted'
  BY DEF IInv, TypeOK, RunIsWanted, Cancel
<1>NoInternalError. NoInternalError'
  BY DEF IInv, TypeOK, NoInternalError, WaiterInv, AnswerInv, NoAnswer, Cancel
<1>DirtySeenByItsRun. DirtySeenByItsRun'
  BY DEF IInv, TypeOK, DirtySeenByItsRun, WaiterInv, AnswerInv, NoAnswer, Cancel
<1>DirtyLimitHonoured. DirtyLimitHonoured'
  BY DEF IInv, TypeOK, DirtyLimitHonoured, WaiterInv, AnswerInv, NoAnswer, Cancel
<1>. QED BY <1>TypeOK, <1>SingleFlight, <1>ActiveInv, <1>PendingInv, <1>WaitersCovered,
     <1>WaiterInv, <1>AnswerInv, <1>CoverInv, <1>LimitInv, <1>RunIsWanted,
     <1>NoInternalError, <1>DirtySeenByItsRun, <1>DirtyLimitHonoured DEF IInv

\* An answered call returns and lets go of the coordinator.
LEMMA ReturnInv ==
    ASSUME IInv, NEW r \in Requests, Return(r)
    PROVE  IInv'
<1>TypeOK. TypeOK'
  BY DEF IInv, TypeOK, Calls, Waiters, Tasks, PendingRuns, Phases, Answers, Outcomes,
     Return
<1>SingleFlight. SingleFlight'
  BY DEF IInv, TypeOK, SingleFlight, Return
<1>ActiveInv. ActiveInv'
  BY DEF IInv, TypeOK, ActiveInv, Return
<1>PendingInv. PendingInv'
  BY DEF IInv, TypeOK, PendingInv, Return
<1>WaitersCovered. WaitersCovered'
  BY DEF IInv, TypeOK, WaitersCovered, Return
<1>WaiterInv. WaiterInv'
  BY DEF IInv, TypeOK, WaiterInv, Return
<1>AnswerInv. AnswerInv'
  BY DEF IInv, TypeOK, AnswerInv, Return
<1>CoverInv. CoverInv'
  BY DEF IInv, TypeOK, CoverInv, IsDirty, Return
<1>LimitInv. LimitInv'
  BY DEF IInv, TypeOK, LimitInv, IsDirty, Within, Return
<1>RunIsWanted. RunIsWanted'
  BY DEF IInv, TypeOK, RunIsWanted, Return
<1>NoInternalError. NoInternalError'
  BY DEF IInv, TypeOK, NoInternalError, WaiterInv, AnswerInv, NoAnswer, Return
<1>DirtySeenByItsRun. DirtySeenByItsRun'
  BY DEF IInv, TypeOK, DirtySeenByItsRun, WaiterInv, AnswerInv, NoAnswer, Return
<1>DirtyLimitHonoured. DirtyLimitHonoured'
  BY DEF IInv, TypeOK, DirtyLimitHonoured, WaiterInv, AnswerInv, NoAnswer, Return
<1>. QED BY <1>TypeOK, <1>SingleFlight, <1>ActiveInv, <1>PendingInv, <1>WaitersCovered,
     <1>WaiterInv, <1>AnswerInv, <1>CoverInv, <1>LimitInv, <1>RunIsWanted,
     <1>NoInternalError, <1>DirtySeenByItsRun, <1>DirtyLimitHonoured DEF IInv

\* register refuses a call for want of a run id.
LEMMA RefusedInv ==
    ASSUME IInv, NEW r \in Requests, NEW kind \in Kinds, RegisterRefused(r, kind)
    PROVE  IInv'
<1>TypeOK. TypeOK'
  BY DEF IInv, TypeOK, Calls, Waiters, Tasks, PendingRuns, Phases, Answers, Outcomes,
     RegisterRefused
<1>SingleFlight. SingleFlight'
  BY DEF IInv, TypeOK, SingleFlight, RegisterRefused
<1>ActiveInv. ActiveInv'
  BY DEF IInv, TypeOK, ActiveInv, RegisterRefused
<1>PendingInv. PendingInv'
  BY DEF IInv, TypeOK, PendingInv, RegisterRefused
<1>WaitersCovered. WaitersCovered'
  BY DEF IInv, TypeOK, WaitersCovered, RegisterRefused
<1>WaiterInv. WaiterInv'
  BY DEF IInv, TypeOK, WaiterInv, RegisterRefused
<1>AnswerInv. AnswerInv'
  BY DEF IInv, TypeOK, AnswerInv, RegisterRefused
<1>CoverInv. CoverInv'
  BY DEF IInv, TypeOK, CoverInv, IsDirty, RegisterRefused
<1>LimitInv. LimitInv'
  BY DEF IInv, TypeOK, LimitInv, IsDirty, Within, RegisterRefused
<1>RunIsWanted. RunIsWanted'
  BY DEF IInv, TypeOK, RunIsWanted, RegisterRefused
<1>NoInternalError. NoInternalError'
  BY DEF IInv, TypeOK, NoInternalError, WaiterInv, AnswerInv, NoAnswer, RegisterRefused
<1>DirtySeenByItsRun. DirtySeenByItsRun'
  BY DEF IInv, TypeOK, DirtySeenByItsRun, WaiterInv, AnswerInv, NoAnswer,
     RegisterRefused
<1>DirtyLimitHonoured. DirtyLimitHonoured'
  BY DEF IInv, TypeOK, DirtyLimitHonoured, WaiterInv, AnswerInv, NoAnswer,
     RegisterRefused
<1>. QED BY <1>TypeOK, <1>SingleFlight, <1>ActiveInv, <1>PendingInv, <1>WaitersCovered,
     <1>WaiterInv, <1>AnswerInv, <1>CoverInv, <1>LimitInv, <1>RunIsWanted,
     <1>NoInternalError, <1>DirtySeenByItsRun, <1>DirtyLimitHonoured DEF IInv

\* A call that finds no active run starts one.
LEMMA LeaderInv ==
    ASSUME IInv, NEW r \in Requests, NEW kind \in Kinds, NEW limit \in Limits, RegisterLeader(r, kind, limit)
    PROVE  IInv'
<1>0. tasks = {} /\ pending = {} /\ waiters = {}
  BY IdleIsEmpty DEF RegisterLeader
<1>TypeOK. TypeOK'
  BY <1>0, RunIdAssumption DEF IInv, TypeOK, Calls, Waiters, Tasks, PendingRuns,
     Phases, Answers, Outcomes, RegisterLeader, Wait, HasNextRunId
<1>SingleFlight. SingleFlight'
  BY <1>0, RunIdAssumption DEF IInv, TypeOK, SingleFlight, RegisterLeader, Wait,
     HasNextRunId
<1>ActiveInv. ActiveInv'
  BY <1>0, RunIdAssumption DEF IInv, TypeOK, ActiveInv, RegisterLeader, Wait,
     HasNextRunId
<1>PendingInv. PendingInv'
  BY <1>0, RunIdAssumption DEF IInv, TypeOK, PendingInv, RegisterLeader, Wait,
     HasNextRunId
<1>WaitersCovered. WaitersCovered'
  BY <1>0, RunIdAssumption DEF IInv, TypeOK, WaitersCovered, RegisterLeader, Wait,
     HasNextRunId
<1>WaiterInv. WaiterInv'
  BY <1>0, RunIdAssumption DEF IInv, TypeOK, WaiterInv, RegisterLeader, Wait,
     HasNextRunId
<1>AnswerInv. AnswerInv'
  BY <1>0, RunIdAssumption DEF IInv, TypeOK, AnswerInv, RegisterLeader, Wait,
     HasNextRunId
<1>CoverInv. CoverInv'
  BY <1>0, RunIdAssumption DEF IInv, TypeOK, CoverInv, IsDirty, RegisterLeader, Wait,
     HasNextRunId
<1>LimitInv. LimitInv'
  BY <1>0, RunIdAssumption, WithinReflexive DEF IInv, TypeOK, LimitInv, IsDirty,
     RegisterLeader, Wait, HasNextRunId
<1>RunIsWanted. RunIsWanted'
  BY <1>0, RunIdAssumption DEF IInv, TypeOK, RunIsWanted, RegisterLeader, Wait,
     HasNextRunId
<1>NoInternalError. NoInternalError'
  BY <1>0, RunIdAssumption DEF IInv, TypeOK, NoInternalError, WaiterInv, AnswerInv,
     NoAnswer, RegisterLeader, Wait, HasNextRunId
<1>DirtySeenByItsRun. DirtySeenByItsRun'
  BY <1>0, RunIdAssumption DEF IInv, TypeOK, DirtySeenByItsRun, WaiterInv, AnswerInv,
     NoAnswer, RegisterLeader, Wait, HasNextRunId
<1>DirtyLimitHonoured. DirtyLimitHonoured'
  BY <1>0, RunIdAssumption DEF IInv, TypeOK, DirtyLimitHonoured, WaiterInv, AnswerInv,
     NoAnswer, RegisterLeader, Wait, HasNextRunId
<1>. QED BY <1>TypeOK, <1>SingleFlight, <1>ActiveInv, <1>PendingInv, <1>WaitersCovered,
     <1>WaiterInv, <1>AnswerInv, <1>CoverInv, <1>LimitInv, <1>RunIsWanted,
     <1>NoInternalError, <1>DirtySeenByItsRun, <1>DirtyLimitHonoured DEF IInv

\* A call that wants the current state joins the active run or its follow-up.
LEMMA EnsureInv ==
    ASSUME IInv, NEW r \in Requests, NEW limit \in Limits, RegisterEnsure(r, limit)
    PROVE  IInv'
<1>0. r \notin {w.request : w \in waiters}
  BY DEF IInv, WaiterInv, RegisterEnsure
<1>w. PICK n \in 1 .. MaxRunId : waiters' = waiters \cup {[request |-> r, target |-> n]}
  BY RunIdAssumption DEF IInv, TypeOK, RegisterEnsure, Wait, HasNextRunId, EnsureTarget
<1>TypeOK. TypeOK'
  BY <1>0, RunIdAssumption DEF IInv, TypeOK, Calls, Waiters, Tasks, PendingRuns,
     Phases, Answers, Outcomes, Kinds, RegisterEnsure, Wait, HasNextRunId, EnsureTarget
<1>SingleFlight. SingleFlight'
  BY DEF IInv, TypeOK, SingleFlight, RegisterEnsure, Wait, HasNextRunId, EnsureTarget
<1>ActiveInv. ActiveInv'
  BY DEF IInv, TypeOK, ActiveInv, RegisterEnsure, Wait, HasNextRunId, EnsureTarget
<1>PendingInv. PendingInv'
  BY DEF IInv, TypeOK, PendingInv, RegisterEnsure, Wait, HasNextRunId, EnsureTarget
<1>WaitersCovered. WaitersCovered'
  BY DEF IInv, TypeOK, WaitersCovered, RegisterEnsure, Wait, HasNextRunId, EnsureTarget
<1>WaiterInv. WaiterInv'
  <2>1. phase' = [phase EXCEPT ![r] = "waiting"]
    BY DEF RegisterEnsure, Wait
  <2>2. \A v, w \in waiters' : v.request = w.request => v = w
    BY <1>0, <1>w DEF IInv, WaiterInv
  <2>3. \A q \in Requests : phase'[q] = "waiting" => \E w \in waiters' : w.request = q
    <3>1. [request |-> r, target |-> n] \in waiters' /\ waiters \subseteq waiters'
      BY <1>w
    <3>. QED BY <2>1, <3>1 DEF IInv, TypeOK, WaiterInv
  <2>4. \A w \in waiters' : phase'[w.request] \in {"waiting", "cancelled"}
    BY <1>0, <1>w, <2>1 DEF IInv, TypeOK, WaiterInv, Waiters
  <2>. QED BY <2>2, <2>3, <2>4 DEF WaiterInv
<1>AnswerInv. AnswerInv'
  BY DEF IInv, TypeOK, AnswerInv, RegisterEnsure, Wait, HasNextRunId, EnsureTarget
<1>CoverInv. CoverInv'
  BY <1>0 DEF IInv, TypeOK, CoverInv, IsDirty, RegisterEnsure, Wait, HasNextRunId,
     EnsureTarget
<1>LimitInv. LimitInv'
  BY <1>0 DEF IInv, TypeOK, LimitInv, IsDirty, Within, RegisterEnsure, Wait,
     HasNextRunId, EnsureTarget
<1>RunIsWanted. RunIsWanted'
  BY DEF IInv, TypeOK, RunIsWanted, RegisterEnsure, Wait, HasNextRunId, EnsureTarget
<1>NoInternalError. NoInternalError'
  BY DEF IInv, TypeOK, NoInternalError, WaiterInv, AnswerInv, NoAnswer, RegisterEnsure,
     Wait, HasNextRunId, EnsureTarget
<1>DirtySeenByItsRun. DirtySeenByItsRun'
  BY DEF IInv, TypeOK, DirtySeenByItsRun, WaiterInv, AnswerInv, NoAnswer,
     RegisterEnsure, Wait, HasNextRunId, EnsureTarget
<1>DirtyLimitHonoured. DirtyLimitHonoured'
  BY DEF IInv, TypeOK, DirtyLimitHonoured, WaiterInv, AnswerInv, NoAnswer,
     RegisterEnsure, Wait, HasNextRunId, EnsureTarget
<1>. QED BY <1>TypeOK, <1>SingleFlight, <1>ActiveInv, <1>PendingInv, <1>WaitersCovered,
     <1>WaiterInv, <1>AnswerInv, <1>CoverInv, <1>LimitInv, <1>RunIsWanted,
     <1>NoInternalError, <1>DirtySeenByItsRun, <1>DirtyLimitHonoured DEF IInv

\* A call that announces a change schedules or widens the follow-up.
LEMMA DirtyInv ==
    ASSUME IInv, NEW r \in Requests, NEW limit \in Limits, RegisterDirty(r, limit)
    PROVE  IInv'
<1>0. r \notin {w.request : w \in waiters}
  BY DEF IInv, WaiterInv, RegisterDirty
<1>w. PICK n \in 1 .. MaxRunId : waiters' = waiters \cup {[request |-> r, target |-> n]}
  BY RunIdAssumption DEF IInv, TypeOK, RegisterDirty, Wait, HasNextRunId, EnsureTarget
<1>p. PICK p \in PendingRuns :
        /\ pending' = {p}
        /\ Within(limit, p.limit)
        /\ \A q \in pending : Within(q.limit, p.limit)
  <2>1. CASE pending = {}
    <3>1. pending' = {[limit |-> limit, executor |-> r]}
      BY <2>1 DEF RegisterDirty, PendingWith
    <3>2. [limit |-> limit, executor |-> r] \in PendingRuns
      BY DEF PendingRuns
    <3>. QED BY <2>1, <3>1, <3>2, WithinReflexive
  <2>2. CASE pending # {}
    <3>1. PICK q \in pending : pending = {q}
      BY <2>2 DEF IInv, PendingInv
    <3>2. q.limit \in Limits
      BY DEF IInv, TypeOK, PendingRuns
    <3>3. pending' = {MergePendingRequest(q, limit, r)}
      BY <2>2, <3>1 DEF RegisterDirty, PendingWith
    <3>4. MergePendingRequest(q, limit, r) \in PendingRuns
      BY <3>2, MergeWidens DEF MergePendingRequest, PendingRuns
    <3>5. MergePendingRequest(q, limit, r).limit = LargestLimit(q.limit, limit)
      BY DEF MergePendingRequest
    <3>. QED BY <3>1, <3>2, <3>3, <3>4, <3>5, MergeWidens
  <2>. QED BY <2>1, <2>2
<1>TypeOK. TypeOK'
  BY <1>0, <1>p, RunIdAssumption DEF IInv, TypeOK, Calls, Waiters, Tasks, PendingRuns,
     Phases, Answers, Outcomes, Kinds, RegisterDirty, Wait, HasNextRunId
<1>SingleFlight. SingleFlight'
  BY DEF IInv, TypeOK, SingleFlight, RegisterDirty, Wait, HasNextRunId
<1>ActiveInv. ActiveInv'
  BY DEF IInv, TypeOK, ActiveInv, RegisterDirty, Wait, HasNextRunId
<1>PendingInv. PendingInv'
  <2>1. [request |-> r, target |-> active + 1] \in waiters'
    BY DEF RegisterDirty, Wait
  <2>. QED BY <1>p, <2>1 DEF IInv, TypeOK, PendingInv, RegisterDirty, HasNextRunId
<1>WaitersCovered. WaitersCovered'
  BY <1>p DEF IInv, TypeOK, WaitersCovered, RegisterDirty, Wait, HasNextRunId
<1>WaiterInv. WaiterInv'
  <2>1. phase' = [phase EXCEPT ![r] = "waiting"]
    BY DEF RegisterDirty, Wait
  <2>2. \A v, w \in waiters' : v.request = w.request => v = w
    BY <1>0, <1>w DEF IInv, WaiterInv
  <2>3. \A q \in Requests : phase'[q] = "waiting" => \E w \in waiters' : w.request = q
    <3>1. [request |-> r, target |-> n] \in waiters' /\ waiters \subseteq waiters'
      BY <1>w
    <3>. QED BY <2>1, <3>1 DEF IInv, TypeOK, WaiterInv
  <2>4. \A w \in waiters' : phase'[w.request] \in {"waiting", "cancelled"}
    BY <1>0, <1>w, <2>1 DEF IInv, TypeOK, WaiterInv, Waiters
  <2>. QED BY <2>2, <2>3, <2>4 DEF WaiterInv
<1>AnswerInv. AnswerInv'
  BY DEF IInv, TypeOK, AnswerInv, RegisterDirty, Wait, HasNextRunId
<1>CoverInv. CoverInv'
  BY <1>0 DEF IInv, TypeOK, CoverInv, IsDirty, ActiveInv, RegisterDirty, Wait,
     HasNextRunId
<1>LimitInv. LimitInv'
  <2>. SUFFICES ASSUME NEW w \in waiters', IsDirty(w.request)'
                PROVE  /\ \A t \in tasks' : w.target = t.run => Within(call'[w.request].limit, t.limit)
                       /\ \A q \in pending' :
                             w.target = active' + 1 => Within(call'[w.request].limit, q.limit)
    BY DEF LimitInv
  <2>1. CASE w.request = r
    <3>1. w \notin waiters
      BY <2>1, <1>0
    <3>2. w.target = active + 1 /\ call'[w.request].limit = limit
      BY <2>1, <3>1 DEF RegisterDirty, Wait, IInv, TypeOK
    <3>3. \A t \in tasks' : w.target # t.run
      BY <3>2, RunIdAssumption DEF RegisterDirty, IInv, ActiveInv, TypeOK
    <3>. QED BY <3>2, <3>3, <1>p
  <2>2. CASE w.request # r
    <3>1. w \in waiters /\ call'[w.request] = call[w.request] /\ IsDirty(w.request)
      BY <2>2 DEF RegisterDirty, Wait, IInv, TypeOK, Waiters, IsDirty
    <3>2. call[w.request].limit \in Limits
      BY <3>1 DEF IInv, TypeOK, Waiters, Calls, NoCall, Limits
    <3>3. ASSUME w.target = active + 1
          PROVE  Within(call[w.request].limit, p.limit)
      <4>1. PICK q \in pending : TRUE
        BY <3>1, <3>3, RunIdAssumption DEF IInv, WaitersCovered, TypeOK
      <4>2. Within(call[w.request].limit, q.limit) /\ q.limit \in Limits
        BY <4>1, <3>1, <3>3 DEF IInv, LimitInv, TypeOK, PendingRuns
      <4>3. p.limit \in Limits /\ Within(q.limit, p.limit)
        BY <1>p, <4>1 DEF PendingRuns
      <4>. QED BY <4>2, <4>3, <3>2, WithinTransitive
    <3>. QED BY <3>1, <3>3, <1>p DEF RegisterDirty, IInv, LimitInv
  <2>. QED BY <2>1, <2>2
<1>RunIsWanted. RunIsWanted'
  BY DEF IInv, TypeOK, RunIsWanted, RegisterDirty, Wait, HasNextRunId
<1>NoInternalError. NoInternalError'
  BY DEF IInv, TypeOK, NoInternalError, WaiterInv, AnswerInv, NoAnswer, RegisterDirty,
     Wait, HasNextRunId
<1>DirtySeenByItsRun. DirtySeenByItsRun'
  BY DEF IInv, TypeOK, DirtySeenByItsRun, WaiterInv, AnswerInv, NoAnswer,
     RegisterDirty, Wait, HasNextRunId
<1>DirtyLimitHonoured. DirtyLimitHonoured'
  BY DEF IInv, TypeOK, DirtyLimitHonoured, WaiterInv, AnswerInv, NoAnswer,
     RegisterDirty, Wait, HasNextRunId
<1>. QED BY <1>TypeOK, <1>SingleFlight, <1>ActiveInv, <1>PendingInv, <1>WaitersCovered,
     <1>WaiterInv, <1>AnswerInv, <1>CoverInv, <1>LimitInv, <1>RunIsWanted,
     <1>NoInternalError, <1>DirtySeenByItsRun, <1>DirtyLimitHonoured DEF IInv

\* The task calls the executor of its run.
LEMMA CallExecutorInv ==
    ASSUME IInv, NEW t \in tasks, CallExecutor(t)
    PROVE  IInv'
<1>0. PICK u \in Tasks :
        /\ tasks = {t} /\ tasks' = {u}
        /\ u.run = t.run /\ u.limit = t.limit /\ u.covers = {w.request : w \in waiters}
  <2>1. tasks = {t} /\ t \in Tasks
    BY OneTask
  <2>2. {w.request : w \in waiters} \subseteq Requests
    BY DEF IInv, TypeOK, Waiters
  <2>3. tasks' = {[t EXCEPT !.step = "executing", !.covers = {w.request : w \in waiters}]}
    BY <2>1 DEF CallExecutor
  <2>4. [t EXCEPT !.step = "executing", !.covers = {w.request : w \in waiters}] \in Tasks
    BY <2>1, <2>2 DEF Tasks
  <2>. QED BY <2>1, <2>3, <2>4 DEF Tasks
<1>TypeOK. TypeOK'
  BY <1>0 DEF IInv, TypeOK, Calls, Waiters, Tasks, PendingRuns, Phases, Answers,
     Outcomes, CallExecutor
<1>SingleFlight. SingleFlight'
  BY <1>0 DEF IInv, TypeOK, SingleFlight, CallExecutor
<1>ActiveInv. ActiveInv'
  BY <1>0 DEF IInv, TypeOK, ActiveInv, CallExecutor
<1>PendingInv. PendingInv'
  BY DEF IInv, TypeOK, PendingInv, CallExecutor
<1>WaitersCovered. WaitersCovered'
  BY DEF IInv, TypeOK, WaitersCovered, CallExecutor
<1>WaiterInv. WaiterInv'
  BY DEF IInv, TypeOK, WaiterInv, CallExecutor
<1>AnswerInv. AnswerInv'
  BY DEF IInv, TypeOK, AnswerInv, CallExecutor
<1>CoverInv. CoverInv'
  BY <1>0 DEF IInv, TypeOK, CoverInv, CallExecutor
<1>LimitInv. LimitInv'
  <2>1. UNCHANGED <<active, call, pending, waiters>>
    BY DEF CallExecutor
  <2>2. \A w \in waiters : IsDirty(w.request) /\ w.target = t.run => Within(call[w.request].limit, u.limit)
    BY <1>0 DEF IInv, LimitInv
  <2>. QED BY <1>0, <2>1, <2>2 DEF IInv, LimitInv, IsDirty
<1>RunIsWanted. RunIsWanted'
  BY DEF IInv, TypeOK, RunIsWanted, CallExecutor
<1>NoInternalError. NoInternalError'
  BY DEF IInv, TypeOK, NoInternalError, WaiterInv, AnswerInv, NoAnswer, CallExecutor
<1>DirtySeenByItsRun. DirtySeenByItsRun'
  BY DEF IInv, TypeOK, DirtySeenByItsRun, WaiterInv, AnswerInv, NoAnswer, CallExecutor
<1>DirtyLimitHonoured. DirtyLimitHonoured'
  BY DEF IInv, TypeOK, DirtyLimitHonoured, WaiterInv, AnswerInv, NoAnswer, CallExecutor
<1>. QED BY <1>TypeOK, <1>SingleFlight, <1>ActiveInv, <1>PendingInv, <1>WaitersCovered,
     <1>WaiterInv, <1>AnswerInv, <1>CoverInv, <1>LimitInv, <1>RunIsWanted,
     <1>NoInternalError, <1>DirtySeenByItsRun, <1>DirtyLimitHonoured DEF IInv

\* A successful run answers its waiters and hands over to the follow-up.
LEMMA FollowUpInv ==
    ASSUME IInv, NEW t \in tasks, CompleteThenFollowUp(t)
    PROVE  IInv'
<1>0. tasks = {t} /\ t.run = active /\ t \in Tasks /\ active = lastStarted
  BY OneTask DEF IInv, ActiveInv
<1>1. PICK p \in pending : pending = {p}
  BY DEF CompleteThenFollowUp, IInv, PendingInv
<1>2. PICK u \in Tasks :
        tasks' = {u} /\ u.run = active + 1 /\ u.limit = p.limit /\ u.step = "next"
  <2>. DEFINE u == [run |-> active + 1, limit |-> p.limit, executor |-> p.executor,
                    step |-> "next", covers |-> {}]
  <2>1. tasks' = {u}
    BY <1>0, <1>1 DEF CompleteThenFollowUp
  <2>2. p.limit \in Limits /\ p.executor \in Requests
    BY DEF IInv, TypeOK, PendingRuns
  <2>3. active + 1 \in 1 .. MaxRunId
    BY <1>0, RunIdAssumption DEF CompleteThenFollowUp, HasNextRunId, IInv, TypeOK
  <2>4. u \in Tasks
    BY <2>2, <2>3 DEF Tasks
  <2>. QED BY <2>1, <2>4
<1>3. \A w \in waiters' : w \in waiters /\ w.target = active + 1
  BY <1>0, RunIdAssumption
     DEF CompleteThenFollowUp, Publish, WaitersThrough, IInv, WaitersCovered, TypeOK, Waiters
<1>4. \E w \in waiters' : w.target = active + 1
  BY <1>0, <1>1, RunIdAssumption DEF CompleteThenFollowUp, Publish, WaitersThrough, IInv, PendingInv, TypeOK
<1>5. Result(t, "current") \in Answers
  BY <1>0 DEF Result, Answers, Outcomes, Tasks
<1>6. \A r \in Requests :
        \/ answer'[r] = answer[r]
        \/ /\ answer'[r] = Result(t, "current") /\ phase'[r] = "answered"
           /\ \E w \in waiters : w.request = r /\ w.target <= active
  BY <1>0 DEF CompleteThenFollowUp, Publish, Answered, WaitersThrough, IInv, TypeOK
<1>7. \A r \in Requests :
        phase'[r] = IF phase[r] = "waiting" /\ \E w \in WaitersThrough(active) : w.request = r
                    THEN "answered" ELSE phase[r]
  BY <1>0 DEF CompleteThenFollowUp, Publish
<1>8. \A w \in waiters : w.target <= active /\ IsDirty(w.request) =>
        /\ w.request \in Result(t, "current").covers
        /\ Within(call[w.request].limit, Result(t, "current").limit)
  <2>1. \A w \in waiters : w.target <= active => w.target = t.run
    BY <1>0, RunIdAssumption DEF IInv, TypeOK, WaitersCovered, Waiters
  <2>2. t.step = "executing"
    BY DEF CompleteThenFollowUp
  <2>. QED BY <2>1, <2>2 DEF Result, IInv, CoverInv, LimitInv
<1>9. phase' \in [Requests -> Phases] /\ answer' \in [Requests -> Answers \cup {NoAnswer}]
  <2>1. phase' = [r \in Requests |-> phase'[r]] /\ answer' = [r \in Requests |-> answer'[r]]
    BY DEF CompleteThenFollowUp, Publish, Answered
  <2>. QED BY <1>5, <1>6, <1>7, <2>1 DEF IInv, TypeOK, Phases
<1>TypeOK. TypeOK'
  BY <1>0, <1>2, <1>3, <1>9, RunIdAssumption DEF IInv, TypeOK, HasNextRunId,
     CompleteThenFollowUp
<1>SingleFlight. SingleFlight'
  BY <1>2 DEF IInv, TypeOK, SingleFlight, CompleteThenFollowUp
<1>ActiveInv. ActiveInv'
  BY <1>0, <1>2 DEF IInv, TypeOK, ActiveInv, CompleteThenFollowUp
<1>PendingInv. PendingInv'
  BY DEF IInv, TypeOK, PendingInv, CompleteThenFollowUp
<1>WaitersCovered. WaitersCovered'
  BY <1>0, <1>3 DEF IInv, TypeOK, WaitersCovered, CompleteThenFollowUp
<1>WaiterInv. WaiterInv'
  <2>1. waiters' \subseteq waiters
    BY <1>3
  <2>2. \A w \in waiters' : phase'[w.request] = phase[w.request]
    BY <1>0, <1>3, <1>7, RunIdAssumption DEF IInv, TypeOK, WaiterInv, Waiters, WaitersThrough
  <2>3. \A r \in Requests : phase'[r] = "waiting" => \E w \in waiters' : w.request = r
    BY <1>7 DEF IInv, WaiterInv, CompleteThenFollowUp, Publish
  <2>. QED BY <2>1, <2>2, <2>3 DEF IInv, WaiterInv
<1>AnswerInv. AnswerInv'
  BY <1>6, <1>7 DEF IInv, TypeOK, AnswerInv, CompleteThenFollowUp
<1>CoverInv. CoverInv'
  BY <1>2 DEF IInv, TypeOK, CoverInv, CompleteThenFollowUp
<1>LimitInv. LimitInv'
  BY <1>0, <1>1, <1>2, <1>3 DEF IInv, TypeOK, LimitInv, IsDirty, CompleteThenFollowUp
<1>RunIsWanted. RunIsWanted'
  BY <1>0, <1>4 DEF IInv, TypeOK, RunIsWanted, CompleteThenFollowUp
<1>NoInternalError. NoInternalError'
  BY <1>6 DEF IInv, TypeOK, NoInternalError, Result, CompleteThenFollowUp
<1>DirtySeenByItsRun. DirtySeenByItsRun'
  BY <1>6, <1>8 DEF IInv, TypeOK, DirtySeenByItsRun, IsDirty, CompleteThenFollowUp
<1>DirtyLimitHonoured. DirtyLimitHonoured'
  BY <1>6, <1>8 DEF IInv, TypeOK, DirtyLimitHonoured, IsDirty, Within,
     CompleteThenFollowUp
<1>. QED BY <1>TypeOK, <1>SingleFlight, <1>ActiveInv, <1>PendingInv, <1>WaitersCovered,
     <1>WaiterInv, <1>AnswerInv, <1>CoverInv, <1>LimitInv, <1>RunIsWanted,
     <1>NoInternalError, <1>DirtySeenByItsRun, <1>DirtyLimitHonoured DEF IInv

\* A failed run fails its waiters and those of the follow-up it drops.
LEMMA FailedInv ==
    ASSUME IInv, NEW t \in tasks, CompleteFailed(t)
    PROVE  IInv'
<1>0. tasks = {t} /\ t.run = active /\ t \in Tasks
  BY OneTask
<1>1. tasks' = {} /\ active' = 0 /\ pending' = {} /\ waiters' = {} /\ UNCHANGED <<lastStarted, call>>
  BY <1>0 DEF CompleteFailed, FailAllWaiters, Publish
<1>2. PICK o \in {"failed"} : \A r \in Requests :
        \/ answer'[r] = answer[r] /\ phase'[r] = phase[r] /\ phase[r] # "waiting"
        \/ answer'[r] = Result(t, o) /\ phase'[r] = "answered" /\ phase[r] = "waiting"
  BY <1>0, RunIdAssumption DEF IInv, TypeOK, WaiterInv, WaitersCovered, CompleteFailed, FailAllWaiters, Publish, Answered
<1>3. Result(t, o) \in Answers
  BY <1>0 DEF Result, Answers, Outcomes, Tasks
<1>4. phase' \in [Requests -> Phases] /\ answer' \in [Requests -> Answers \cup {NoAnswer}]
  <2>1. /\ phase' = [r \in Requests |-> phase'[r]]
        /\ answer' = [r \in Requests |-> answer'[r]]
    BY DEF IInv, TypeOK, CompleteFailed, FailAllWaiters, Publish, Answered
  <2>. QED BY <1>2, <1>3, <2>1 DEF IInv, TypeOK, Phases
<1>TypeOK. TypeOK'
  BY <1>1, <1>4, RunIdAssumption DEF IInv, TypeOK
<1>SingleFlight. SingleFlight'
  BY <1>1 DEF IInv, TypeOK, SingleFlight
<1>ActiveInv. ActiveInv'
  BY <1>1 DEF IInv, TypeOK, ActiveInv
<1>PendingInv. PendingInv'
  BY <1>1 DEF IInv, TypeOK, PendingInv
<1>WaitersCovered. WaitersCovered'
  BY <1>1 DEF IInv, TypeOK, WaitersCovered
<1>WaiterInv. WaiterInv'
  BY <1>1, <1>2 DEF IInv, TypeOK, WaiterInv
<1>AnswerInv. AnswerInv'
  BY <1>2 DEF IInv, TypeOK, AnswerInv
<1>CoverInv. CoverInv'
  BY <1>1 DEF IInv, TypeOK, CoverInv
<1>LimitInv. LimitInv'
  BY <1>1 DEF IInv, TypeOK, LimitInv
<1>RunIsWanted. RunIsWanted'
  BY <1>1 DEF IInv, TypeOK, RunIsWanted
<1>NoInternalError. NoInternalError'
  BY <1>2 DEF IInv, TypeOK, NoInternalError, Result
<1>DirtySeenByItsRun. DirtySeenByItsRun'
  BY <1>1, <1>2 DEF IInv, TypeOK, DirtySeenByItsRun, Result
<1>DirtyLimitHonoured. DirtyLimitHonoured'
  BY <1>1, <1>2 DEF IInv, TypeOK, DirtyLimitHonoured, Result
<1>. QED BY <1>TypeOK, <1>SingleFlight, <1>ActiveInv, <1>PendingInv, <1>WaitersCovered,
     <1>WaiterInv, <1>AnswerInv, <1>CoverInv, <1>LimitInv, <1>RunIsWanted,
     <1>NoInternalError, <1>DirtySeenByItsRun, <1>DirtyLimitHonoured DEF IInv

\* The completion guard does the same for a task that stops.
LEMMA StoppedInv ==
    ASSUME IInv, NEW t \in tasks, TaskStopped(t)
    PROVE  IInv'
<1>0. tasks = {t} /\ t.run = active /\ t \in Tasks
  BY OneTask
<1>1. tasks' = {} /\ active' = 0 /\ pending' = {} /\ waiters' = {} /\ UNCHANGED <<lastStarted, call>>
  BY <1>0, OneTask DEF TaskStopped, FailAllWaiters, Publish
<1>2. PICK o \in {"stopped"} : \A r \in Requests :
        \/ answer'[r] = answer[r] /\ phase'[r] = phase[r] /\ phase[r] # "waiting"
        \/ answer'[r] = Result(t, o) /\ phase'[r] = "answered" /\ phase[r] = "waiting"
  BY <1>0, RunIdAssumption DEF IInv, TypeOK, WaiterInv, WaitersCovered, TaskStopped, FailAllWaiters, Publish, Answered
<1>3. Result(t, o) \in Answers
  BY <1>0 DEF Result, Answers, Outcomes, Tasks
<1>4. phase' \in [Requests -> Phases] /\ answer' \in [Requests -> Answers \cup {NoAnswer}]
  <2>1. /\ phase' = [r \in Requests |-> phase'[r]]
        /\ answer' = [r \in Requests |-> answer'[r]]
    BY DEF IInv, TypeOK, TaskStopped, FailAllWaiters, Publish, Answered
  <2>. QED BY <1>2, <1>3, <2>1 DEF IInv, TypeOK, Phases
<1>TypeOK. TypeOK'
  BY <1>1, <1>4, RunIdAssumption DEF IInv, TypeOK
<1>SingleFlight. SingleFlight'
  BY <1>1 DEF IInv, TypeOK, SingleFlight
<1>ActiveInv. ActiveInv'
  BY <1>1 DEF IInv, TypeOK, ActiveInv
<1>PendingInv. PendingInv'
  BY <1>1 DEF IInv, TypeOK, PendingInv
<1>WaitersCovered. WaitersCovered'
  BY <1>1 DEF IInv, TypeOK, WaitersCovered
<1>WaiterInv. WaiterInv'
  BY <1>1, <1>2 DEF IInv, TypeOK, WaiterInv
<1>AnswerInv. AnswerInv'
  BY <1>2 DEF IInv, TypeOK, AnswerInv
<1>CoverInv. CoverInv'
  BY <1>1 DEF IInv, TypeOK, CoverInv
<1>LimitInv. LimitInv'
  BY <1>1 DEF IInv, TypeOK, LimitInv
<1>RunIsWanted. RunIsWanted'
  BY <1>1 DEF IInv, TypeOK, RunIsWanted
<1>NoInternalError. NoInternalError'
  BY <1>2 DEF IInv, TypeOK, NoInternalError, Result
<1>DirtySeenByItsRun. DirtySeenByItsRun'
  BY <1>1, <1>2 DEF IInv, TypeOK, DirtySeenByItsRun, Result
<1>DirtyLimitHonoured. DirtyLimitHonoured'
  BY <1>1, <1>2 DEF IInv, TypeOK, DirtyLimitHonoured, Result
<1>. QED BY <1>TypeOK, <1>SingleFlight, <1>ActiveInv, <1>PendingInv, <1>WaitersCovered,
     <1>WaiterInv, <1>AnswerInv, <1>CoverInv, <1>LimitInv, <1>RunIsWanted,
     <1>NoInternalError, <1>DirtySeenByItsRun, <1>DirtyLimitHonoured DEF IInv

\* A successful run without a follow-up leaves the coordinator idle.
LEMMA IdleInv ==
    ASSUME IInv, NEW t \in tasks, CompleteThenIdle(t)
    PROVE  IInv'
<1>0. tasks = {t} /\ t.run = active /\ t \in Tasks
  BY OneTask
<1>1. tasks' = {} /\ active' = 0 /\ pending' = {} /\ waiters' = {} /\ UNCHANGED <<lastStarted, call>>
  BY <1>0 DEF CompleteThenIdle
<1>2. PICK o \in {"current"} : \A r \in Requests :
        \/ answer'[r] = answer[r] /\ phase'[r] = phase[r] /\ phase[r] # "waiting"
        \/ answer'[r] = Result(t, o) /\ phase'[r] = "answered" /\ phase[r] = "waiting"
  BY <1>0, RunIdAssumption DEF IInv, TypeOK, WaiterInv, WaitersCovered, PendingInv, CompleteThenIdle, WaitersThrough, HasNextRunId
<1>3. Result(t, o) \in Answers
  BY <1>0 DEF Result, Answers, Outcomes, Tasks
<1>4. phase' \in [Requests -> Phases] /\ answer' \in [Requests -> Answers \cup {NoAnswer}]
  <2>1. /\ phase' = [r \in Requests |-> phase'[r]]
        /\ answer' = [r \in Requests |-> answer'[r]]
    BY DEF IInv, TypeOK, PendingInv, CompleteThenIdle, WaitersThrough, HasNextRunId
  <2>. QED BY <1>2, <1>3, <2>1 DEF IInv, TypeOK, Phases
<1>5. \A r \in Requests : phase[r] = "waiting" /\ IsDirty(r) =>
        /\ r \in Result(t, "current").covers
        /\ Within(call[r].limit, Result(t, "current").limit)
  BY <1>0, RunIdAssumption
     DEF CompleteThenIdle, HasNextRunId, Result, IInv, TypeOK, WaiterInv, WaitersCovered, PendingInv, CoverInv, LimitInv
<1>TypeOK. TypeOK'
  BY <1>1, <1>4, RunIdAssumption DEF IInv, TypeOK
<1>SingleFlight. SingleFlight'
  BY <1>1 DEF IInv, TypeOK, SingleFlight
<1>ActiveInv. ActiveInv'
  BY <1>1 DEF IInv, TypeOK, ActiveInv
<1>PendingInv. PendingInv'
  BY <1>1 DEF IInv, TypeOK, PendingInv
<1>WaitersCovered. WaitersCovered'
  BY <1>1 DEF IInv, TypeOK, WaitersCovered
<1>WaiterInv. WaiterInv'
  BY <1>1, <1>2 DEF IInv, TypeOK, WaiterInv
<1>AnswerInv. AnswerInv'
  BY <1>2 DEF IInv, TypeOK, AnswerInv
<1>CoverInv. CoverInv'
  BY <1>1 DEF IInv, TypeOK, CoverInv
<1>LimitInv. LimitInv'
  BY <1>1 DEF IInv, TypeOK, LimitInv
<1>RunIsWanted. RunIsWanted'
  BY <1>1 DEF IInv, TypeOK, RunIsWanted
<1>NoInternalError. NoInternalError'
  BY <1>2 DEF IInv, TypeOK, NoInternalError, Result
<1>DirtySeenByItsRun. DirtySeenByItsRun'
  BY <1>1, <1>2, <1>5 DEF IInv, TypeOK, DirtySeenByItsRun, IsDirty
<1>DirtyLimitHonoured. DirtyLimitHonoured'
  BY <1>1, <1>2, <1>5 DEF IInv, TypeOK, DirtyLimitHonoured, IsDirty, Within
<1>. QED BY <1>TypeOK, <1>SingleFlight, <1>ActiveInv, <1>PendingInv, <1>WaitersCovered,
     <1>WaiterInv, <1>AnswerInv, <1>CoverInv, <1>LimitInv, <1>RunIsWanted,
     <1>NoInternalError, <1>DirtySeenByItsRun, <1>DirtyLimitHonoured DEF IInv

-----------------------------------------------------------------------------

\* Every step of the coordinator, its tasks and its callers keeps the invariant.
LEMMA NextInv == IInv /\ [Next]_vars => IInv'
<1>. SUFFICES ASSUME IInv, [Next]_vars PROVE IInv'
  OBVIOUS
<1>1. CASE UNCHANGED vars
  BY <1>1 DEF vars, IInv, TypeOK, SingleFlight, ActiveInv, PendingInv, WaitersCovered,
     WaiterInv, AnswerInv, CoverInv, LimitInv, IsDirty, RunIsWanted, NoInternalError,
     DirtySeenByItsRun, DirtyLimitHonoured
<1>2. ASSUME NEW r \in Requests, ForOwner(r) \/ Register(r) \/ Cancel(r) \/ Return(r)
      PROVE  IInv'
  BY <1>2, ForOwnerInv, LeaderInv, EnsureInv, DirtyInv, RefusedInv, CancelInv, ReturnInv
     DEF Register
<1>3. ASSUME NEW t \in tasks, CallExecutor(t) \/ Complete(t) \/ TaskStopped(t)
      PROVE  IInv'
  BY <1>3, CallExecutorInv, FollowUpInv, IdleInv, FailedInv, StoppedInv DEF Complete
<1>. QED BY <1>1, <1>2, <1>3 DEF Next

LEMMA SpecInv == Spec => []IInv
<1>. QED BY InitInv, NextInv, PTL DEF Spec

\* The coordinator's state, its tasks and its callers stay well typed; no run id
\* passes the largest one.
THEOREM TypeCorrect == Spec => []TypeOK
BY SpecInv, PTL DEF IInv

\* At most one receive run of an owner executes at a time.
THEOREM RunsDoNotOverlap == Spec => []SingleFlight
BY SpecInv, PTL DEF IInv

\* No waiter is ever left to a run that will not happen.
THEOREM NoStrandedWaiter == Spec => []WaitersCovered
BY SpecInv, PTL DEF IInv

\* A dirty request is told that it is current only by a run that began after it.
THEOREM DirtyIsSeen == Spec => []DirtySeenByItsRun
BY SpecInv, PTL DEF IInv

\* ... and by a run whose limit is at least the one it asked for.
THEOREM DirtyLimit == Spec => []DirtyLimitHonoured
BY SpecInv, PTL DEF IInv

\* The branches of complete_run that report an internal error are dead.
THEOREM InternalErrorsAreDead == Spec => []NoInternalError
BY SpecInv, PTL DEF IInv

\* An active run always has a call, waiting or since cancelled, that registered
\* for it: register and complete_run never start one on their own account.
THEOREM NoIdleRun == Spec => []RunIsWanted
BY SpecInv, PTL DEF IInv

-----------------------------------------------------------------------------
(* Every step of the coordinator is one of the service.                      *)

\* A call that has not registered has no kind, and no run covers it.
FreshInv ==
    \A r \in Requests : phase[r] \in {"new", "held"} =>
        call[r] = NoCall /\ \A t \in tasks : r \notin t.covers


\* The calls that a list of waiters reaches.
Reached(ws) == {r \in Requests : phase[r] = "waiting" /\ \E w \in ws : w.request = r}

\* What a caller is told depends on the outcome alone.
LEMMA ToldValues ==
    ASSUME NEW r \in Requests
    PROVE  /\ answer[r] = NoAnswer => Told(r) = "none"
           /\ answer[r].outcome = "current" => Told(r) = "current"
           /\ answer[r].outcome \in {"failed", "stopped", "internal"} => Told(r) = "failed"
PROOF BY DEF Told, NoAnswer

\* The same after a step.
LEMMA ToldNext ==
    ASSUME NEW r \in Requests
    PROVE  /\ answer'[r] = answer[r] => Told(r)' = Told(r)
           /\ answer'[r].outcome = "current" => Told(r)' = "current"
           /\ answer'[r].outcome \in {"failed", "stopped", "internal"} => Told(r)' = "failed"
PROOF BY DEF Told

\* A call that waits is reached by the whole list.
LEMMA AllReached ==
    ASSUME IInv
    PROVE  Reached(waiters) = Open
PROOF BY DEF IInv, WaiterInv, Reached, Open

\* register adds a call that nobody has seen yet.
LEMMA RegisterSubmits ==
    ASSUME IInv, FreshInv, NEW r \in Requests, Register(r)
    PROVE  Service!Submit(r) \/ UNCHANGED Service!serviceVars
PROOF
  <1>1. phase[r] = "held" /\ answer' = answer /\ phase \in [Requests -> Phases]
        /\ call \in [Requests -> Calls \cup {NoCall}]
    BY DEF Register, RegisterLeader, RegisterEnsure, RegisterDirty, RegisterRefused, IInv, TypeOK
  <1>2. call[r] = NoCall /\ \A t \in tasks : r \notin t.covers
    BY <1>1 DEF FreshInv
  <1>3. Done' = Done /\ Done[r] = "none" /\ r \notin Open \cup Dirty
    <2>1. Done' = Done
      BY <1>1 DEF Done, Told
    <2>2. answer[r] = NoAnswer
      BY <1>1 DEF IInv, AnswerInv
    <2>3. Told(r) = "none"
      BY <2>2, ToldValues
    <2>4. r \notin Open \cup Dirty
      BY <1>1, <1>2 DEF Open, Dirty, NoCall
    <2> QED BY <2>1, <2>3, <2>4 DEF Done
  <1>4. Executing' = Executing
    <2>1. CASE UNCHANGED tasks
      BY <2>1 DEF Executing
    <2>2. ASSUME NEW kind \in Kinds, NEW limit \in Limits, RegisterLeader(r, kind, limit)
          PROVE  Executing' = Executing
      BY <2>2 DEF RegisterLeader, Executing
    <2> QED BY <2>1, <2>2 DEF Register, RegisterEnsure, RegisterDirty, RegisterRefused
  <1>5. CASE \E kind \in Kinds : RegisterRefused(r, kind)
    <2>1. Open' = Open /\ Dirty' = Dirty
      BY <1>1, <1>5 DEF RegisterRefused, Open, Dirty
    <2>2. Seen' = Seen /\ Running' = Running
      BY <1>4, <2>1 DEF Seen, Running
    <2> QED BY <1>3, <2>1, <2>2 DEF Service!serviceVars
  <1>6. ASSUME NEW kind \in Kinds, NEW limit \in Limits, NEW target, Wait(r, kind, limit, target)
        PROVE  Service!Submit(r)
    <2>1. Open' = Open \cup {r}
      BY <1>1, <1>6 DEF Wait, Open
    <2>2. Dirty' \in {Dirty, Dirty \cup {r}}
      <3>1. call'[r].kind = kind /\ \A q \in Requests : q # r => call'[q] = call[q]
        BY <1>1, <1>6 DEF Wait
      <3>2. Dirty' = IF kind = "DirtyAfterCurrent" THEN Dirty \cup {r} ELSE Dirty
        <4>1. CASE kind = "DirtyAfterCurrent"
          BY <3>1, <4>1 DEF Dirty
        <4>2. CASE kind # "DirtyAfterCurrent"
          BY <1>3, <3>1, <4>2 DEF Dirty
        <4> QED BY <4>1, <4>2
      <3> QED BY <3>2
    <2>3. Seen' = Seen /\ Running' = Running
      BY <1>2, <1>4, <2>1 DEF Seen, Running, Executing
    <2> QED BY <1>3, <2>1, <2>2, <2>3 DEF Service!Submit
  <1>7. "EnsureCurrent" \in Kinds /\ "DirtyAfterCurrent" \in Kinds
    BY DEF Kinds
  <1> QED BY <1>5, <1>6, <1>7 DEF Register, RegisterLeader, RegisterEnsure, RegisterDirty

\* A caller that gives up withdraws; one that looks up the coordinator or
\* returns changes nothing.
LEMMA CallerSteps ==
    ASSUME IInv, NEW r \in Requests, ForOwner(r) \/ Cancel(r) \/ Return(r)
    PROVE  Service!Withdraw(r) \/ UNCHANGED Service!serviceVars
PROOF
  <1>1. UNCHANGED <<tasks, call, answer>> /\ phase \in [Requests -> Phases]
    BY DEF ForOwner, Cancel, Return, IInv, TypeOK
  <1>2. Dirty' = Dirty /\ Executing' = Executing /\ Running' = Running /\ Done' = Done
    BY <1>1 DEF Dirty, Executing, Running, Done, Told
  <1>3. CASE phase[r] = "waiting"
    <2>1. phase' = [phase EXCEPT ![r] = "cancelled"]
      BY <1>3 DEF ForOwner, Cancel, Return
    <2>2. Open' = Open \ {r} /\ r \in Open
      BY <1>1, <1>3, <2>1 DEF Open
    <2>3. Seen' = Seen \ {r}
      BY <1>2, <2>2 DEF Seen
    <2> QED BY <1>2, <2>2, <2>3 DEF Service!Withdraw
  <1>4. CASE phase[r] # "waiting"
    <2>1. Open' = Open
      BY <1>1, <1>4 DEF ForOwner, Cancel, Return, Open
    <2>2. Seen' = Seen
      BY <1>2, <2>1 DEF Seen
    <2> QED BY <1>2, <2>1, <2>2 DEF Service!serviceVars
  <1> QED BY <1>3, <1>4

\* The executor is called when no run executes, and covers every open request.
LEMMA ExecutorBegins ==
    ASSUME IInv, NEW t \in tasks, CallExecutor(t)
    PROVE  Service!Begin
PROOF
  <1>1. tasks = {t} /\ t \in Tasks
    BY DEF IInv, SingleFlight, TypeOK
  <1> DEFINE n == [t EXCEPT !.step = "executing", !.covers = {w.request : w \in waiters}]
  <1>2. tasks' = {n} /\ n.step = "executing" /\ n.covers = {w.request : w \in waiters}
    BY <1>1 DEF CallExecutor, Tasks
  <1> HIDE DEF n
  <1>3. Executing = {} /\ Executing' = {n}
    BY <1>1, <1>2 DEF CallExecutor, Executing
  <1>4. Open' = Open /\ Dirty' = Dirty /\ Done' = Done
    BY DEF CallExecutor, Open, Dirty, Done, Told
  <1>5. Open \subseteq n.covers
    BY <1>2 DEF IInv, WaiterInv, Open
  <1>6. Seen' = Open
    BY <1>3, <1>4, <1>5 DEF Seen
  <1> QED BY <1>3, <1>4, <1>6 DEF Service!Begin, Running

\* What publishing a result shows to the callers it reaches.
LEMMA PublishTells ==
    ASSUME NEW ws, NEW result, Publish(ws, result),
           NEW word, \/ result.outcome = "current" /\ word = "current"
                     \/ result.outcome \in {"failed", "stopped", "internal"} /\ word = "failed"
    PROVE  /\ Open' = Open \ Reached(ws)
           /\ Done' = [r \in Requests |-> IF r \in Reached(ws) THEN word ELSE Done[r]]
PROOF
  <1>1. \A r \in Requests : /\ r \in Reached(ws) => phase'[r] = "answered" /\ answer'[r] = result
                            /\ r \notin Reached(ws) => phase'[r] = phase[r] /\ answer'[r] = answer[r]
    BY DEF Publish, Answered, Reached
  <1>2. Open' = Open \ Reached(ws)
    BY <1>1 DEF Open
  <1>3. \A r \in Requests : Told(r)' = IF r \in Reached(ws) THEN word ELSE Told(r)
    BY <1>1, ToldNext
  <1> QED BY <1>2, <1>3 DEF Done

\* No run executes once the task has gone or has only prepared the next run.
LEMMA RunEnds ==
    ASSUME IInv, NEW t \in tasks, \A u \in tasks' : u \in tasks \ {t} \/ u.step # "executing"
    PROVE  ~Running' /\ Seen' = {}
PROOF
  <1>1. tasks = {t}
    BY DEF IInv, SingleFlight
  <1>2. Executing' = {}
    BY <1>1 DEF Executing
  <1> QED BY <1>2 DEF Running, Seen

\* A waiter the executing run answers was there when it began, if it is dirty.
LEMMA DirtyReached ==
    ASSUME IInv, NEW t \in tasks, t.step = "executing"
    PROVE  Reached(WaitersThrough(t.run)) \cap Dirty \subseteq Seen
PROOF
  <1> SUFFICES ASSUME NEW r \in Reached(WaitersThrough(t.run)), r \in Dirty PROVE r \in Seen
    OBVIOUS
  <1>1. PICK w \in WaitersThrough(t.run) : w.request = r
    BY DEF Reached
  <1>2. w \in waiters /\ w.target <= t.run /\ w.target \in Int /\ t.run \in Int
    BY <1>1 DEF WaitersThrough, IInv, TypeOK, Waiters, Tasks
  <1>3. t.run = active
    BY DEF IInv, ActiveInv
  <1>4. w.target = t.run
    BY <1>2, <1>3 DEF IInv, WaitersCovered
  <1>5. r \in t.covers
    BY <1>1, <1>2, <1>4 DEF IInv, CoverInv, IsDirty, Dirty
  <1> QED BY <1>5 DEF Seen, Executing, Open, Reached

\* The same calls are dirty after a completion.
LEMMA DirtyStays ==
    ASSUME UNCHANGED call
    PROVE  Dirty' = Dirty
PROOF BY DEF Dirty

\* A successful run answers through its own target, and hands over or rests.
LEMMA RunSucceeds ==
    ASSUME IInv, NEW t \in tasks, CompleteThenFollowUp(t) \/ CompleteThenIdle(t)
    PROVE  Service!Succeed
PROOF
  <1>1. t.step = "executing" /\ t.run = active /\ UNCHANGED call
    BY DEF CompleteThenFollowUp, CompleteThenIdle
  <1> DEFINE rs == Reached(WaitersThrough(t.run))
  <1>2. Running /\ rs \subseteq Open /\ rs \cap Dirty \subseteq Seen /\ Dirty' = Dirty
    BY <1>1, DirtyReached, DirtyStays DEF Running, Executing, Reached, Open
  <1>3. ~Running' /\ Seen' = {}
    <2>1. \A u \in tasks' : u \in tasks \ {t} \/ u.step # "executing"
      BY DEF CompleteThenFollowUp, CompleteThenIdle
    <2> QED BY <2>1, RunEnds
  <1>4. /\ Open' = Open \ rs
        /\ Done' = [r \in Requests |-> IF r \in rs THEN "current" ELSE Done[r]]
    <2>1. CASE CompleteThenFollowUp(t)
      <3>1. Result(t, "current").outcome = "current" /\ Publish(WaitersThrough(t.run), Result(t, "current"))
        BY <2>1 DEF CompleteThenFollowUp, Result
      <3> QED BY <3>1, PublishTells
    <2>2. CASE CompleteThenIdle(t)
      <3>1. pending = {}
        BY <2>2, <1>1 DEF CompleteThenIdle, HasNextRunId, IInv, PendingInv
      <3>2. WaitersThrough(t.run) = waiters
        <4>1. \A w \in waiters : w.target = t.run /\ w.target \in Int
          BY <1>1, <3>1 DEF IInv, WaitersCovered, TypeOK, Waiters
        <4> QED BY <4>1 DEF WaitersThrough
      <3>3. \A r \in Requests :
                /\ r \in rs => phase'[r] = "answered" /\ answer'[r] = Result(t, "current")
                /\ r \notin rs => phase'[r] = phase[r] /\ answer'[r] = answer[r]
        BY <2>2, <3>2 DEF CompleteThenIdle, Reached
      <3>4. Result(t, "current").outcome = "current"
        BY DEF Result
      <3>5. \A r \in Requests : Told(r)' = IF r \in rs THEN "current" ELSE Told(r)
        BY <3>3, <3>4, ToldNext
      <3>6. Open' = Open \ rs
        BY <3>3 DEF Open
      <3> QED BY <3>5, <3>6 DEF Done
    <2> QED BY <2>1, <2>2 DEF CompleteThenFollowUp, CompleteThenIdle
  <1> HIDE DEF rs
  <1>5. Service!Tell(rs, "current")
    BY <1>2, <1>3, <1>4 DEF Service!Tell
  <1> QED BY <1>2, <1>5 DEF Service!Succeed

\* A run that fails or whose task stops fails everyone who waits.
LEMMA RunFails ==
    ASSUME IInv, NEW t \in tasks, CompleteFailed(t) \/ TaskStopped(t)
    PROVE  Service!Fail \/ UNCHANGED Service!serviceVars
PROOF
  <1>1. t.run = active /\ t \in Tasks /\ tasks = {t} /\ UNCHANGED call /\ tasks' = {}
    BY DEF IInv, ActiveInv, TypeOK, SingleFlight, CompleteFailed, TaskStopped
  <1>2. active # 0
    BY <1>1 DEF Tasks
  <1>3. PICK outcome \in {"failed", "stopped"} : Publish(waiters, Result(t, outcome))
    BY <1>1, <1>2 DEF CompleteFailed, TaskStopped, FailAllWaiters
  <1>4. /\ Open' = Open \ Open
        /\ Done' = [r \in Requests |-> IF r \in Open THEN "failed" ELSE Done[r]]
    <2>1. Result(t, outcome).outcome \in {"failed", "stopped", "internal"}
      BY DEF Result
    <2> QED BY <1>3, <2>1, PublishTells, AllReached
  <1>5. ~Running' /\ Seen' = {} /\ Dirty' = Dirty
    BY <1>1, RunEnds, DirtyStays
  <1>6. Service!Tell(Open, "failed")
    BY <1>4, <1>5 DEF Service!Tell
  <1>7. CASE Running \/ Open # {}
    BY <1>6, <1>7 DEF Service!Fail
  <1>8. CASE ~Running /\ Open = {}
    <2>1. Seen = {} /\ Open' = Open /\ Running' = Running
      BY <1>4, <1>5, <1>8 DEF Seen, Running
    <2>2. Done' = Done
      BY <1>4, <1>8 DEF Done
    <2> QED BY <1>5, <2>1, <2>2 DEF Service!serviceVars
  <1> QED BY <1>7, <1>8

\* A call that has not registered stays unknown until it does.
LEMMA FreshStep ==
    ASSUME IInv, FreshInv, [Next]_vars
    PROVE  FreshInv'
PROOF
  <1> SUFFICES ASSUME NEW r \in Requests, phase'[r] \in {"new", "held"}
               PROVE  call'[r] = NoCall /\ \A t \in tasks' : r \notin t.covers
    BY DEF FreshInv
  <1>1. phase \in [Requests -> Phases] /\ call \in [Requests -> Calls \cup {NoCall}] /\ tasks \subseteq Tasks
    BY DEF IInv, TypeOK
  <1>2. CASE UNCHANGED vars
    BY <1>2 DEF vars, FreshInv
  <1>3. ASSUME NEW q \in Requests, ForOwner(q) \/ Cancel(q) \/ Return(q)
        PROVE  call'[r] = NoCall /\ \A t \in tasks' : r \notin t.covers
    BY <1>1, <1>3 DEF ForOwner, Cancel, Return, FreshInv
  <1>4. ASSUME NEW q \in Requests, Register(q)
        PROVE  call'[r] = NoCall /\ \A t \in tasks' : r \notin t.covers
    <2>1. /\ phase[q] = "held" /\ phase'[q] \in {"waiting", "refused"}
          /\ \A x \in Requests : x # q => phase'[x] = phase[x] /\ call'[x] = call[x]
      BY <1>1, <1>4 DEF Register, RegisterLeader, RegisterEnsure, RegisterDirty, RegisterRefused, Wait
    <2>2. \A t \in tasks' : t \in tasks \/ t.covers = {}
      BY <1>4 DEF Register, RegisterLeader, RegisterEnsure, RegisterDirty, RegisterRefused
    <2> QED BY <2>1, <2>2 DEF FreshInv
  <1>5. ASSUME NEW t \in tasks, CallExecutor(t)
        PROVE  call'[r] = NoCall /\ \A u \in tasks' : r \notin u.covers
    <2>1. /\ UNCHANGED <<phase, call>>
          /\ \A u \in tasks' : u \in tasks \/ u.covers = {w.request : w \in waiters}
      BY <1>1, <1>5 DEF CallExecutor, Tasks
    <2>2. r \notin {w.request : w \in waiters}
      BY <2>1 DEF IInv, WaiterInv
    <2> QED BY <2>1, <2>2 DEF FreshInv
  <1>6. ASSUME NEW t \in tasks, Complete(t) \/ TaskStopped(t)
        PROVE  call'[r] = NoCall /\ \A u \in tasks' : r \notin u.covers
    <2>1. UNCHANGED call /\ \A u \in tasks' : u \in tasks \/ u.covers = {}
      BY <1>6 DEF Complete, CompleteThenFollowUp, CompleteThenIdle, CompleteFailed, TaskStopped
    <2>2. phase'[r] = phase[r]
      BY <1>6 DEF Complete, CompleteThenFollowUp, CompleteThenIdle, CompleteFailed, TaskStopped,
                  FailAllWaiters, Publish
    <2> QED BY <2>1, <2>2 DEF FreshInv
  <1> QED BY <1>2, <1>3, <1>4, <1>5, <1>6 DEF Next

\* Every step is a step of the service or one its callers cannot see.
LEMMA ServiceStep ==
    ASSUME IInv, FreshInv, [Next]_vars
    PROVE  [Service!Next]_(Service!serviceVars)
PROOF
  <1>1. ASSUME NEW r \in Requests, ForOwner(r) \/ Register(r) \/ Cancel(r) \/ Return(r)
        PROVE  [Service!Next]_(Service!serviceVars)
    BY <1>1, RegisterSubmits, CallerSteps DEF Service!Next
  <1>2. ASSUME NEW t \in tasks, CallExecutor(t) \/ Complete(t) \/ TaskStopped(t)
        PROVE  [Service!Next]_(Service!serviceVars)
    BY <1>2, ExecutorBegins, RunSucceeds, RunFails DEF Service!Next, Complete
  <1>3. CASE UNCHANGED vars
    BY <1>3 DEF vars, Service!serviceVars, Dirty, Open, Running, Executing, Seen, Done, Told
  <1> QED BY <1>1, <1>2, <1>3 DEF Next

\* The safety part of ImplementsService: receive runs happen one at a time, and
\* a run answers a dirty request with success only if that request was there
\* when the run began (register, run, complete_run and the completion guard).
THEOREM ServiceSteps == Spec => Service!Init /\ [][Service!Next]_(Service!serviceVars)
PROOF
  <1>1. Init => FreshInv /\ Service!Init
    BY DEF Init, FreshInv, Service!Init, Dirty, Open, Running, Executing, Seen, Done, Told,
           NoCall, NoAnswer
  <1>2. IInv /\ FreshInv /\ [Next]_vars => FreshInv'
    BY FreshStep
  <1>3. IInv /\ FreshInv /\ [Next]_vars => [Service!Next]_(Service!serviceVars)
    BY ServiceStep
  <1> QED BY <1>1, <1>2, <1>3, SpecInv, PTL DEF Spec
=============================================================================
