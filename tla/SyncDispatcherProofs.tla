------------------------- MODULE SyncDispatcherProofs -------------------------
(* Proofs about SyncDispatcher, for every set of owners and inputs and all   *)
(* limits.                                                                   *)
(*                                                                           *)
(* The invariant says who serves: the loops at work and the ones about to be *)
(* spawned are together the current epoch while the running flag is up, and  *)
(* nobody otherwise; every job belongs to a loop at work.  An epoch is paid  *)
(* for by a reception, a retry or a session.  An input a session waits for   *)
(* is retained, or its removal is not published yet, or what became of it is *)
(* with a job, in the channel or seen.                                       *)
EXTENDS SyncDispatcher, FiniteSetTheorems, TLAPS

USE DEF callers

-----------------------------------------------------------------------------
(* The invariant.                                                            *)

\* The loops that work and the ones that are about to be spawned.
Control ==
    /\ waking \subseteq 0 .. disp.epoch
    /\ DOMAIN loops \subseteq 1 .. disp.epoch
    /\ waking \cap DOMAIN loops = {}
    /\ Working \cup (waking \ {0}) = IF disp.running THEN {disp.epoch} ELSE {}

\* A job belongs to a loop that works and is not about to stop.
JobOK(j) == jobs[j].epoch \in Working /\ loops[jobs[j].epoch].pc # "idle"

\* A loop holds removals only until it publishes them.
LoopOK(e) == loops[e].removed # {} => loops[e].pc \in {"purged", "ticked"}

\* Each epoch was paid for by a reception, a retry or a session.  A caller that
\* has not woken its owner, or was dropped before it could, still has a wake to
\* come, and so has a session that is open and not waiting yet.
Owed == IF session.pc = "open" THEN 1 ELSE 0

Paid == Cardinality(received) + (MaxRetries - budget.retries) + 2 * (MaxSessions - budget.sessions)

Budgeted ==
    /\ IsFiniteSet(receipts)
    /\ disp.epoch + Cardinality(toWake) + Cardinality(receipts) + Cardinality(forsaken) + Owed <= Paid

Waiting == session.pc \in {"drain", "summary", "check"}

HasResult(j, i) == jobs[j].input = i /\ jobs[j].stage = "result" /\ jobs[j].status = "applied"

Applied(i) == [input |-> i, status |-> "applied"]

Dropped(i) == [input |-> i, status |-> "discarded"]

\* An input whose removal is not published: Unreported, element by element.
Withheld(i) ==
    \/ i \in lost
    \/ \E e \in DOMAIN loops : i \in loops[e].removed
    \/ \E r \in receipts : i \in r.removed

Held(i) == i \in rows \/ Withheld(i)

\* Where an input that a session waits for can be.
Accounted(i) ==
    \/ Held(i)
    \/ i \in session.seen \cup session.discards
    \/ session.lagged
    \/ Applied(i) \in session.queue \/ Dropped(i) \in session.queue
    \/ \E j \in DOMAIN jobs : HasResult(j, i)

SessionOK ==
    /\ session.start \subseteq received
    /\ \A i \in session.start : OwnerOf[i] = Watched
    /\ session.complete => session.pc = "done"
    /\ session.pc = "check" /\ session.pending = 0 => session.start \cap rows = {}
    /\ budget.faults = MaxFaults /\ Waiting => \A i \in session.start : Accounted(i)

DispatcherOK ==
    /\ Control /\ ActiveIsExact
    /\ \A j \in DOMAIN jobs : JobOK(j)
    /\ \A e \in DOMAIN loops : LoopOK(e)

IInv == TypeOK /\ DispatcherOK /\ Budgeted /\ SessionOK

-----------------------------------------------------------------------------
(* What the parts of the state look like.                                    *)

\* What is assumed of the constants, in the form the proofs use.
LEMMA Constants ==
    /\ OwnerOf \in [Inputs -> Owners] /\ Watched \in Owners
    /\ MaxActive \in Nat \ {0} /\ Buffer \in Nat \ {0} /\ Capacity \in Nat \ {0}
    /\ MaxSessions \in Nat /\ MaxRetries \in Nat /\ MaxFaults \in Nat /\ MaxExpired \in Nat
    /\ IsFiniteSet(Inputs) /\ IsFiniteSet(Owners)
    /\ Cardinality(Inputs) \in Nat /\ MaxEpoch \in Nat
PROOF
  <1>1. Cardinality(Inputs) \in Nat
    BY BoundAssumption, FS_CardinalityType
  <1> QED BY <1>1, OwnerAssumption, BoundAssumption DEF MaxEpoch

\* The parts of a loop have their types.
LEMMA LoopFields ==
    ASSUME NEW l \in LoopType
    PROVE  /\ l.pc \in {"top", "scan", "purged", "ticked", "summary", "claim", "idle", "select", "leaving"}
           /\ l.todo \subseteq Owners /\ l.at \in Owners /\ l.gen \in Nat
           /\ l.retained \in BOOLEAN /\ l.removed \subseteq Inputs
PROOF BY DEF LoopType

\* The parts of a job have their types.
LEMMA JobFields ==
    ASSUME NEW j \in JobType
    PROVE  /\ j.input \in Inputs /\ j.epoch \in Epochs /\ j.epoch \in Nat \ {0}
           /\ j.stage \in {"running", "result", "ended"} /\ j.status \in Statuses
PROOF BY Constants DEF JobType, Epochs

\* The parts of a session have their types.
LEMMA SessionFields ==
    ASSUME NEW s \in SessionType
    PROVE  /\ s.pc \in {"closed", "open", "drain", "summary", "check", "done"}
           /\ s.queue \subseteq Updates /\ s.lagged \in BOOLEAN /\ s.seen \subseteq Inputs
           /\ s.discards \subseteq Inputs /\ s.start \subseteq Inputs
           /\ s.pending \in Nat /\ s.stuck \in BOOLEAN /\ s.complete \in BOOLEAN
PROOF BY DEF SessionType

\* The parts of the state have their types, and the sets that are counted are
\* finite.
LEMMA Fields ==
    ASSUME TypeOK
    PROVE  /\ disp.running \in BOOLEAN /\ disp.epoch \in Nat /\ disp.epoch <= MaxEpoch
           /\ disp.gen \in Nat
           /\ disp.clients \subseteq Owners /\ disp.active \in [Owners -> Nat]
           /\ budget.sessions \in 0 .. MaxSessions /\ budget.retries \in 0 .. MaxRetries
           /\ budget.faults \in 0 .. MaxFaults
           /\ budget.sessions \in Int /\ budget.retries \in Int /\ budget.faults \in Int
           /\ \A e \in DOMAIN loops : loops[e] \in LoopType /\ e \in Nat \ {0}
           /\ \A j \in DOMAIN jobs : jobs[j] \in JobType
           /\ IsFiniteSet(received) /\ IsFiniteSet(DOMAIN jobs)
           /\ Cardinality(received) \in Nat
           /\ Cardinality(received) <= Cardinality(Inputs)
PROOF
  <1>1. /\ disp \in [running : BOOLEAN, epoch : 0 .. MaxEpoch, gen : Nat, clients : SUBSET Owners,
                     active : [Owners -> Nat]]
        /\ budget \in [sessions : 0 .. MaxSessions, retries : 0 .. MaxRetries, faults : 0 .. MaxFaults]
        /\ \A e \in DOMAIN loops : loops[e] \in LoopType
        /\ DOMAIN loops \subseteq 1 .. MaxEpoch
        /\ \A j \in DOMAIN jobs : jobs[j] \in JobType
        /\ received \in SUBSET Inputs /\ DOMAIN jobs \in SUBSET (1 .. MaxActive)
    BY DEF TypeOK, DispatcherTypeOK, InboxTypeOK, Slots, Epochs
  <1>2. IsFiniteSet(received) /\ Cardinality(received) <= Cardinality(Inputs)
    BY <1>1, Constants, FS_Subset
  <1>3. Cardinality(received) \in Nat
    BY <1>2, FS_CardinalityType
  <1>4. IsFiniteSet(DOMAIN jobs)
    <2>1. IsFiniteSet(1 .. MaxActive)
      BY Constants, FS_Interval
    <2> QED BY <1>1, <2>1, FS_Subset
  <1>5. /\ disp.running \in BOOLEAN /\ disp.epoch \in Nat /\ disp.epoch <= MaxEpoch
        /\ disp.gen \in Nat
        /\ disp.clients \subseteq Owners /\ disp.active \in [Owners -> Nat]
    BY <1>1, Constants
  <1>6. /\ budget.sessions \in 0 .. MaxSessions /\ budget.retries \in 0 .. MaxRetries
        /\ budget.faults \in 0 .. MaxFaults
        /\ budget.sessions \in Int /\ budget.retries \in Int /\ budget.faults \in Int
    BY <1>1, Constants
  <1>7. \A e \in DOMAIN loops : e \in Nat \ {0}
    BY <1>1, Constants
  <1> QED BY <1>1, <1>2, <1>3, <1>4, <1>5, <1>6, <1>7

\* The callers with a wake to come are finitely many.
LEMMA CallersCount ==
    ASSUME InboxTypeOK, IsFiniteSet(receipts)
    PROVE  /\ IsFiniteSet(receipts) /\ IsFiniteSet(toWake) /\ IsFiniteSet(forsaken)
           /\ Cardinality(receipts) \in Nat /\ Cardinality(toWake) \in Nat
           /\ Cardinality(forsaken) \in Nat
PROOF
  <1>1. toWake \in SUBSET Owners /\ forsaken \in SUBSET Owners
    BY DEF InboxTypeOK
  <1>2. IsFiniteSet(toWake) /\ IsFiniteSet(forsaken)
    BY <1>1, Constants, FS_Subset
  <1> QED BY <1>2, FS_CardinalityType

\* What is paid for, in numbers.
LEMMA Callers ==
    ASSUME IInv
    PROVE  /\ IsFiniteSet(receipts) /\ IsFiniteSet(toWake) /\ IsFiniteSet(forsaken)
           /\ Cardinality(receipts) \in Nat /\ Cardinality(toWake) \in Nat
           /\ Cardinality(forsaken) \in Nat /\ Owed \in {0, 1} /\ Paid \in Int
           /\ disp.epoch \in Nat
           /\ disp.epoch + Cardinality(toWake) + Cardinality(receipts) + Cardinality(forsaken) + Owed
                  <= Paid
PROOF
  <1>1. InboxTypeOK /\ Budgeted
    BY DEF IInv, TypeOK
  <1>2. Paid \in Int /\ disp.epoch \in Nat
    BY Fields, Constants DEF IInv, Paid
  <1> QED BY <1>1, <1>2, CallersCount DEF Budgeted, Owed

\* A loop at work is the current one.
LEMMA AtWork ==
    ASSUME IInv, NEW e \in DOMAIN loops, loops[e].pc # "leaving"
    PROVE  /\ e \in Working /\ disp.running /\ e = disp.epoch
           /\ Working = {e} /\ waking \subseteq {0}
PROOF
  <1>1. e \in Working
    BY DEF Working
  <1>2. Working \cup (waking \ {0}) = IF disp.running THEN {disp.epoch} ELSE {}
    BY DEF IInv, DispatcherOK, Control
  <1>3. disp.running /\ e = disp.epoch
    BY <1>1, <1>2
  <1>4. Working \cup (waking \ {0}) = {e}
    BY <1>2, <1>3
  <1>5. e \notin waking
    BY DEF IInv, DispatcherOK, Control
  <1> QED BY <1>1, <1>3, <1>4, <1>5

\* Only the current epoch has jobs, and only while the flag is up.
LEMMA JobsAreCurrent ==
    ASSUME IInv, NEW j \in DOMAIN jobs
    PROVE  jobs[j].epoch = disp.epoch /\ disp.running /\ jobs[j].epoch \in DOMAIN loops
PROOF
  <1>1. jobs[j].epoch \in Working
    BY DEF IInv, DispatcherOK, JobOK
  <1> QED BY <1>1, AtWork DEF Working

-----------------------------------------------------------------------------
(* The dispatcher: which steps leave it in order.                            *)

\* No job comes, goes or changes hands.
JobsStay ==
    /\ DOMAIN jobs' = DOMAIN jobs
    /\ \A j \in DOMAIN jobs :
          jobs'[j] \in JobType /\ jobs'[j].input = jobs[j].input /\ jobs'[j].epoch = jobs[j].epoch

CountOf(o) == {j \in JobsOf(disp.epoch) : OwnerOf[jobs[j].input] = o}

\* The activity counts stay exact while no job comes or goes.
LEMMA CountsStay ==
    ASSUME IInv, JobsStay, disp'.epoch = disp.epoch, disp'.active = disp.active
    PROVE  ActiveIsExact'
PROOF
  <1> SUFFICES ASSUME NEW o \in Owners PROVE disp'.active[o] = Cardinality(CountOf(o)')
    BY DEF ActiveIsExact, CountOf
  <1>1. CountOf(o)' = CountOf(o)
    BY DEF CountOf, JobsOf, JobsStay
  <1>2. disp.active[o] = Cardinality(CountOf(o))
    BY DEF IInv, DispatcherOK, ActiveIsExact, CountOf
  <1> QED BY <1>1, <1>2

\* A step of the inbox, of a job or of the session.
LEMMA CalmKeeps ==
    ASSUME IInv, JobsStay, UNCHANGED <<disp, waking, loops>>, permit' \in BOOLEAN
    PROVE  DispatcherTypeOK' /\ DispatcherOK'
PROOF
  <1>1. DispatcherTypeOK'
    BY DEF IInv, TypeOK, DispatcherTypeOK, JobsStay
  <1>2. Control'
    BY DEF IInv, DispatcherOK, Control, Working
  <1>3. \A j \in DOMAIN jobs' : JobOK(j)'
    BY DEF IInv, DispatcherOK, JobOK, Working, JobsStay
  <1>4. \A e \in DOMAIN loops' : LoopOK(e)'
    BY DEF IInv, DispatcherOK, LoopOK
  <1> QED BY <1>1, <1>2, <1>3, <1>4, CountsStay DEF DispatcherOK

\* Jobs that do not change at all do not change hands.
LEMMA SameJobsStay ==
    ASSUME IInv, UNCHANGED jobs
    PROVE  JobsStay
PROOF BY Fields DEF IInv, JobsStay

\* The loop at work moves on.
LEMMA WalkControl ==
    ASSUME IInv, NEW e \in DOMAIN loops, loops[e].pc # "leaving",
           NEW l \in LoopType, l.pc # "leaving", loops' = [loops EXCEPT ![e] = l],
           l.removed # {} => l.pc \in {"purged", "ticked"},
           UNCHANGED waking, disp'.running = disp.running, disp'.epoch = disp.epoch
    PROVE  /\ Control' /\ Working' = Working /\ DOMAIN loops' = DOMAIN loops /\ loops'[e] = l
           /\ DOMAIN loops' \subseteq Epochs /\ \A x \in DOMAIN loops' : loops'[x] \in LoopType
           /\ \A x \in DOMAIN loops' : LoopOK(x)'
PROOF
  <1>1. DOMAIN loops' = DOMAIN loops /\ \A x \in DOMAIN loops : loops'[x] = IF x = e THEN l ELSE loops[x]
    OBVIOUS
  <1>2. Working' = Working
    BY <1>1 DEF Working
  <1>3. Control'
    BY <1>1, <1>2 DEF IInv, DispatcherOK, Control
  <1>4. \A x \in DOMAIN loops' : LoopOK(x)'
    BY <1>1 DEF IInv, DispatcherOK, LoopOK
  <1> QED BY <1>1, <1>2, <1>3, <1>4 DEF IInv, TypeOK, DispatcherTypeOK

\* The dispatcher stays in order when the loop at work moves on; it comes to
\* "idle" only without jobs.
LEMMA WalkKeeps ==
    ASSUME IInv, NEW e \in DOMAIN loops, loops[e].pc # "leaving",
           NEW l \in LoopType, l.pc # "leaving", loops' = [loops EXCEPT ![e] = l],
           l.pc = "idle" => JobsOf(e) = {}, l.removed # {} => l.pc \in {"purged", "ticked"},
           UNCHANGED <<waking, disp, jobs>>, permit' \in BOOLEAN
    PROVE  DispatcherTypeOK' /\ DispatcherOK'
PROOF
  <1>1. /\ Control' /\ Working' = Working /\ DOMAIN loops' = DOMAIN loops /\ loops'[e] = l
        /\ DOMAIN loops' \subseteq Epochs /\ \A x \in DOMAIN loops' : loops'[x] \in LoopType
        /\ \A x \in DOMAIN loops' : LoopOK(x)'
    BY WalkControl
  <1>2. DispatcherTypeOK'
    BY <1>1 DEF IInv, TypeOK, DispatcherTypeOK
  <1>3. ASSUME NEW j \in DOMAIN jobs PROVE JobOK(j)'
    <2>1. jobs[j].epoch \in Working /\ jobs[j].epoch = e
      BY AtWork DEF IInv, DispatcherOK, JobOK
    <2>2. l.pc # "idle"
      BY <2>1 DEF JobsOf
    <2> QED BY <1>1, <2>1, <2>2 DEF JobOK
  <1> QED BY <1>1, <1>2, <1>3, SameJobsStay, CountsStay DEF DispatcherOK

-----------------------------------------------------------------------------
(* The wakes.                                                                *)

\* While the running flag is down there are no jobs and no counts.
LEMMA NoJobsWithoutLoop ==
    ASSUME IInv, ~disp.running
    PROVE  DOMAIN jobs = {} /\ \A o \in Owners : disp.active[o] = 0
PROOF
  <1>1. DOMAIN jobs = {}
    BY JobsAreCurrent
  <1>2. ASSUME NEW o \in Owners PROVE disp.active[o] = 0
    <2>1. CountOf(o) = {}
      BY <1>1 DEF CountOf, JobsOf
    <2> QED BY <2>1, FS_EmptySet DEF IInv, DispatcherOK, ActiveIsExact, CountOf
  <1> QED BY <1>1, <1>2

\* What the critical section of wake_client leaves behind.
LEMMA WokenFields ==
    ASSUME TypeOK, NEW o \in Owners
    PROVE  /\ Woken(o).running = TRUE /\ Woken(o).active = disp.active
           /\ Woken(o).epoch = (IF disp.running THEN disp.epoch ELSE disp.epoch + 1)
           /\ Woken(o) \in [running : BOOLEAN, epoch : Nat, gen : Nat, clients : SUBSET Owners,
                            active : [Owners -> Nat]]
PROOF
  <1>2. /\ disp.running \in BOOLEAN /\ disp.epoch \in Nat /\ disp.gen \in Nat
        /\ disp.clients \subseteq Owners /\ disp.active \in [Owners -> Nat]
    BY Fields
  <1>4. disp.epoch + 1 \in Nat /\ disp.gen + 1 \in Nat /\ disp.clients \cup {o} \in SUBSET Owners
    BY <1>2
  <1> QED BY <1>2, <1>4 DEF Woken

\* wake_client starts a loop exactly when none serves.
LEMMA WakeKeeps ==
    ASSUME IInv, NEW o \in Owners, WakeClient(o), UNCHANGED <<loops, jobs, permit>>,
           disp'.epoch <= MaxEpoch
    PROVE  DispatcherTypeOK' /\ DispatcherOK'
PROOF
  <1> TypeOK
    BY DEF IInv
  <1>1. /\ disp'.running = TRUE /\ disp'.active = disp.active
        /\ disp'.epoch = (IF disp.running THEN disp.epoch ELSE disp.epoch + 1)
        /\ disp' \in [running : BOOLEAN, epoch : Nat, gen : Nat, clients : SUBSET Owners,
                      active : [Owners -> Nat]]
        /\ waking' = waking \cup {IF disp.running THEN 0 ELSE disp.epoch + 1}
    BY WokenFields DEF WakeClient
  <1>2. disp.epoch \in Nat /\ MaxEpoch \in Nat
    BY Fields, Constants
  <1>3. /\ waking \subseteq 0 .. disp.epoch /\ DOMAIN loops \subseteq 1 .. disp.epoch
        /\ waking \cap DOMAIN loops = {}
        /\ Working \cup (waking \ {0}) = IF disp.running THEN {disp.epoch} ELSE {}
    BY DEF IInv, DispatcherOK, Control
  <1>4. Working' = Working
    BY DEF Working
  <1>5. DispatcherTypeOK'
    <2>1. disp'.epoch \in 0 .. MaxEpoch /\ waking' \subseteq 0 .. disp'.epoch
      BY <1>1, <1>2, <1>3
    <2>2. disp' \in [running : BOOLEAN, epoch : 0 .. MaxEpoch, gen : Nat, clients : SUBSET Owners,
                     active : [Owners -> Nat]]
      BY <1>1, <2>1
    <2>3. waking' \subseteq 0 .. MaxEpoch
      BY <1>2, <2>1
    <2> QED BY <2>2, <2>3 DEF TypeOK, DispatcherTypeOK
  <1>6. Control'
    <2>1. CASE disp.running
      BY <1>1, <1>2, <1>3, <1>4, <2>1 DEF Control
    <2>2. CASE ~disp.running
      BY <1>1, <1>2, <1>3, <1>4, <2>2 DEF Control
    <2> QED BY <2>1, <2>2
  <1>7. \A j \in DOMAIN jobs' : JobOK(j)'
    BY <1>4 DEF IInv, DispatcherOK, JobOK
  <1>8. ActiveIsExact'
    <2>1. CASE disp.running
      BY <1>1, <2>1, SameJobsStay, CountsStay
    <2>2. CASE ~disp.running
      <3> SUFFICES ASSUME NEW o2 \in Owners PROVE disp'.active[o2] = Cardinality(CountOf(o2)')
        BY DEF ActiveIsExact, CountOf
      <3>1. CountOf(o2)' = {} /\ disp'.active[o2] = 0
        BY <1>1, <2>2, NoJobsWithoutLoop DEF CountOf, JobsOf
      <3> QED BY <3>1, FS_EmptySet
    <2> QED BY <2>1, <2>2
  <1>9. \A e \in DOMAIN loops' : LoopOK(e)'
    BY DEF IInv, DispatcherOK, LoopOK
  <1> QED BY <1>5, <1>6, <1>7, <1>8, <1>9 DEF DispatcherOK

-----------------------------------------------------------------------------
(* The inbox, the session and the budget.                                    *)

BudgetType == [sessions : 0 .. MaxSessions, retries : 0 .. MaxRetries, faults : 0 .. MaxFaults]

\* All of the invariant that is not about the dispatcher.
RestOK ==
    /\ InboxTypeOK
    /\ session \in SessionType /\ Cardinality(session.queue) <= Buffer
    /\ budget \in BudgetType
    /\ Budgeted /\ SessionOK

\* The invariant is its dispatcher part and the rest.
LEMMA Together == IInv <=> DispatcherTypeOK /\ DispatcherOK /\ RestOK
PROOF BY DEF IInv, TypeOK, RestOK, BudgetType

\* The same after a step.
LEMMA TogetherNext == IInv' <=> DispatcherTypeOK' /\ DispatcherOK' /\ RestOK'
PROOF BY DEF IInv, TypeOK, RestOK, BudgetType

\* A fault was spent.
LEMMA FaultSpent ==
    ASSUME IInv, budget.faults > 0, budget' = [budget EXCEPT !.faults = @ - 1]
    PROVE  /\ budget' \in BudgetType /\ budget'.retries = budget.retries
           /\ budget'.sessions = budget.sessions /\ budget'.faults # MaxFaults
           /\ budget'.faults = budget.faults - 1 /\ budget'.faults \in Nat
PROOF BY Together, Fields, Constants DEF IInv, RestOK, BudgetType

\* A retry was spent.
LEMMA RetrySpent ==
    ASSUME IInv, budget.retries > 0, budget' = [budget EXCEPT !.retries = @ - 1]
    PROVE  /\ budget' \in BudgetType /\ budget'.retries = budget.retries - 1
           /\ budget'.sessions = budget.sessions /\ budget'.faults = budget.faults
PROOF BY Together, Fields, Constants DEF IInv, RestOK, BudgetType

\* A session was spent.
LEMMA SessionSpent ==
    ASSUME IInv, budget.sessions > 0, budget' = [budget EXCEPT !.sessions = @ - 1]
    PROVE  /\ budget' \in BudgetType /\ budget'.retries = budget.retries
           /\ budget'.sessions = budget.sessions - 1 /\ budget'.faults = budget.faults
PROOF BY Together, Fields, Constants DEF IInv, RestOK, BudgetType

\* Nothing is paid for.
LEMMA BudgetStays ==
    ASSUME IInv, disp'.epoch \in Nat, disp'.epoch <= disp.epoch,
           UNCHANGED <<callers, received>>,
           budget'.retries \in Int, budget'.retries <= budget.retries,
           budget'.sessions = budget.sessions,
           session'.pc = "open" => session.pc = "open"
    PROVE  Budgeted'
PROOF
  <1>1. Owed' \in {0, 1} /\ Owed \in {0, 1} /\ Owed' <= Owed
    BY DEF Owed
  <1>2. Paid <= Paid' /\ Paid' \in Int
    BY Fields, Constants DEF IInv, Paid
  <1> QED BY <1>1, <1>2, Callers DEF Budgeted

\* The session does not move and no input that it waits for gets lost.
LEMMA SessionStays ==
    ASSUME IInv,
           session'.pc = session.pc, session'.start = session.start, session'.seen = session.seen,
           session'.complete = session.complete, session'.pending = session.pending,
           rows' \cap received \subseteq rows, received \subseteq received',
           budget'.faults = MaxFaults => budget.faults = MaxFaults,
           budget'.faults = MaxFaults /\ Waiting =>
               \A i \in session.start : Accounted(i) => Accounted(i)'
    PROVE  SessionOK'
PROOF
  <1>1. SessionOK
    BY DEF IInv
  <1>2. Waiting' <=> Waiting
    BY DEF Waiting
  <1>3. budget'.faults = MaxFaults /\ Waiting' => \A i \in session.start : Accounted(i)'
    BY <1>1, <1>2 DEF SessionOK
  <1> QED BY <1>1, <1>3 DEF SessionOK

ResultsStay ==
    \A j \in DOMAIN jobs :
        jobs[j].stage = "result" => j \in DOMAIN jobs' /\ jobs'[j] = jobs[j]

\* An input stays accounted for while the results and the session stay and no
\* removal is forgotten.
LEMMA StillAccounted ==
    ASSUME ResultsStay, UNCHANGED session, NEW i, Held(i) => Held(i)', Accounted(i)
    PROVE  Accounted(i)'
PROOF
  <1>1. ASSUME NEW j \in DOMAIN jobs, HasResult(j, i) PROVE Accounted(i)'
    <2>1. j \in DOMAIN jobs' /\ HasResult(j, i)'
      BY <1>1 DEF HasResult, ResultsStay
    <2> QED BY <2>1 DEF Accounted
  <1> QED BY <1>1 DEF Accounted, Applied, Dropped

\* The loops still hold the removals they have not published.
RemovalsStay ==
    \A i, e : e \in DOMAIN loops /\ i \in loops[e].removed
                => \E x \in DOMAIN loops' : i \in loops'[x].removed

\* What the inbox, the callers and the loops hold stays.
LEMMA HeldStays ==
    ASSUME RemovalsStay, UNCHANGED <<rows, lost, receipts>>, NEW i, Held(i)
    PROVE  Held(i)'
PROOF BY DEF Held, Withheld, RemovalsStay

\* Loops that do not change hold what they held.
LEMMA SameLoopsHold ==
    ASSUME UNCHANGED loops
    PROVE  RemovalsStay
PROOF BY DEF RemovalsStay

\* The loop's own steps, and those of a wake after the lock.
LEMMA StillKeeps ==
    ASSUME IInv, UNCHANGED <<inbox, callers, session, budget>>, ResultsStay, RemovalsStay,
           disp'.epoch \in Nat, disp'.epoch <= disp.epoch
    PROVE  RestOK'
PROOF
  <1> USE Together DEF inbox
  <1> TypeOK
    BY DEF IInv
  <1>1. Budgeted'
    BY BudgetStays, Fields
  <1>2. SessionOK'
    BY SessionStays, StillAccounted, HeldStays
  <1> QED BY <1>1, <1>2 DEF RestOK, InboxTypeOK

\* A step that spends a fault ends the promise to the session.
LEMMA FaultKeeps ==
    ASSUME IInv, budget.faults > 0, budget' = [budget EXCEPT !.faults = @ - 1],
           UNCHANGED <<rows, blocked, expired, callers, received, lost, session>>,
           leased' \subseteq leased,
           disp'.epoch \in Nat, disp'.epoch <= disp.epoch
    PROVE  RestOK'
PROOF
  <1> TypeOK
    BY DEF IInv
  <1>1. Budgeted'
    BY BudgetStays, FaultSpent, Fields
  <1>2. SessionOK'
    BY SessionStays, FaultSpent
  <1> QED BY <1>1, <1>2, FaultSpent, Together DEF RestOK, InboxTypeOK

-----------------------------------------------------------------------------
(* The channel.                                                              *)

\* Publishing changes the queue and the lag alone, and loses nothing without a
\* lag.
LEMMA PublishKeeps ==
    ASSUME IInv, NEW U \in SUBSET Updates, Publish(U)
    PROVE  /\ session' \in SessionType /\ Cardinality(session'.queue) <= Buffer
           /\ session'.pc = session.pc /\ session'.start = session.start
           /\ session'.seen = session.seen /\ session'.discards = session.discards
           /\ session'.complete = session.complete /\ session'.pending = session.pending
           /\ session.lagged => session'.lagged
           /\ Waiting => session'.lagged \/ session.queue \cup U \subseteq session'.queue
PROOF
  <1> DEFINE all == session.queue \cup U
  <1>1. session \in SessionType /\ Cardinality(session.queue) <= Buffer
    BY Together DEF RestOK
  <1>2. session.queue \subseteq Updates /\ all \subseteq Updates
    BY <1>1, SessionFields
  <1>3. CASE ~Subscribed
    <2>1. session' = session
      BY <1>3 DEF Publish, AfterSending
    <2> QED BY <1>1, <1>3, <2>1 DEF Subscribed, Waiting
  <1>4. CASE Subscribed /\ Cardinality(all) <= Buffer
    <2>1. session' = [session EXCEPT !.queue = all]
      BY <1>4 DEF Publish, AfterSending
    <2> QED BY <1>1, <1>2, <1>4, <2>1 DEF SessionType
  <1>5. CASE Subscribed /\ ~(Cardinality(all) <= Buffer)
    <2>1. PICK kept \in kSubset(Buffer, all) :
              session' = [session EXCEPT !.queue = kept, !.lagged = TRUE]
      BY <1>5 DEF Publish, AfterSending
    <2>2. kept \subseteq Updates /\ Cardinality(kept) <= Buffer
      BY <1>2, <2>1, Constants DEF kSubset
    <2> QED BY <1>1, <2>1, <2>2 DEF SessionType
  <1> QED BY <1>3, <1>4, <1>5

-----------------------------------------------------------------------------
(* The steps of the inbox.                                                   *)

\* How many a finite set has with one more and with one less.
LEMMA OneMoreOrLess ==
    ASSUME NEW S, IsFiniteSet(S), NEW x
    PROVE  /\ Cardinality(S) \in Nat /\ IsFiniteSet(S \cup {x}) /\ IsFiniteSet(S \ {x})
           /\ Cardinality(S \cup {x}) \in Nat /\ Cardinality(S \cup {x}) <= Cardinality(S) + 1
           /\ Cardinality(S \ {x}) \in Nat /\ Cardinality(S \ {x}) <= Cardinality(S)
           /\ x \in S => Cardinality(S \ {x}) = Cardinality(S) - 1
           /\ x \notin S => Cardinality(S \cup {x}) = Cardinality(S) + 1
PROOF
  <1>1. Cardinality(S) \in Nat
    BY FS_CardinalityType
  <1>2. /\ IsFiniteSet(S \cup {x})
        /\ Cardinality(S \cup {x}) = IF x \in S THEN Cardinality(S) ELSE Cardinality(S) + 1
    BY FS_AddElement
  <1>3. /\ IsFiniteSet(S \ {x})
        /\ Cardinality(S \ {x}) = IF x \in S THEN Cardinality(S) - 1 ELSE Cardinality(S)
    BY FS_RemoveElement
  <1>4. Cardinality(S \ {x}) \in Nat /\ Cardinality(S \cup {x}) \in Nat
    BY <1>2, <1>3, FS_CardinalityType
  <1> QED BY <1>1, <1>2, <1>3, <1>4

\* A reception keeps the invariant: it pays for the wake to come, and the
\* caller, or nobody, knows what was evicted.
LEMMA ReceiveKeeps ==
    ASSUME IInv, NEW i \in Inputs, ReceiveOrdinary(i) \/ ReceiveSecure(i)
    PROVE  IInv'
PROOF
  <1> TypeOK
    BY DEF IInv
  <1>1. PICK gone \in SUBSET rows, r \in ReceiptType :
            /\ Inserted(i, gone) /\ receipts' = receipts \cup {r}
            /\ \/ r.removed = gone /\ lost' = lost
               \/ lost' = lost \cup gone
    <2>1. OwnerOf[i] \in Owners /\ rows \subseteq Inputs
      BY Constants DEF TypeOK, InboxTypeOK
    <2>2. ASSUME NEW gone \in SUBSET rows
          PROVE  /\ Receipt(i, gone) \in ReceiptType /\ Receipt(i, gone).removed = gone
                 /\ Receipt(i, {}) \in ReceiptType
      BY <2>1 DEF Receipt, ReceiptType
    <2>3. MakeRoom \subseteq SUBSET rows
      BY DEF MakeRoom
    <2>4. CASE ReceiveOrdinary(i)
      <3>1. PICK gone \in MakeRoom :
                Inserted(i, gone) /\ receipts' = receipts \cup {Receipt(i, gone)}
        BY <2>4 DEF ReceiveOrdinary
      <3> QED BY <2>2, <2>3, <2>4, <3>1 DEF ReceiveOrdinary
    <2>5. CASE ReceiveSecure(i)
      <3>1. PICK gone \in MakeRoom : Inserted(i, gone) /\ lost' = lost \cup gone
        BY <2>5 DEF ReceiveSecure
      <3> QED BY <2>2, <2>3, <2>5, <3>1 DEF ReceiveSecure
    <2> QED BY <2>4, <2>5
  <1>2. /\ UNCHANGED <<disp, permit, waking, loops, jobs, leased, expired, toWake, forsaken,
                       session, budget>>
        /\ rows' = (rows \ gone) \cup {i} /\ blocked' = blocked \ gone
        /\ received' = received \cup {i} /\ i \notin received
    BY <1>1 DEF ReceiveOrdinary, ReceiveSecure, Inserted
  <1>3. DispatcherTypeOK' /\ DispatcherOK'
    BY <1>2, CalmKeeps, SameJobsStay DEF IInv, TypeOK, DispatcherTypeOK
  <1>4. InboxTypeOK'
    BY <1>1, <1>2 DEF TypeOK, InboxTypeOK
  <1>5. Budgeted'
    <2>1. Cardinality(received') = Cardinality(received) + 1
      BY <1>2, Fields, OneMoreOrLess
    <2>2. IsFiniteSet(receipts') /\ Cardinality(receipts') \in Nat
          /\ Cardinality(receipts') <= Cardinality(receipts) + 1
      BY <1>1, Callers, OneMoreOrLess
    <2>3. Owed' = Owed /\ Paid' = Paid + 1
      BY <1>2, <2>1, Fields, Constants DEF Owed, Paid
    <2> QED BY <1>2, <2>2, <2>3, Callers DEF Budgeted
  <1>6. SessionOK'
    <2>1. ASSUME NEW x, Held(x) PROVE Held(x)'
      <3>1. CASE x \in gone
        BY <1>1, <3>1 DEF Held, Withheld
      <3>2. CASE x \notin gone
        BY <1>1, <1>2, <2>1, <3>2 DEF Held, Withheld
      <3> QED BY <3>1, <3>2
    <2>2. ResultsStay
      BY <1>2 DEF ResultsStay
    <2> QED BY <1>2, <2>1, <2>2, SessionStays, StillAccounted
  <1>7. RestOK'
    BY <1>2, <1>4, <1>5, <1>6, Together DEF RestOK
  <1> QED BY <1>3, <1>7, TogetherNext

\* RetryProcessing keeps the invariant: the retry pays for the wake to come.
LEMMA RetryKeeps ==
    ASSUME IInv, NEW i \in Inputs, RetryProcessing(i)
    PROVE  IInv'
PROOF
  <1> TypeOK
    BY DEF IInv
  <1>1. DispatcherTypeOK' /\ DispatcherOK'
    BY CalmKeeps, SameJobsStay DEF RetryProcessing, IInv, TypeOK, DispatcherTypeOK
  <1>2. Receipt(i, {}) \in ReceiptType
    BY Constants DEF Receipt, ReceiptType
  <1>3. InboxTypeOK'
    BY <1>2 DEF RetryProcessing, TypeOK, InboxTypeOK
  <1>4. /\ budget' \in BudgetType /\ budget'.retries = budget.retries - 1
        /\ budget'.sessions = budget.sessions /\ budget'.faults = budget.faults
    BY RetrySpent DEF RetryProcessing
  <1>5. Budgeted'
    <2>1. /\ IsFiniteSet(receipts') /\ Cardinality(receipts') \in Nat
          /\ Cardinality(receipts') <= Cardinality(receipts) + 1
      BY Callers, OneMoreOrLess DEF RetryProcessing
    <2>2. Owed' = Owed /\ UNCHANGED <<disp, toWake, forsaken>>
      BY DEF RetryProcessing, Owed
    <2>3. Paid' = Paid + 1
      BY <1>4, Fields, Constants DEF RetryProcessing, Paid
    <2> QED BY <2>1, <2>2, <2>3, Callers DEF Budgeted
  <1>6. SessionOK'
    <2>1. ResultsStay /\ \A x : Held(x) => Held(x)'
      BY DEF ResultsStay, RetryProcessing, Held, Withheld
    <2> QED BY <1>4, <2>1, SessionStays, StillAccounted DEF RetryProcessing
  <1>7. RestOK'
    BY <1>3, <1>4, <1>5, <1>6, Together DEF RestOK, RetryProcessing
  <1> QED BY <1>1, <1>7, TogetherNext

\* A lease runs out, or a row reaches the end of its retention.
LEMMA AgeingKeeps ==
    ASSUME IInv, NEW i \in Inputs, LeaseExpires(i) \/ Expire(i)
    PROVE  IInv'
PROOF
  <1> TypeOK
    BY DEF IInv
  <1>1. /\ UNCHANGED <<disp, permit, waking, loops, jobs, rows, blocked, callers, received, lost,
                       session, budget>>
        /\ leased' \subseteq leased /\ expired \subseteq expired' /\ expired' \subseteq expired \cup rows
    BY DEF LeaseExpires, Expire
  <1>2. DispatcherTypeOK' /\ DispatcherOK'
    BY <1>1, CalmKeeps, SameJobsStay DEF IInv, TypeOK, DispatcherTypeOK
  <1>3. InboxTypeOK'
    BY <1>1 DEF TypeOK, InboxTypeOK
  <1>4. Budgeted'
    BY <1>1, BudgetStays, Fields
  <1>5. SessionOK'
    <2>1. ResultsStay
      BY <1>1 DEF ResultsStay
    <2> QED BY <1>1, <2>1, SessionStays, StillAccounted, HeldStays, SameLoopsHold
  <1>6. RestOK'
    BY <1>1, <1>3, <1>4, <1>5, Together DEF RestOK
  <1> QED BY <1>2, <1>6, TogetherNext

-----------------------------------------------------------------------------
(* The steps of a job.                                                       *)

\* A job that keeps its input and its loop leaves the dispatcher in order.
LEMMA JobMoves ==
    ASSUME IInv, NEW j \in DOMAIN jobs, NEW n \in JobType,
           n.input = jobs[j].input, n.epoch = jobs[j].epoch, jobs' = [jobs EXCEPT ![j] = n],
           UNCHANGED <<disp, permit, waking, loops>>
    PROVE  /\ DispatcherTypeOK' /\ DispatcherOK' /\ DOMAIN jobs' = DOMAIN jobs /\ jobs'[j] = n
           /\ \A k \in DOMAIN jobs : k # j => jobs'[k] = jobs[k]
PROOF
  <1>1. /\ DOMAIN jobs' = DOMAIN jobs /\ jobs'[j] = n
        /\ \A k \in DOMAIN jobs : k # j => jobs'[k] = jobs[k]
    OBVIOUS
  <1>2. JobsStay
    BY <1>1, Fields DEF IInv, JobsStay
  <1> QED BY <1>1, <1>2, CalmKeeps DEF IInv, TypeOK, DispatcherTypeOK

\* A job that goes on changes its stage and its status.
LEMMA JobUpdate ==
    ASSUME NEW r \in JobType, NEW g \in {"running", "result", "ended"}, NEW t \in Statuses
    PROVE  LET n == [r EXCEPT !.stage = g, !.status = t]
           IN  n \in JobType /\ n.input = r.input /\ n.epoch = r.epoch /\ n.stage = g /\ n.status = t
PROOF BY DEF JobType

\* A job that goes on to another stage.
LEMMA JobStage ==
    ASSUME NEW r \in JobType, NEW g \in {"running", "result", "ended"}
    PROVE  LET n == [r EXCEPT !.stage = g]
           IN  n \in JobType /\ n.input = r.input /\ n.epoch = r.epoch /\ n.stage = g
PROOF BY DEF JobType

\* While job j was running no other stage of it was a result.
LEMMA ResultOfOthers ==
    ASSUME NEW j \in DOMAIN jobs, jobs[j].stage = "running", DOMAIN jobs' = DOMAIN jobs,
           \A k \in DOMAIN jobs : k # j => jobs'[k] = jobs[k]
    PROVE  ResultsStay
PROOF BY DEF ResultsStay

\* JobCommits keeps the invariant: the input leaves the inbox and its result is
\* with the job.
LEMMA CommitKeeps ==
    ASSUME IInv, NEW j \in DOMAIN jobs, JobCommits(j)
    PROVE  IInv'
PROOF
  <1> TypeOK
    BY DEF IInv
  <1> DEFINE i == jobs[j].input
             n == [jobs[j] EXCEPT !.stage = "result", !.status = "applied"]
  <1>1. jobs[j] \in JobType
    BY Fields
  <1>2. n \in JobType /\ n.input = i /\ n.epoch = jobs[j].epoch /\ n.stage = "result" /\ n.status = "applied"
    BY <1>1, JobUpdate DEF Statuses
  <1>3. jobs' = [jobs EXCEPT ![j] = n]
    BY DEF JobCommits
  <1>4. /\ DispatcherTypeOK' /\ DispatcherOK' /\ DOMAIN jobs' = DOMAIN jobs /\ jobs'[j] = n
        /\ \A k \in DOMAIN jobs : k # j => jobs'[k] = jobs[k]
    <2> HIDE DEF n
    <2> QED BY <1>2, <1>3, JobMoves DEF JobCommits
  <1>5. ResultsStay
    BY <1>4, ResultOfOthers DEF JobCommits
  <1>6. InboxTypeOK'
    BY DEF JobCommits, TypeOK, InboxTypeOK
  <1>7. Budgeted'
    BY BudgetStays, Fields DEF JobCommits
  <1>8. SessionOK'
    <2>1. ASSUME NEW x, Accounted(x) PROVE Accounted(x)'
      <3>1. HasResult(j, i)'
        <4> HIDE DEF n
        <4> QED BY <1>2, <1>4 DEF HasResult
      <3>2. CASE x = i
        BY <1>4, <3>1, <3>2 DEF Accounted
      <3>3. CASE x # i /\ \E k \in DOMAIN jobs : HasResult(k, x)
        <4>1. PICK k \in DOMAIN jobs : HasResult(k, x)
          BY <3>3
        <4>2. HasResult(k, x)' /\ k \in DOMAIN jobs'
          BY <1>5, <4>1 DEF HasResult, ResultsStay
        <4> QED BY <4>2 DEF Accounted
      <3>4. CASE x # i /\ ~\E k \in DOMAIN jobs : HasResult(k, x)
        <4>1. Held(x) => Held(x)'
          BY <3>4 DEF Held, Withheld, JobCommits
        <4> QED BY <2>1, <3>4, <4>1 DEF Accounted, Applied, Dropped, JobCommits
      <3> QED BY <3>2, <3>3, <3>4
    <2> QED BY <2>1, SessionStays DEF JobCommits
  <1>9. RestOK'
    BY <1>6, <1>7, <1>8, Together DEF RestOK, JobCommits
  <1> QED BY <1>4, <1>9, TogetherNext

\* The attempt fails, or finds its row gone.
LEMMA FailKeeps ==
    ASSUME IInv, NEW j \in DOMAIN jobs, JobFails(j) \/ JobDiscarded(j)
    PROVE  IInv'
PROOF
  <1> TypeOK
    BY DEF IInv
  <1>1. jobs[j] \in JobType /\ jobs[j].stage = "running"
    BY Fields DEF JobFails, JobDiscarded
  <1>2. PICK n \in JobType : /\ n.input = jobs[j].input /\ n.epoch = jobs[j].epoch
                             /\ jobs' = [jobs EXCEPT ![j] = n]
    <2>1. CASE JobFails(j)
      BY <1>1, <2>1, JobStage DEF JobFails
    <2>2. CASE JobDiscarded(j)
      <3> DEFINE m == [jobs[j] EXCEPT !.stage = "result", !.status = "discarded"]
      <3>1. m \in JobType /\ m.input = jobs[j].input /\ m.epoch = jobs[j].epoch
        BY <1>1, JobUpdate DEF Statuses
      <3>2. jobs' = [jobs EXCEPT ![j] = m]
        BY <2>2 DEF JobDiscarded
      <3> HIDE DEF m
      <3> QED BY <3>1, <3>2
    <2> QED BY <2>1, <2>2
  <1>3. UNCHANGED <<disp, permit, waking, loops, rows, expired, callers, received, lost, session>>
    BY DEF JobFails, JobDiscarded, inbox
  <1>4. /\ DispatcherTypeOK' /\ DispatcherOK' /\ DOMAIN jobs' = DOMAIN jobs /\ jobs'[j] = n
        /\ \A k \in DOMAIN jobs : k # j => jobs'[k] = jobs[k]
    BY <1>2, <1>3, JobMoves
  <1>5. ResultsStay
    BY <1>1, <1>4, ResultOfOthers
  <1>6. InboxTypeOK'
    BY <1>3 DEF JobFails, JobDiscarded, inbox, TypeOK, InboxTypeOK
  <1>7. /\ budget' \in BudgetType /\ budget'.sessions = budget.sessions
        /\ budget'.faults = budget.faults
        /\ budget'.retries \in Int /\ budget'.retries <= budget.retries
    <2>1. CASE budget' = budget
      BY <2>1, Fields, Together DEF RestOK
    <2>2. CASE budget.retries > 0 /\ budget' = [budget EXCEPT !.retries = @ - 1]
      BY <2>2, RetrySpent, Fields
    <2> QED BY <2>1, <2>2 DEF JobFails, JobDiscarded
  <1>8. Budgeted'
    BY <1>3, <1>7, BudgetStays, Fields
  <1>9. SessionOK'
    BY <1>3, <1>5, <1>7, SessionStays, StillAccounted, HeldStays, SameLoopsHold
  <1>10. RestOK'
    BY <1>3, <1>6, <1>7, <1>8, <1>9, Together DEF RestOK
  <1> QED BY <1>4, <1>10, TogetherNext

\* JobPublishes keeps the invariant: the result moves from the job to the
\* channel.
LEMMA JobPublishKeeps ==
    ASSUME IInv, NEW j \in DOMAIN jobs, JobPublishes(j)
    PROVE  IInv'
PROOF
  <1> TypeOK
    BY DEF IInv
  <1> DEFINE u == [input |-> jobs[j].input, status |-> jobs[j].status]
  <1>1. jobs[j] \in JobType
    BY Fields
  <1>2. PICK n \in JobType : /\ n.input = jobs[j].input /\ n.epoch = jobs[j].epoch
                             /\ jobs' = [jobs EXCEPT ![j] = n]
    BY <1>1, JobStage DEF JobPublishes
  <1>3. UNCHANGED <<disp, permit, waking, loops, rows, blocked, expired, callers, received, lost,
                    budget>>
    BY DEF JobPublishes
  <1>4. /\ DispatcherTypeOK' /\ DispatcherOK' /\ DOMAIN jobs' = DOMAIN jobs
        /\ \A k \in DOMAIN jobs : k # j => jobs'[k] = jobs[k]
    BY <1>2, <1>3, JobMoves
  <1>5. u \in Updates /\ Publish({u})
    BY <1>1, JobFields DEF JobPublishes, Updates
  <1>6. /\ session' \in SessionType /\ Cardinality(session'.queue) <= Buffer
        /\ session'.pc = session.pc /\ session'.start = session.start
        /\ session'.seen = session.seen /\ session'.discards = session.discards
        /\ session'.complete = session.complete /\ session'.pending = session.pending
        /\ session.lagged => session'.lagged
        /\ Waiting => session'.lagged \/ session.queue \cup {u} \subseteq session'.queue
    <2> HIDE DEF u
    <2>1. {u} \in SUBSET Updates
      BY <1>5
    <2> QED BY <1>5, <2>1, PublishKeeps
  <1>7. InboxTypeOK'
    BY <1>3 DEF JobPublishes, TypeOK, InboxTypeOK
  <1>8. Budgeted'
    BY <1>3, <1>6, BudgetStays, Fields
  <1>9. SessionOK'
    <2>1. ASSUME NEW x, Accounted(x), Waiting PROVE Accounted(x)'
      <3>1. CASE session'.lagged
        BY <3>1 DEF Accounted
      <3>2. CASE ~session'.lagged /\ HasResult(j, x)
        <4>1. u = Applied(x)
          BY <3>2 DEF HasResult, Applied
        <4>2. Applied(x) \in session'.queue
          BY <1>6, <2>1, <3>2, <4>1
        <4> QED BY <4>2 DEF Accounted, Applied
      <3>3. CASE ~session'.lagged /\ ~HasResult(j, x)
        <4>1. session.queue \subseteq session'.queue /\ ~session.lagged
          BY <1>6, <2>1, <3>3
        <4>2. ASSUME NEW k \in DOMAIN jobs, HasResult(k, x) PROVE Accounted(x)'
          <5>1. HasResult(k, x)' /\ k \in DOMAIN jobs'
            BY <1>4, <3>3, <4>2 DEF HasResult
          <5> QED BY <5>1 DEF Accounted
        <4>3. Held(x) => Held(x)'
          BY <1>3, HeldStays, SameLoopsHold
        <4> QED BY <1>6, <2>1, <4>1, <4>2, <4>3 DEF Accounted, Applied, Dropped
      <3> QED BY <3>1, <3>2, <3>3
    <2> QED BY <1>3, <1>6, <2>1, SessionStays
  <1>10. RestOK'
    BY <1>3, <1>6, <1>7, <1>8, <1>9, Together DEF RestOK
  <1> QED BY <1>4, <1>10, TogetherNext

\* JobDies keeps the invariant.
LEMMA JobDiesKeeps ==
    ASSUME IInv, NEW j \in DOMAIN jobs, JobDies(j)
    PROVE  IInv'
PROOF
  <1> TypeOK
    BY DEF IInv
  <1>1. PICK n \in JobType : /\ n.input = jobs[j].input /\ n.epoch = jobs[j].epoch
                             /\ jobs' = [jobs EXCEPT ![j] = n]
    BY Fields, JobStage DEF JobDies
  <1>2. DispatcherTypeOK' /\ DispatcherOK'
    BY <1>1, JobMoves DEF JobDies
  <1>3. RestOK'
    BY FaultKeeps, Fields DEF JobDies
  <1> QED BY <1>2, <1>3, TogetherNext

-----------------------------------------------------------------------------
(* The steps of the session.                                                 *)

\* The session is the only one that moves.
LEMMA SessionAlone ==
    ASSUME IInv, UNCHANGED <<disp, waking, loops, jobs, inbox, callers, budget>>, permit' \in BOOLEAN,
           session' \in SessionType, Cardinality(session'.queue) <= Buffer,
           session'.pc # "open", SessionOK'
    PROVE  IInv'
PROOF
  <1> USE DEF inbox
  <1> TypeOK
    BY DEF IInv
  <1>1. DispatcherTypeOK' /\ DispatcherOK'
    BY CalmKeeps, SameJobsStay
  <1>2. Budgeted'
    BY BudgetStays, Fields
  <1>3. RestOK'
    BY <1>2, Together DEF RestOK, InboxTypeOK
  <1> QED BY <1>1, <1>3, TogetherNext

\* What a closed session looks like.
LEMMA ClosedSession ==
    /\ Closed \in SessionType /\ Cardinality(Closed.queue) = 0 /\ Closed.pc = "closed"
    /\ Closed.start = {} /\ Closed.complete = FALSE
PROOF BY FS_EmptySet DEF Closed, SessionType

\* CloseSession keeps the invariant.
LEMMA CloseKeeps ==
    ASSUME IInv, CloseSession
    PROVE  IInv'
PROOF
  <1>1. SessionOK'
    BY ClosedSession DEF CloseSession, SessionOK, Waiting
  <1> QED BY <1>1, ClosedSession, SessionAlone, Constants DEF CloseSession

\* The session has its type and its queue fits the channel.
LEMMA QueueBound ==
    ASSUME IInv
    PROVE  /\ session \in SessionType /\ Cardinality(session.queue) <= Buffer
           /\ permit \in BOOLEAN
PROOF BY DEF IInv, TypeOK, DispatcherTypeOK

\* Drain keeps the invariant: the results move from the channel to what was
\* seen.
LEMMA DrainKeeps ==
    ASSUME IInv, Drain
    PROVE  IInv'
PROOF
  <1> TypeOK
    BY DEF IInv
  <1>1. session \in SessionType /\ Cardinality(session.queue) <= Buffer /\ session.queue \subseteq Updates
    BY QueueBound, SessionFields
  <1>2. OfWatched("applied") \subseteq Inputs /\ OfWatched("discarded") \subseteq Inputs
    BY <1>1 DEF OfWatched, Updates
  <1>3. /\ session' \in SessionType /\ session'.queue = {} /\ session'.pc = "summary"
        /\ session'.seen = session.seen \cup OfWatched("applied")
        /\ session'.discards = session.discards \cup OfWatched("discarded")
        /\ session'.start = session.start /\ session'.complete = session.complete
        /\ session'.lagged = session.lagged
    BY <1>1, <1>2 DEF Drain, SessionType
  <1>4. UNCHANGED <<disp, permit, waking, loops, jobs, rows, blocked, leased, expired, callers,
                    received, lost, budget>>
    BY DEF Drain, inbox
  <1>5. SessionOK /\ Waiting /\ session.pc = "drain"
    BY DEF IInv, Drain, Waiting
  <1>6. SessionOK'
    <2>1. ASSUME NEW i \in session.start, Accounted(i) PROVE Accounted(i)'
      <3>1. CASE Applied(i) \in session.queue
        <4>1. i \in OfWatched("applied")
          BY <1>5, <3>1 DEF OfWatched, Applied, SessionOK
        <4> QED BY <1>3, <4>1 DEF Accounted
      <3>2. CASE Dropped(i) \in session.queue
        <4>1. i \in OfWatched("discarded")
          BY <1>5, <3>2 DEF OfWatched, Dropped, SessionOK
        <4> QED BY <1>3, <4>1 DEF Accounted
      <3>3. ASSUME NEW k \in DOMAIN jobs, HasResult(k, i) PROVE Accounted(i)'
        <4>1. HasResult(k, i)' /\ k \in DOMAIN jobs'
          BY <1>4, <3>3 DEF HasResult
        <4> QED BY <4>1 DEF Accounted
      <3>4. Held(i) => Held(i)'
        BY <1>4, HeldStays, SameLoopsHold
      <3> QED BY <1>3, <2>1, <3>1, <3>2, <3>3, <3>4 DEF Accounted
    <2>2. ~session'.complete
      BY <1>3, <1>5 DEF SessionOK
    <2>3. budget'.faults = MaxFaults /\ Waiting' => \A i \in session.start : Accounted(i)'
      BY <1>4, <1>5, <2>1 DEF SessionOK
    <2> QED BY <1>3, <1>4, <1>5, <2>2, <2>3 DEF SessionOK
  <1>7. Cardinality(session'.queue) <= Buffer
    BY <1>3, FS_EmptySet, Constants
  <1>8. permit' \in BOOLEAN
    BY <1>4, QueueBound
  <1> QED BY <1>3, <1>4, <1>6, <1>7, <1>8, SessionAlone DEF inbox

\* A session whose queue, lag and outcome stay accounts for the same inputs.
LEMMA AccountsStay ==
    ASSUME NEW i, Accounted(i), UNCHANGED <<jobs, loops, rows, lost, receipts>>,
           session'.queue = session.queue, session'.lagged = session.lagged,
           session'.seen = session.seen, session'.discards = session.discards
    PROVE  Accounted(i)'
PROOF BY DEF Accounted, HasResult, Applied, Dropped, Held, Withheld

\* ReadSummary keeps the invariant: with nothing pending no input of the start
\* is retained.
LEMMA SummaryKeeps ==
    ASSUME IInv, ReadSummary
    PROVE  IInv'
PROOF
  <1> TypeOK
    BY DEF IInv
  <1> DEFINE mine == RowsOf(Watched)
  <1>1. session \in SessionType /\ Cardinality(session.queue) <= Buffer /\ permit \in BOOLEAN
    BY QueueBound
  <1>2. /\ IsFiniteSet(mine) /\ Cardinality(mine) \in Nat /\ (Cardinality(mine) = 0 => mine = {})
    <2>1. mine \in SUBSET Inputs
      BY DEF RowsOf, TypeOK, InboxTypeOK
    <2>2. IsFiniteSet(mine)
      BY <2>1, Constants, FS_Subset
    <2> QED BY <2>2, FS_CardinalityType, FS_EmptySet
  <1>3. session' = [session EXCEPT !.pc = "check", !.pending = Cardinality(mine),
                                   !.stuck = mine # {} /\ mine \subseteq blocked]
    BY DEF ReadSummary
  <1>4. /\ session' \in SessionType /\ session'.queue = session.queue /\ session'.pc = "check"
        /\ session'.seen = session.seen /\ session'.start = session.start
        /\ session'.discards = session.discards
        /\ session'.complete = session.complete /\ session'.lagged = session.lagged
        /\ session'.pending = Cardinality(mine)
    <2>1. (mine # {} /\ mine \subseteq blocked) \in BOOLEAN
      OBVIOUS
    <2> HIDE DEF mine
    <2> QED BY <1>1, <1>2, <1>3, <2>1 DEF SessionType
  <1>5. UNCHANGED <<disp, permit, waking, loops, jobs, rows, blocked, leased, expired, callers,
                    received, lost, budget>>
    BY DEF ReadSummary, inbox
  <1>6. SessionOK /\ Waiting /\ session.pc = "summary"
    BY DEF IInv, ReadSummary, Waiting
  <1>7. SessionOK'
    <2>1. session'.pending = 0 => session.start \cap rows = {}
      <3> SUFFICES ASSUME session'.pending = 0, NEW i \in session.start, i \in rows PROVE FALSE
        OBVIOUS
      <3>1. i \in mine
        BY <1>6 DEF RowsOf, SessionOK
      <3> QED BY <1>2, <1>4, <3>1
    <2>2. budget'.faults = MaxFaults => \A i \in session.start : Accounted(i)'
      BY <1>4, <1>5, <1>6, AccountsStay DEF SessionOK
    <2>3. ~session'.complete
      BY <1>4, <1>6 DEF SessionOK
    <2> QED BY <1>4, <1>5, <1>6, <2>1, <2>2, <2>3 DEF SessionOK
  <1> QED BY <1>1, <1>4, <1>5, <1>7, SessionAlone DEF inbox

\* What the end of a round leaves of the session.
LEMMA RoundFields ==
    ASSUME session \in SessionType
    PROVE  /\ NextRound \in SessionType /\ NextRound.pc = "drain"
           /\ NextRound.queue = session.queue /\ NextRound.lagged = session.lagged
           /\ NextRound.seen = session.seen /\ NextRound.discards = session.discards
           /\ NextRound.start = session.start /\ NextRound.complete = session.complete
PROOF BY DEF NextRound, SessionType

\* What the host is left with when a wait returns.
LEMMA ReturnFields ==
    ASSUME session \in SessionType, NEW c \in BOOLEAN
    PROVE  /\ Returned(c) \in SessionType /\ Returned(c).pc = "done"
           /\ Returned(c).queue = session.queue /\ Returned(c).start = {}
           /\ Returned(c).complete = c
PROOF BY DEF Returned, Closed, SessionType

\* Another round keeps the invariant.
LEMMA RoundKeeps ==
    ASSUME IInv, session.pc = "check", session' = NextRound,
           UNCHANGED <<disp, permit, waking, loops, jobs, inbox, callers, budget>>
    PROVE  IInv'
PROOF
  <1>1. session \in SessionType /\ Cardinality(session.queue) <= Buffer /\ permit \in BOOLEAN
    BY QueueBound
  <1>2. /\ session' \in SessionType /\ session'.pc = "drain"
        /\ session'.queue = session.queue /\ session'.lagged = session.lagged
        /\ session'.seen = session.seen /\ session'.discards = session.discards
        /\ session'.start = session.start /\ session'.complete = session.complete
    BY <1>1, RoundFields
  <1>3. SessionOK /\ Waiting
    BY DEF IInv, Waiting
  <1>4. SessionOK'
    <2>1. ~session'.complete
      BY <1>2, <1>3 DEF SessionOK
    <2>2. budget'.faults = MaxFaults => \A i \in session.start : Accounted(i)'
      BY <1>2, <1>3, AccountsStay DEF SessionOK, inbox
    <2>3. session'.start \subseteq received' /\ \A i \in session'.start : OwnerOf[i] = Watched
      BY <1>2, <1>3 DEF SessionOK, inbox
    <2> QED BY <1>2, <2>1, <2>2, <2>3 DEF SessionOK
  <1> QED BY <1>1, <1>2, <1>4, SessionAlone

\* A wait that returns keeps the invariant.
LEMMA ReturnKeeps ==
    ASSUME IInv, NEW c \in BOOLEAN, session' = Returned(c),
           UNCHANGED <<disp, permit, waking, loops, jobs, inbox, callers, budget>>
    PROVE  IInv'
PROOF
  <1>1. session \in SessionType /\ Cardinality(session.queue) <= Buffer /\ permit \in BOOLEAN
    BY QueueBound
  <1>2. /\ session' \in SessionType /\ session'.pc = "done" /\ session'.queue = session.queue
        /\ session'.start = {}
    BY <1>1, ReturnFields
  <1>3. SessionOK'
    BY <1>2 DEF SessionOK, Waiting
  <1> QED BY <1>1, <1>2, <1>3, SessionAlone

\* No job of the session's owner is left when it finds the dispatcher idle.
LEMMA IdleOwner ==
    ASSUME IInv, disp.active[Watched] = 0, NEW j \in DOMAIN jobs
    PROVE  OwnerOf[jobs[j].input] # Watched
PROOF
  <1> TypeOK
    BY DEF IInv
  <1>1. Cardinality(CountOf(Watched)) = 0
    BY Constants DEF IInv, DispatcherOK, ActiveIsExact, CountOf
  <1>2. CountOf(Watched) \in SUBSET (DOMAIN jobs)
    BY DEF CountOf, JobsOf
  <1>3. IsFiniteSet(CountOf(Watched))
    BY <1>2, Fields, FS_Subset
  <1>4. CountOf(Watched) = {}
    BY <1>1, <1>3, FS_EmptySet
  <1> QED BY <1>4, JobsAreCurrent DEF CountOf, JobsOf

\* wait_async returns complete only after every result was seen: with nothing
\* pending, active, queued or lagged an input of the start was seen applied, or
\* its removal is not published.
LEMMA CompleteIsSeen ==
    ASSUME IInv, ReturnComplete, session'.complete, ~session.complete, budget.faults = MaxFaults
    PROVE  session.start \ session.seen \subseteq Unreported
PROOF
  <1>1. session \in SessionType
    BY QueueBound
  <1>2. SessionOK /\ Waiting /\ session.pc = "check" /\ session.pending = 0 /\ disp.active[Watched] = 0
    BY DEF IInv, ReturnComplete, Waiting, Settled
  <1>3. session.queue = {} /\ session.discards = {} /\ ~session.lagged
    <2>1. session.queue = {}
      BY <1>1, RoundFields DEF ReturnComplete
    <2> DEFINE c == session.discards = {} /\ ~session.lagged
    <2>2. c \in BOOLEAN /\ session' = Returned(c)
      BY <2>1 DEF ReturnComplete
    <2>3. c
      <3> HIDE DEF c
      <3> QED BY <1>1, <2>2, ReturnFields
    <2> QED BY <2>1, <2>3
  <1>4. ASSUME NEW i \in session.start, i \notin session.seen PROVE i \in Unreported
    <2>1. Accounted(i) /\ OwnerOf[i] = Watched /\ i \notin rows
      BY <1>2 DEF SessionOK
    <2>2. ~\E j \in DOMAIN jobs : HasResult(j, i)
      BY <1>2, <2>1, IdleOwner DEF HasResult
    <2>3. Withheld(i)
      BY <1>3, <1>4, <2>1, <2>2 DEF Accounted, Held
    <2> QED BY <1>1, <2>3, SessionFields DEF Withheld, Unreported
  <1> QED BY <1>4

\* The check for completion keeps the invariant.
LEMMA CompleteKeeps ==
    ASSUME IInv, ReturnComplete
    PROVE  IInv'
PROOF
  <1>1. CASE session.queue # {}
    BY <1>1, RoundKeeps DEF ReturnComplete
  <1>2. CASE session.queue = {}
    <2> DEFINE c == session.discards = {} /\ ~session.lagged
    <2>1. c \in BOOLEAN /\ session' = Returned(c)
      BY <1>2 DEF ReturnComplete
    <2> HIDE DEF c
    <2> QED BY <2>1, ReturnKeeps DEF ReturnComplete
  <1> QED BY <1>1, <1>2

\* The session's steps keep the invariant.
LEMMA SessionKeeps ==
    ASSUME IInv, SessionStep \/ CloseSession
    PROVE  IInv'
PROOF
  <1>1. CASE WaitLonger
    BY <1>1, RoundKeeps DEF WaitLonger
  <1>2. CASE ReturnIncomplete
    BY <1>2, ReturnKeeps DEF ReturnIncomplete
  <1> QED BY <1>1, <1>2, CloseKeeps, DrainKeeps, SummaryKeeps, CompleteKeeps DEF SessionStep

-----------------------------------------------------------------------------
(* The steps that wake the dispatcher.                                       *)

\* What was paid for bounds the epochs.
LEMMA EpochPaid ==
    ASSUME Budgeted', disp'.epoch \in Nat, InboxTypeOK', budget' \in BudgetType
    PROVE  disp'.epoch <= MaxEpoch
PROOF
  <1>1. /\ Cardinality(receipts') \in Nat /\ Cardinality(toWake') \in Nat
        /\ Cardinality(forsaken') \in Nat
    <2>1. toWake' \in SUBSET Owners /\ forsaken' \in SUBSET Owners /\ IsFiniteSet(receipts')
      BY DEF InboxTypeOK, Budgeted
    <2>2. IsFiniteSet(toWake') /\ IsFiniteSet(forsaken')
      BY <2>1, Constants, FS_Subset
    <2> QED BY <2>1, <2>2, FS_CardinalityType
  <1>2. Cardinality(received') \in Nat /\ Cardinality(received') <= Cardinality(Inputs)
    <2>1. received' \in SUBSET Inputs
      BY DEF InboxTypeOK
    <2> QED BY <2>1, Constants, FS_Subset, FS_CardinalityType
  <1>3. budget'.retries \in 0 .. MaxRetries /\ budget'.sessions \in 0 .. MaxSessions
    BY DEF BudgetType
  <1>4. Owed' \in {0, 1}
    BY DEF Owed
  <1> QED BY <1>1, <1>2, <1>3, <1>4, Constants DEF Budgeted, Paid, MaxEpoch

\* A wake advances the epoch by one at most.
LEMMA WakeEpoch ==
    ASSUME IInv, NEW o \in Owners, WakeClient(o)
    PROVE  disp'.epoch \in Nat /\ disp'.epoch <= disp.epoch + 1 /\ disp.epoch \in Nat
PROOF
  <1> TypeOK
    BY DEF IInv
  <1>1. disp'.epoch = (IF disp.running THEN disp.epoch ELSE disp.epoch + 1) /\ disp.epoch \in Nat
    BY WokenFields, Fields DEF WakeClient
  <1> QED BY <1>1

\* A wake of wake_client keeps the invariant if the epoch it may start is paid
\* for, and the session goes on as it was.
LEMMA WakeAloneKeeps ==
    ASSUME IInv, NEW o \in Owners, WakeClient(o), Budgeted',
           toWake' \subseteq toWake,
           UNCHANGED <<permit, loops, jobs, inbox, receipts, session, budget>>
    PROVE  IInv'
PROOF
  <1> USE DEF inbox
  <1> TypeOK
    BY DEF IInv
  <1>1. forsaken' \subseteq forsaken
    BY DEF WakeClient
  <1>2. InboxTypeOK' /\ budget' \in BudgetType
    BY <1>1, Together DEF RestOK, InboxTypeOK
  <1>3. DispatcherTypeOK' /\ DispatcherOK'
    BY <1>2, EpochPaid, WakeEpoch, WakeKeeps
  <1>4. SessionOK'
    <2>1. ResultsStay
      BY DEF ResultsStay
    <2> QED BY <2>1, SessionStays, StillAccounted, HeldStays, SameLoopsHold
  <1>5. RestOK'
    BY <1>2, <1>4, Together DEF RestOK
  <1> QED BY <1>3, <1>5, TogetherNext

\* The wake of a caller that has its answer keeps the invariant.
LEMMA WakeAfterReceiveKeeps ==
    ASSUME IInv, NEW o \in Owners, WakeAfterReceive(o)
    PROVE  IInv'
PROOF
  <1>1. /\ UNCHANGED <<permit, loops, jobs, inbox, receipts, session, budget>>
        /\ o \in toWake /\ toWake' = toWake \ {o} /\ WakeClient(o) /\ forsaken' = forsaken \ {o}
    BY DEF WakeAfterReceive, WakeClient
  <1>2. Budgeted'
    <2>1. Cardinality(toWake') = Cardinality(toWake) - 1
      BY <1>1, Callers, OneMoreOrLess
    <2>2. Cardinality(forsaken') \in Nat /\ Cardinality(forsaken') <= Cardinality(forsaken)
      BY <1>1, Callers, OneMoreOrLess
    <2>3. disp'.epoch \in Nat /\ disp'.epoch <= disp.epoch + 1
      BY <1>1, WakeEpoch
    <2>4. Owed' = Owed /\ Paid' = Paid
      BY <1>1 DEF Owed, Paid, inbox
    <2> QED BY <1>1, <2>1, <2>2, <2>3, <2>4, Callers DEF Budgeted
  <1> QED BY <1>1, <1>2, WakeAloneKeeps

\* The wake at the start of a later run keeps the invariant.
LEMMA WakeAtRunStartKeeps ==
    ASSUME IInv, NEW o \in Owners, WakeAtRunStart(o)
    PROVE  IInv'
PROOF
  <1>1. /\ UNCHANGED <<permit, loops, jobs, inbox, receipts, toWake, session, budget>>
        /\ o \in forsaken /\ WakeClient(o) /\ forsaken' = forsaken \ {o}
    BY DEF WakeAtRunStart, WakeClient
  <1>2. Budgeted'
    <2>1. Cardinality(forsaken') = Cardinality(forsaken) - 1
      BY <1>1, Callers, OneMoreOrLess
    <2>2. disp'.epoch \in Nat /\ disp'.epoch <= disp.epoch + 1
      BY <1>1, WakeEpoch
    <2>3. Owed' = Owed /\ Paid' = Paid
      BY <1>1 DEF Owed, Paid, inbox
    <2> QED BY <1>1, <2>1, <2>2, <2>3, Callers DEF Budgeted
  <1> QED BY <1>1, <1>2, WakeAloneKeeps

\* A caller that is dropped leaves a wake to come and removals nobody reports.
LEMMA CutKeeps ==
    ASSUME IInv, NEW r \in receipts, CutCaller(r)
    PROVE  IInv'
PROOF
  <1> TypeOK
    BY DEF IInv
  <1>1. r \in ReceiptType /\ r.owner \in Owners /\ r.removed \subseteq Inputs
    BY DEF TypeOK, InboxTypeOK, ReceiptType
  <1>2. DispatcherTypeOK' /\ DispatcherOK'
    BY CalmKeeps, SameJobsStay DEF CutCaller, IInv, TypeOK, DispatcherTypeOK
  <1>3. InboxTypeOK'
    BY <1>1 DEF CutCaller, TypeOK, InboxTypeOK
  <1>4. Budgeted'
    <2>1. IsFiniteSet(receipts') /\ Cardinality(receipts') = Cardinality(receipts) - 1
      BY Callers, OneMoreOrLess DEF CutCaller
    <2>2. Cardinality(forsaken') \in Nat /\ Cardinality(forsaken') <= Cardinality(forsaken) + 1
      BY Callers, OneMoreOrLess DEF CutCaller
    <2>3. Owed' = Owed /\ Paid' = Paid /\ UNCHANGED <<disp, toWake>>
      BY DEF Owed, Paid, CutCaller
    <2> QED BY <2>1, <2>2, <2>3, Callers DEF Budgeted
  <1>5. SessionOK'
    <2>1. \A x : Held(x) => Held(x)'
      BY DEF CutCaller, Held, Withheld
    <2>2. ResultsStay
      BY DEF ResultsStay, CutCaller
    <2> QED BY <2>1, <2>2, SessionStays, StillAccounted DEF CutCaller
  <1>6. RestOK'
    BY <1>3, <1>4, <1>5, Together DEF RestOK, CutCaller
  <1> QED BY <1>2, <1>6, TogetherNext

\* A caller that has its answer publishes the removals: they move to the channel.
LEMMA PublishReceivedKeeps ==
    ASSUME IInv, NEW r \in receipts, PublishReceived(r)
    PROVE  IInv'
PROOF
  <1> TypeOK
    BY DEF IInv
  <1> DEFINE U == Discarded(r.removed)
  <1>1. r \in ReceiptType /\ r.owner \in Owners /\ r.removed \subseteq Inputs
    BY DEF TypeOK, InboxTypeOK, ReceiptType
  <1>2. U \in SUBSET Updates /\ \A x \in r.removed : Dropped(x) \in U
    BY <1>1 DEF Discarded, Updates, Statuses, Dropped
  <1>3. /\ UNCHANGED <<disp, permit, waking, loops, jobs, inbox, forsaken, budget>> /\ Publish(U)
        /\ receipts' = receipts \ {r} /\ toWake' = toWake \cup {r.owner}
    BY DEF PublishReceived
  <1> HIDE DEF U
  <1>4. /\ session' \in SessionType /\ Cardinality(session'.queue) <= Buffer
        /\ session'.pc = session.pc /\ session'.start = session.start
        /\ session'.seen = session.seen /\ session'.discards = session.discards
        /\ session'.complete = session.complete /\ session'.pending = session.pending
        /\ session.lagged => session'.lagged
        /\ Waiting => session'.lagged \/ session.queue \cup U \subseteq session'.queue
    BY <1>2, <1>3, PublishKeeps
  <1>5. DispatcherTypeOK' /\ DispatcherOK'
    BY <1>3, CalmKeeps, SameJobsStay DEF TypeOK, DispatcherTypeOK
  <1>6. InboxTypeOK'
    BY <1>1, <1>3 DEF TypeOK, InboxTypeOK, inbox
  <1>7. Budgeted'
    <2>1. IsFiniteSet(receipts') /\ Cardinality(receipts') = Cardinality(receipts) - 1
      BY <1>3, Callers, OneMoreOrLess
    <2>2. Cardinality(toWake') \in Nat /\ Cardinality(toWake') <= Cardinality(toWake) + 1
      BY <1>3, Callers, OneMoreOrLess
    <2>3. Owed' = Owed /\ Paid' = Paid
      BY <1>3, <1>4 DEF Owed, Paid, inbox
    <2> QED BY <1>3, <2>1, <2>2, <2>3, Callers DEF Budgeted
  <1>8. SessionOK'
    <2>1. ASSUME NEW x, Accounted(x), Waiting PROVE Accounted(x)'
      <3>1. CASE session'.lagged
        BY <3>1 DEF Accounted
      <3>2. CASE ~session'.lagged
        <4>1. session.queue \cup U \subseteq session'.queue /\ ~session.lagged
          BY <1>4, <2>1, <3>2
        <4>2. Held(x) => Held(x)' \/ Dropped(x) \in session'.queue
          BY <1>2, <1>3, <4>1 DEF Held, Withheld, inbox
        <4>3. ASSUME NEW k \in DOMAIN jobs, HasResult(k, x) PROVE Accounted(x)'
          <5>1. HasResult(k, x)' /\ k \in DOMAIN jobs'
            BY <1>3, <4>3 DEF HasResult
          <5> QED BY <5>1 DEF Accounted
        <4> QED BY <1>4, <2>1, <4>1, <4>2, <4>3 DEF Accounted, Applied, Dropped
      <3> QED BY <3>1, <3>2
    <2> QED BY <1>3, <1>4, <2>1, SessionStays DEF inbox
  <1>9. RestOK'
    BY <1>3, <1>4, <1>6, <1>7, <1>8, Together DEF RestOK
  <1> QED BY <1>5, <1>9, TogetherNext

\* OpenSession keeps the invariant: a session pays for two wakes, its own and
\* its wait's.
LEMMA OpenKeeps ==
    ASSUME IInv, OpenSession
    PROVE  IInv'
PROOF
  <1> TypeOK
    BY DEF IInv
  <1> Watched \in Owners
    BY Constants
  <1>1. /\ UNCHANGED <<permit, loops, jobs, rows, blocked, leased, expired, receipts, toWake,
                       received, lost>>
        /\ WakeClient(Watched) /\ session.pc = "closed" /\ session' = [Closed EXCEPT !.pc = "open"]
        /\ forsaken' = forsaken \ {Watched}
    BY DEF OpenSession, inbox, WakeClient
  <1>2. /\ session' \in SessionType /\ session'.pc = "open" /\ session'.queue = {}
        /\ session'.start = {} /\ session'.complete = FALSE
    BY <1>1 DEF Closed, SessionType
  <1>3. /\ budget' \in BudgetType /\ budget'.retries = budget.retries
        /\ budget'.sessions = budget.sessions - 1 /\ budget'.faults = budget.faults
    BY SessionSpent DEF OpenSession
  <1>4. InboxTypeOK'
    BY <1>1 DEF TypeOK, InboxTypeOK
  <1>5. Budgeted'
    <2>1. disp'.epoch \in Nat /\ disp'.epoch <= disp.epoch + 1 /\ disp.epoch \in Nat
      BY <1>1, WakeEpoch
    <2>2. Owed' = 1 /\ Owed = 0
      BY <1>1, <1>2 DEF Owed
    <2>3. Cardinality(forsaken') \in Nat /\ Cardinality(forsaken') <= Cardinality(forsaken)
      BY <1>1, Callers, OneMoreOrLess
    <2>4. Paid' = Paid + 2
      BY <1>1, <1>3, Fields, Constants DEF Paid
    <2> QED BY <1>1, <2>1, <2>2, <2>3, <2>4, Callers DEF Budgeted
  <1>6. DispatcherTypeOK' /\ DispatcherOK'
    BY <1>1, <1>3, <1>4, <1>5, EpochPaid, WakeEpoch, WakeKeeps
  <1>7. SessionOK'
    BY <1>2 DEF SessionOK, Waiting
  <1>8. RestOK'
    BY <1>2, <1>3, <1>4, <1>5, <1>7, FS_EmptySet, Constants DEF RestOK
  <1> QED BY <1>6, <1>8, TogetherNext

\* StartWait keeps the invariant: every input the wait begins with is retained.
LEMMA WaitKeeps ==
    ASSUME IInv, StartWait
    PROVE  IInv'
PROOF
  <1> TypeOK
    BY DEF IInv
  <1> Watched \in Owners
    BY Constants
  <1>1. /\ UNCHANGED <<permit, loops, jobs, rows, blocked, leased, expired, receipts, toWake,
                       received, lost, budget>>
        /\ WakeClient(Watched) /\ session.pc = "open" /\ forsaken' = forsaken \ {Watched}
        /\ session' = [session EXCEPT !.pc = "drain", !.start = RowsOf(Watched)]
    BY DEF StartWait, inbox, WakeClient
  <1>2. /\ RowsOf(Watched) \subseteq rows /\ rows \subseteq received /\ received \subseteq Inputs
        /\ \A i \in RowsOf(Watched) : OwnerOf[i] = Watched
    BY DEF RowsOf, TypeOK, InboxTypeOK
  <1>3. session \in SessionType /\ Cardinality(session.queue) <= Buffer
    BY QueueBound
  <1>4. /\ session' \in SessionType /\ session'.pc = "drain" /\ session'.queue = session.queue
        /\ session'.start = RowsOf(Watched) /\ session'.complete = session.complete
    <2>1. RowsOf(Watched) \in SUBSET Inputs
      BY <1>2
    <2> QED BY <1>1, <1>3, <2>1 DEF SessionType
  <1>5. InboxTypeOK' /\ budget' \in BudgetType
    BY <1>1, Together DEF RestOK, InboxTypeOK
  <1>6. Budgeted'
    <2>1. disp'.epoch \in Nat /\ disp'.epoch <= disp.epoch + 1 /\ disp.epoch \in Nat
      BY <1>1, WakeEpoch
    <2>2. Owed' = 0 /\ Owed = 1
      BY <1>1, <1>4 DEF Owed
    <2>3. Cardinality(forsaken') \in Nat /\ Cardinality(forsaken') <= Cardinality(forsaken)
      BY <1>1, Callers, OneMoreOrLess
    <2>4. Paid' = Paid
      BY <1>1 DEF Paid
    <2> QED BY <1>1, <2>1, <2>2, <2>3, <2>4, Callers DEF Budgeted
  <1>7. DispatcherTypeOK' /\ DispatcherOK'
    BY <1>1, <1>5, <1>6, EpochPaid, WakeEpoch, WakeKeeps
  <1>8. SessionOK'
    <2>1. ~session'.complete
      BY <1>1, <1>4 DEF IInv, SessionOK
    <2>2. \A i \in session'.start : Accounted(i)'
      BY <1>1, <1>2, <1>4 DEF Accounted, Held
    <2>3. session'.start \subseteq received' /\ \A i \in session'.start : OwnerOf[i] = Watched
      BY <1>1, <1>2, <1>4
    <2> QED BY <1>4, <2>1, <2>2, <2>3 DEF SessionOK
  <1>9. RestOK'
    BY <1>3, <1>4, <1>5, <1>6, <1>8 DEF RestOK
  <1> QED BY <1>7, <1>9, TogetherNext

\* After the lock, the call that started a run spawns it.
LEMMA SpawnKeeps ==
    ASSUME IInv, NotifyAndSpawn
    PROVE  IInv'
PROOF
  <1> TypeOK
    BY DEF IInv
  <1>1. PICK e \in waking : /\ waking' = waking \ {e} /\ permit' = TRUE
                            /\ loops' = IF Starts(e) THEN Spawned(e) ELSE loops
                            /\ UNCHANGED <<disp, jobs, inbox, callers, session, budget>>
    BY DEF NotifyAndSpawn
  <1>2. /\ waking \subseteq 0 .. disp.epoch /\ DOMAIN loops \subseteq 1 .. disp.epoch
        /\ waking \cap DOMAIN loops = {} /\ disp.epoch \in Nat /\ disp.epoch <= MaxEpoch
        /\ Working \cup (waking \ {0}) = IF disp.running THEN {disp.epoch} ELSE {}
    BY Fields DEF IInv, DispatcherOK, Control
  <1>3. ASSUME RemovalsStay PROVE RestOK'
    BY <1>1, <1>2, <1>3, StillKeeps DEF ResultsStay
  <1>4. CASE e = 0
    <2>1. loops' = loops /\ Working' = Working
      BY <1>1, <1>4 DEF Starts, Working
    <2>2. Control'
      BY <1>1, <1>2, <1>4, <2>1 DEF Control
    <2>3. \A j \in DOMAIN jobs' : JobOK(j)'
      BY <1>1, <2>1 DEF IInv, DispatcherOK, JobOK
    <2>4. ActiveIsExact'
      BY <1>1, SameJobsStay, CountsStay
    <2>5. DispatcherTypeOK'
      BY <1>1, <2>1 DEF TypeOK, DispatcherTypeOK
    <2>6. \A x \in DOMAIN loops' : LoopOK(x)'
      BY <2>1 DEF IInv, DispatcherOK, LoopOK
    <2> QED BY <1>3, <2>1, <2>2, <2>3, <2>4, <2>5, <2>6, TogetherNext, SameLoopsHold DEF DispatcherOK
  <1>5. CASE e # 0
    <2>1. disp.running /\ e = disp.epoch /\ Working = {} /\ waking \ {0} = {e}
      BY <1>1, <1>2, <1>5 DEF Working
    <2>2. /\ DOMAIN loops' = DOMAIN loops \cup {e}
          /\ loops'[e] = [pc |-> "top", todo |-> {}, at |-> Watched, gen |-> 0, retained |-> FALSE,
                          removed |-> {}]
          /\ \A x \in DOMAIN loops : loops'[x] = loops[x]
      <3>1. loops' = Spawned(e)
        BY <1>1, <1>5 DEF Starts
      <3> QED BY <1>1, <1>2, <3>1 DEF Spawned
    <2>3. Working' = {e}
      BY <2>1, <2>2 DEF Working
    <2>4. Control'
      BY <1>1, <1>2, <1>5, <2>1, <2>2, <2>3 DEF Control
    <2>5. DOMAIN jobs' = {}
      BY <1>1, <2>1 DEF IInv, DispatcherOK, JobOK
    <2>6. ActiveIsExact'
      BY <1>1, SameJobsStay, CountsStay
    <2>7. DispatcherTypeOK'
      <3>1. loops'[e] \in LoopType
        BY <2>2, Constants DEF LoopType
      <3>2. e \in Epochs
        BY <1>2, <1>5, <2>1, Constants DEF Epochs
      <3> QED BY <1>1, <2>2, <3>1, <3>2 DEF TypeOK, DispatcherTypeOK
    <2>8. \A x \in DOMAIN loops' : LoopOK(x)'
      BY <2>2 DEF IInv, DispatcherOK, LoopOK
    <2>9. RemovalsStay
      BY <2>2 DEF RemovalsStay
    <2> QED BY <1>3, <2>4, <2>5, <2>6, <2>7, <2>8, <2>9, TogetherNext DEF DispatcherOK
  <1> QED BY <1>4, <1>5

\* The dispatcher is dropped and made anew.
LEMMA DropKeeps ==
    ASSUME IInv, DropDispatcher
    PROVE  IInv'
PROOF
  <1> TypeOK
    BY DEF IInv
  <1>1. /\ loops = EmptyFunction /\ waking = {} /\ disp' = NewDispatcher /\ permit' = FALSE
        /\ UNCHANGED <<waking, loops, jobs, inbox, callers, session, budget>>
    BY DEF DropDispatcher
  <1>2. DOMAIN loops = {} /\ DOMAIN jobs = {}
    BY <1>1 DEF EmptyFunction, IInv, DispatcherOK, JobOK, Working
  <1>3. /\ disp'.epoch = 0 /\ disp'.running = FALSE /\ \A o \in Owners : disp'.active[o] = 0
        /\ disp' \in [running : BOOLEAN, epoch : 0 .. MaxEpoch, gen : Nat, clients : SUBSET Owners,
                      active : [Owners -> Nat]]
    BY <1>1, Constants DEF NewDispatcher
  <1>4. RestOK'
    BY <1>1, <1>3, StillKeeps, Fields, SameLoopsHold DEF ResultsStay
  <1>5. DispatcherTypeOK'
    BY <1>1, <1>3 DEF TypeOK, DispatcherTypeOK
  <1>6. Control'
    BY <1>1, <1>2, <1>3 DEF Control, Working
  <1>7. ActiveIsExact'
    <2> SUFFICES ASSUME NEW o \in Owners PROVE disp'.active[o] = Cardinality(CountOf(o)')
      BY DEF ActiveIsExact, CountOf
    <2>1. CountOf(o)' = {}
      BY <1>1, <1>2 DEF CountOf, JobsOf
    <2> QED BY <1>3, <2>1, FS_EmptySet
  <1> QED BY <1>1, <1>2, <1>4, <1>5, <1>6, <1>7, TogetherNext DEF DispatcherOK

-----------------------------------------------------------------------------
(* The steps of the loop.                                                    *)

\* A step that only moves the loop, and perhaps takes the permit.
LEMMA LoopAlone ==
    ASSUME IInv, NEW e \in DOMAIN loops, loops[e].pc # "leaving",
           NEW l \in LoopType, l.pc # "leaving", loops' = [loops EXCEPT ![e] = l],
           l.pc = "idle" => JobsOf(e) = {},
           loops[e].pc \notin {"purged", "ticked"}, l.removed = loops[e].removed,
           UNCHANGED <<disp, waking, jobs, inbox, callers, session, budget>>, permit' \in BOOLEAN
    PROVE  IInv'
PROOF
  <1>1. l.removed = {} /\ RemovalsStay
    BY DEF IInv, DispatcherOK, LoopOK, RemovalsStay
  <1>2. DispatcherTypeOK' /\ DispatcherOK'
    BY <1>1, WalkKeeps
  <1>3. disp.epoch \in Nat
    BY Fields DEF IInv
  <1>4. RestOK'
    BY <1>1, <1>3, StillKeeps DEF ResultsStay
  <1> QED BY <1>2, <1>4, TogetherNext

\* What a loop's step reads has its type.
LEMMA LoopRecord ==
    ASSUME IInv, NEW e \in DOMAIN loops
    PROVE  /\ loops[e] \in LoopType /\ permit \in BOOLEAN /\ disp.clients \in SUBSET Owners
           /\ disp.gen \in Nat /\ loops[e].todo \in SUBSET Owners /\ loops[e].at \in Owners
           /\ loops[e].retained \in BOOLEAN /\ loops[e].removed \in SUBSET Inputs
PROOF
  <1>1. loops[e] \in LoopType /\ disp.clients \in SUBSET Owners /\ disp.gen \in Nat
    BY Fields DEF IInv
  <1> QED BY <1>1, LoopFields DEF IInv, TypeOK, DispatcherTypeOK

\* The loop's place alone changes.
LEMMA LoopPlace ==
    ASSUME NEW l \in LoopType,
           NEW pc \in {"top", "scan", "purged", "ticked", "summary", "claim", "idle", "select", "leaving"}
    PROVE  /\ [l EXCEPT !.pc = pc] \in LoopType /\ [l EXCEPT !.pc = pc].pc = pc
           /\ [l EXCEPT !.pc = pc].removed = l.removed
PROOF BY DEF LoopType

\* Top keeps the invariant.
LEMMA TopKeeps ==
    ASSUME IInv, NEW e \in DOMAIN loops, Top(e)
    PROVE  IInv'
PROOF
  <1> DEFINE l == [loops[e] EXCEPT !.pc = "scan", !.todo = disp.clients, !.gen = disp.gen,
                                   !.retained = FALSE]
  <1>1. l \in LoopType /\ l.pc = "scan" /\ l.removed = loops[e].removed
    BY LoopRecord DEF LoopType
  <1>2. loops' = [loops EXCEPT ![e] = l] /\ loops[e].pc = "top" /\ permit' \in BOOLEAN
    BY LoopRecord DEF Top, At
  <1> HIDE DEF l
  <1> QED BY <1>1, <1>2, LoopAlone DEF Top

\* Summarise keeps the invariant.
LEMMA SummariseKeeps ==
    ASSUME IInv, NEW e \in DOMAIN loops, Summarise(e)
    PROVE  IInv'
PROOF
  <1> DEFINE b == loops[e].retained \/ RowsOf(loops[e].at) # {}
             l == [loops[e] EXCEPT !.pc = "claim", !.retained = b]
  <1>1. loops' = [loops EXCEPT ![e] = l] /\ loops[e].pc = "summary" /\ permit' \in BOOLEAN
    BY LoopRecord DEF Summarise, At
  <1>2. b \in BOOLEAN
    OBVIOUS
  <1>3. l \in LoopType /\ l.pc = "claim" /\ l.removed = loops[e].removed
    <2> HIDE DEF b
    <2> QED BY <1>2, LoopRecord DEF LoopType
  <1> HIDE DEF l
  <1> QED BY <1>1, <1>3, LoopAlone DEF Summarise

\* EndScan keeps the invariant: a loop goes on to stop only without jobs.
LEMMA EndScanKeeps ==
    ASSUME IInv, NEW e \in DOMAIN loops, EndScan(e)
    PROVE  IInv'
PROOF
  <1>1. loops[e].pc = "scan" /\ permit' \in BOOLEAN /\ loops[e] \in LoopType
    BY LoopRecord DEF EndScan, At
  <1>2. CASE MayStop(e)
    <2> DEFINE l == [loops[e] EXCEPT !.pc = "idle"]
    <2>1. l \in LoopType /\ l.pc = "idle" /\ l.removed = loops[e].removed
      BY <1>1, LoopPlace
    <2>2. loops' = [loops EXCEPT ![e] = l] /\ JobsOf(e) = {}
      BY <1>2 DEF EndScan, MayStop
    <2> HIDE DEF l
    <2> QED BY <1>1, <2>1, <2>2, LoopAlone DEF EndScan
  <1>3. CASE ~MayStop(e)
    <2> DEFINE l == [loops[e] EXCEPT !.pc = "select", !.gen = 0, !.retained = FALSE]
    <2>1. l \in LoopType /\ l.pc = "select" /\ l.removed = loops[e].removed
      BY <1>1 DEF LoopType
    <2>2. loops' = [loops EXCEPT ![e] = l]
      BY <1>3 DEF EndScan
    <2> HIDE DEF l
    <2> QED BY <1>1, <2>1, <2>2, LoopAlone DEF EndScan
  <1> QED BY <1>2, <1>3

\* TakePermit keeps the invariant.
LEMMA TakePermitKeeps ==
    ASSUME IInv, NEW e \in DOMAIN loops, TakePermit(e)
    PROVE  IInv'
PROOF
  <1> DEFINE l == [loops[e] EXCEPT !.pc = "top"]
  <1>1. l \in LoopType /\ l.pc = "top" /\ l.removed = loops[e].removed
    BY LoopRecord, LoopPlace
  <1>2. loops' = [loops EXCEPT ![e] = l] /\ loops[e].pc = "select"
    BY DEF TakePermit, At
  <1> HIDE DEF l
  <1> QED BY <1>1, <1>2, LoopAlone DEF TakePermit

\* SkipClient keeps the invariant.
LEMMA SkipKeeps ==
    ASSUME IInv, NEW e \in DOMAIN loops, SkipClient(e)
    PROVE  IInv'
PROOF
  <1> TypeOK
    BY DEF IInv
  <1>1. PICK o : loops' = [loops EXCEPT ![e].pc = "scan", ![e].todo = @ \ {o}]
    BY DEF SkipClient
  <1> DEFINE l == [loops[e] EXCEPT !.pc = "scan", !.todo = loops[e].todo \ {o}]
  <1>2. loops' = [loops EXCEPT ![e] = l] /\ loops[e].pc \in {"scan", "claim"} /\ permit' \in BOOLEAN
    BY <1>1, LoopRecord DEF SkipClient, At
  <1>3. l \in LoopType /\ l.pc = "scan" /\ l.removed = {}
    BY <1>2, LoopRecord DEF LoopType, IInv, DispatcherOK, LoopOK
  <1> HIDE DEF l
  <1>4. DispatcherTypeOK' /\ DispatcherOK'
    BY <1>2, <1>3, WalkKeeps DEF SkipClient
  <1>5. RestOK'
    BY FaultKeeps, Fields DEF SkipClient, inbox
  <1> QED BY <1>4, <1>5, TogetherNext

\* A purge keeps what it took away until it is published.
LEMMA PurgeKeeps ==
    ASSUME IInv, NEW e \in DOMAIN loops, loops[e].pc \in {"scan", "select"},
           NEW l \in LoopType, l.pc \notin {"leaving", "idle"}, loops' = [loops EXCEPT ![e] = l],
           l.removed # {} => l.pc \in {"purged", "ticked"},
           NEW S \in SUBSET rows, rows' = rows \ S, blocked' = blocked \ S, l.removed = S,
           UNCHANGED <<disp, permit, waking, jobs, leased, expired, callers, received, lost, session,
                       budget>>
    PROVE  IInv'
PROOF
  <1> TypeOK
    BY DEF IInv
  <1>1. permit' \in BOOLEAN
    BY LoopRecord
  <1>2. DispatcherTypeOK' /\ DispatcherOK'
    BY <1>1, WalkKeeps
  <1>3. InboxTypeOK'
    BY DEF TypeOK, InboxTypeOK
  <1>4. Budgeted'
    BY BudgetStays, Fields
  <1>5. SessionOK'
    <2>1. loops[e].removed = {}
      BY DEF IInv, DispatcherOK, LoopOK
    <2>2. /\ DOMAIN loops' = DOMAIN loops /\ loops'[e] = l
          /\ \A x \in DOMAIN loops : x # e => loops'[x] = loops[x]
      OBVIOUS
    <2>3. ASSUME NEW x, Held(x) PROVE Held(x)'
      BY <2>1, <2>2, <2>3 DEF Held, Withheld
    <2>4. ResultsStay
      BY DEF ResultsStay
    <2> QED BY <2>3, <2>4, SessionStays, StillAccounted
  <1>6. RestOK'
    BY <1>3, <1>4, <1>5, Together DEF RestOK
  <1> QED BY <1>2, <1>6, TogetherNext

\* ScanClient keeps the invariant.
LEMMA ScanKeeps ==
    ASSUME IInv, NEW e \in DOMAIN loops, NEW o \in Owners, ScanClient(e, o)
    PROVE  IInv'
PROOF
  <1> DEFINE S == IF JobsOf(e) = {} THEN rows \cap expired ELSE {}
             pc == IF S = {} THEN "summary" ELSE "purged"
             l == [loops[e] EXCEPT !.at = o, !.removed = S, !.pc = pc]
  <1>1. /\ loops' = [loops EXCEPT ![e] = l] /\ loops[e].pc = "scan"
        /\ rows' = rows \ S /\ blocked' = blocked \ S
        /\ UNCHANGED <<disp, permit, waking, jobs, leased, expired, callers, received, lost, session,
                       budget>>
    BY DEF ScanClient, At
  <1>2. /\ S \in SUBSET rows /\ S \in SUBSET Inputs /\ pc \in {"summary", "purged"}
        /\ S # {} => pc = "purged"
    BY DEF IInv, TypeOK, InboxTypeOK
  <1>3. l \in LoopType /\ l.pc = pc /\ l.removed = S
    <2> HIDE DEF S, pc
    <2> QED BY <1>2, LoopRecord DEF LoopType
  <1> HIDE DEF l, S, pc
  <1> QED BY <1>1, <1>2, <1>3, PurgeKeeps

\* Tick keeps the invariant.
LEMMA TickKeeps ==
    ASSUME IInv, NEW e \in DOMAIN loops, Tick(e)
    PROVE  IInv'
PROOF
  <1> DEFINE S == rows \cap expired
             pc == IF S = {} THEN "top" ELSE "ticked"
             l == [loops[e] EXCEPT !.removed = S, !.pc = pc]
  <1>1. /\ loops' = [loops EXCEPT ![e] = l] /\ loops[e].pc = "select"
        /\ rows' = rows \ S /\ blocked' = blocked \ S
        /\ UNCHANGED <<disp, permit, waking, jobs, leased, expired, callers, received, lost, session,
                       budget>>
    <2>1. blocked \subseteq rows
      BY DEF IInv, TypeOK, InboxTypeOK
    <2> QED BY <2>1 DEF Tick, At
  <1>2. /\ S \in SUBSET rows /\ S \in SUBSET Inputs /\ pc \in {"top", "ticked"}
        /\ S # {} => pc = "ticked"
    BY DEF IInv, TypeOK, InboxTypeOK
  <1>3. l \in LoopType /\ l.pc = pc /\ l.removed = S
    <2> HIDE DEF S, pc
    <2> QED BY <1>2, LoopRecord DEF LoopType
  <1> HIDE DEF l, S, pc
  <1> QED BY <1>1, <1>2, <1>3, PurgeKeeps

\* PublishRemoved keeps the invariant.
LEMMA PublishRemovedKeeps ==
    ASSUME IInv, NEW e \in DOMAIN loops, PublishRemoved(e)
    PROVE  IInv'
PROOF
  <1> TypeOK
    BY DEF IInv
  <1> DEFINE U == Discarded(loops[e].removed)
             pc == IF loops[e].pc = "purged" THEN "summary" ELSE "top"
             l == [loops[e] EXCEPT !.pc = pc, !.removed = {}]
  <1>1. /\ loops' = [loops EXCEPT ![e] = l] /\ loops[e].pc # "leaving" /\ Publish(U)
        /\ UNCHANGED <<disp, permit, waking, jobs, rows, blocked, leased, expired, callers, received,
                       lost, budget>>
    BY DEF PublishRemoved, At, inbox
  <1>2. U \in SUBSET Updates /\ \A x \in loops[e].removed : Dropped(x) \in U
    BY LoopRecord DEF Discarded, Updates, Statuses, Dropped
  <1>3. l \in LoopType /\ l.pc = pc /\ pc \in {"summary", "top"} /\ l.removed = {}
    BY LoopRecord DEF LoopType
  <1> HIDE DEF l, U, pc
  <1>4. DispatcherTypeOK' /\ DispatcherOK'
    BY <1>1, <1>3, LoopRecord, WalkKeeps
  <1>5. /\ session' \in SessionType /\ Cardinality(session'.queue) <= Buffer
        /\ session'.pc = session.pc /\ session'.start = session.start
        /\ session'.seen = session.seen /\ session'.discards = session.discards
        /\ session'.complete = session.complete /\ session'.pending = session.pending
        /\ session.lagged => session'.lagged
        /\ Waiting => session'.lagged \/ session.queue \cup U \subseteq session'.queue
    BY <1>1, <1>2, PublishKeeps
  <1>6. Budgeted'
    BY <1>1, <1>5, BudgetStays, Fields
  <1>7. SessionOK'
    <2>1. ASSUME NEW x, Accounted(x), Waiting PROVE Accounted(x)'
      <3>1. CASE session'.lagged
        BY <3>1 DEF Accounted
      <3>2. CASE ~session'.lagged
        <4>1. session.queue \cup U \subseteq session'.queue /\ ~session.lagged
          BY <1>5, <2>1, <3>2
        <4>2. DOMAIN loops' = DOMAIN loops /\ \A y \in DOMAIN loops : y # e => loops'[y] = loops[y]
          BY <1>1
        <4>3. Held(x) => Held(x)' \/ Dropped(x) \in session'.queue
          BY <1>1, <1>2, <4>1, <4>2 DEF Held, Withheld
        <4>4. ASSUME NEW k \in DOMAIN jobs, HasResult(k, x) PROVE Accounted(x)'
          <5>1. HasResult(k, x)' /\ k \in DOMAIN jobs'
            BY <1>1, <4>4 DEF HasResult
          <5> QED BY <5>1 DEF Accounted
        <4> QED BY <1>5, <2>1, <4>1, <4>3, <4>4 DEF Accounted, Applied, Dropped
      <3> QED BY <3>1, <3>2
    <2> QED BY <1>1, <1>5, <2>1, SessionStays
  <1>8. RestOK'
    BY <1>1, <1>5, <1>6, <1>7, Together DEF RestOK, InboxTypeOK
  <1> QED BY <1>4, <1>8, TogetherNext

-----------------------------------------------------------------------------
(* The loop ends.                                                            *)

\* The dispatcher's state has its type.
LEMMA DispRecord ==
    ASSUME IInv
    PROVE  /\ disp \in [running : BOOLEAN, epoch : 0 .. MaxEpoch, gen : Nat, clients : SUBSET Owners,
                        active : [Owners -> Nat]]
           /\ disp.epoch \in Nat
PROOF BY Fields DEF IInv, TypeOK, DispatcherTypeOK

\* No loop is left at work: there are no jobs and no counts.
LEMMA EndedKeeps ==
    ASSUME IInv, Working' = {}, waking' = waking, waking \subseteq {0}, ~disp'.running,
           disp'.epoch = disp.epoch, DOMAIN loops' \subseteq DOMAIN loops,
           \A x \in DOMAIN loops' : LoopOK(x)',
           DOMAIN jobs' = {}, \A o \in Owners : disp'.active[o] = 0
    PROVE  DispatcherOK'
PROOF
  <1>1. Control'
    BY DEF IInv, DispatcherOK, Control
  <1>2. ActiveIsExact'
    <2> SUFFICES ASSUME NEW o \in Owners PROVE disp'.active[o] = Cardinality(CountOf(o)')
      BY DEF ActiveIsExact, CountOf
    <2>1. CountOf(o)' = {}
      BY DEF CountOf, JobsOf
    <2> QED BY <2>1, FS_EmptySet
  <1> QED BY <1>1, <1>2 DEF DispatcherOK

\* A loop about to stop has no jobs, so nobody is counted as active.
LEMMA NoJobsOf ==
    ASSUME IInv, NEW e \in DOMAIN loops, loops[e].pc = "idle"
    PROVE  DOMAIN jobs = {} /\ \A o \in Owners : disp.active[o] = 0
PROOF
  <1>1. Working = {e}
    BY AtWork
  <1>2. DOMAIN jobs = {}
    BY <1>1 DEF IInv, DispatcherOK, JobOK
  <1>3. ASSUME NEW o \in Owners PROVE disp.active[o] = 0
    <2>1. CountOf(o) = {}
      BY <1>2 DEF CountOf, JobsOf
    <2> QED BY <2>1, FS_EmptySet DEF IInv, DispatcherOK, ActiveIsExact, CountOf
  <1> QED BY <1>2, <1>3

\* Stop keeps the invariant: the loop leaves with its flag, or looks again.
LEMMA StopKeeps ==
    ASSUME IInv, NEW e \in DOMAIN loops, Stop(e)
    PROVE  IInv'
PROOF
  <1> TypeOK
    BY DEF IInv
  <1>1. /\ loops[e].pc = "idle" /\ loops[e] \in LoopType /\ permit' \in BOOLEAN
        /\ UNCHANGED <<permit, waking, jobs, inbox, callers, session, budget>>
        /\ loops[e].removed = {}
    BY LoopRecord DEF Stop, At, IInv, DispatcherOK, LoopOK
  <1>2. CASE ~SameGeneration(e)
    <2> DEFINE l == [loops[e] EXCEPT !.pc = "top"]
    <2>1. l \in LoopType /\ l.pc = "top" /\ l.removed = loops[e].removed
      BY <1>1, LoopPlace
    <2>2. loops' = [loops EXCEPT ![e] = l] /\ UNCHANGED disp
      BY <1>2 DEF Stop
    <2> HIDE DEF l
    <2> QED BY <1>1, <2>1, <2>2, LoopAlone
  <1>3. CASE SameGeneration(e)
    <2> DEFINE l == [loops[e] EXCEPT !.pc = "leaving"]
    <2>1. l \in LoopType /\ l.pc = "leaving" /\ l.removed = {}
      BY <1>1, LoopPlace
    <2>2. loops' = [loops EXCEPT ![e] = l] /\ disp' = [disp EXCEPT !.running = FALSE, !.clients = {}]
      BY <1>3 DEF Stop
    <2>3. /\ disp'.running = FALSE /\ disp'.epoch = disp.epoch /\ disp'.active = disp.active
          /\ disp' \in [running : BOOLEAN, epoch : 0 .. MaxEpoch, gen : Nat, clients : SUBSET Owners,
                        active : [Owners -> Nat]]
      BY <2>2, DispRecord
    <2> HIDE DEF l
    <2>4. /\ DOMAIN loops' = DOMAIN loops
          /\ \A x \in DOMAIN loops : loops'[x] = IF x = e THEN l ELSE loops[x]
      BY <2>2
    <2>5. Working = {e} /\ waking \subseteq {0}
      BY <1>1, AtWork
    <2>6. Working' = {}
      BY <2>1, <2>4, <2>5 DEF Working
    <2>7. DOMAIN jobs' = {} /\ \A o \in Owners : disp'.active[o] = 0
      BY <1>1, <2>3, NoJobsOf
    <2>8. DispatcherOK'
      <3>1. \A x \in DOMAIN loops' : LoopOK(x)'
        BY <2>1, <2>4 DEF IInv, DispatcherOK, LoopOK
      <3> QED BY <1>1, <2>3, <2>4, <2>5, <2>6, <2>7, <3>1, EndedKeeps
    <2>9. DispatcherTypeOK'
      BY <1>1, <2>1, <2>3, <2>4 DEF TypeOK, DispatcherTypeOK
    <2>10. RemovalsStay
      BY <1>1, <2>4 DEF RemovalsStay
    <2>11. RestOK'
      BY <1>1, <2>3, <2>10, StillKeeps, DispRecord DEF ResultsStay
    <2> QED BY <2>8, <2>9, <2>11, TogetherNext
  <1> QED BY <1>2, <1>3

\* What the drop of a guard leaves of the dispatcher's state.
LEMMA GuardFields ==
    ASSUME IInv, NEW e, disp' = GuardDropped(e)
    PROVE  /\ disp' \in [running : BOOLEAN, epoch : 0 .. MaxEpoch, gen : Nat, clients : SUBSET Owners,
                         active : [Owners -> Nat]]
           /\ disp'.epoch = disp.epoch
           /\ disp.epoch = e => ~disp'.running /\ \A o \in Owners : disp'.active[o] = 0
           /\ disp.epoch # e => disp' = disp
PROOF
  <1>1. CASE disp.epoch # e
    BY <1>1, DispRecord DEF GuardDropped
  <1>2. CASE disp.epoch = e
    <2>1. disp' = [disp EXCEPT !.running = FALSE, !.active = [o \in Owners |-> 0]]
      BY <1>2 DEF GuardDropped
    <2>2. [o \in Owners |-> 0] \in [Owners -> Nat]
      OBVIOUS
    <2> QED BY <1>2, <2>1, <2>2, DispRecord
  <1> QED BY <1>1, <1>2

\* The guard of a loop that has stopped leaves the loop that came after alone.
LEMMA LeaveKeeps ==
    ASSUME IInv, NEW e \in DOMAIN loops, Leave(e)
    PROVE  IInv'
PROOF
  <1> TypeOK
    BY DEF IInv
  <1>1. /\ loops[e].pc = "leaving" /\ disp' = GuardDropped(e)
        /\ UNCHANGED <<permit, waking, jobs, inbox, callers, session, budget>>
        /\ DOMAIN loops' = DOMAIN loops \ {e} /\ \A x \in DOMAIN loops' : loops'[x] = loops[x]
    BY DEF Leave, At, Without
  <1>2. Working' = Working
    BY <1>1 DEF Working
  <1>3. /\ disp' \in [running : BOOLEAN, epoch : 0 .. MaxEpoch, gen : Nat, clients : SUBSET Owners,
                      active : [Owners -> Nat]]
        /\ disp'.epoch = disp.epoch /\ disp.epoch \in Nat
        /\ disp.epoch = e => ~disp'.running /\ \A o \in Owners : disp'.active[o] = 0
        /\ disp.epoch # e => disp' = disp
    BY <1>1, GuardFields, DispRecord
  <1>4. RestOK'
    <2>1. RemovalsStay
      BY <1>1 DEF IInv, DispatcherOK, LoopOK, RemovalsStay
    <2> QED BY <1>1, <1>3, <2>1, StillKeeps DEF ResultsStay
  <1>5. DispatcherTypeOK' /\ \A x \in DOMAIN loops' : LoopOK(x)'
    BY <1>1, <1>3 DEF TypeOK, DispatcherTypeOK, IInv, DispatcherOK, LoopOK
  <1>6. DispatcherOK'
    <2>1. CASE disp.epoch = e
      <3>1. e \notin waking /\ e \notin Working
        BY <1>1 DEF IInv, DispatcherOK, Control, Working
      <3>2. Working \cup (waking \ {0}) = IF disp.running THEN {disp.epoch} ELSE {}
        BY DEF IInv, DispatcherOK, Control
      <3>3. ~disp.running /\ Working = {} /\ waking \subseteq {0}
        BY <2>1, <3>1, <3>2
      <3> QED BY <1>1, <1>2, <1>3, <1>5, <2>1, <3>3, NoJobsWithoutLoop, EndedKeeps
    <2>2. CASE disp.epoch # e
      <3>1. Control'
        BY <1>1, <1>2, <1>3, <2>2 DEF IInv, DispatcherOK, Control
      <3>2. \A j \in DOMAIN jobs' : JobOK(j)'
        BY <1>1, <1>2 DEF IInv, DispatcherOK, JobOK, Working
      <3>3. ActiveIsExact'
        BY <1>1, <1>3, <2>2, SameJobsStay, CountsStay
      <3> QED BY <1>5, <3>1, <3>2, <3>3 DEF DispatcherOK
    <2> QED BY <2>1, <2>2
  <1> QED BY <1>4, <1>5, <1>6, TogetherNext

\* LoopDies keeps the invariant: the guard clears the flag and the counts of
\* the jobs that are aborted.
LEMMA LoopDiesKeeps ==
    ASSUME IInv, NEW e \in DOMAIN loops, LoopDies(e)
    PROVE  IInv'
PROOF
  <1> TypeOK
    BY DEF IInv
  <1>1. /\ loops[e].pc # "leaving" /\ disp' = GuardDropped(e)
        /\ UNCHANGED <<permit, waking, inbox, callers, session>>
        /\ budget.faults > 0 /\ budget' = [budget EXCEPT !.faults = @ - 1]
        /\ DOMAIN loops' = DOMAIN loops \ {e} /\ \A x \in DOMAIN loops' : loops'[x] = loops[x]
        /\ DOMAIN jobs' = DOMAIN jobs \ JobsOf(e) /\ \A x \in DOMAIN jobs' : jobs'[x] = jobs[x]
    BY DEF LoopDies, Without
  <1>2. e = disp.epoch /\ Working = {e} /\ waking \subseteq {0}
    BY <1>1, AtWork
  <1>3. Working' = {}
    BY <1>1, <1>2 DEF Working
  <1>4. DOMAIN jobs' = {}
    BY <1>1, <1>2, JobsAreCurrent DEF JobsOf
  <1>5. /\ disp' \in [running : BOOLEAN, epoch : 0 .. MaxEpoch, gen : Nat, clients : SUBSET Owners,
                      active : [Owners -> Nat]]
        /\ disp'.epoch = disp.epoch /\ disp.epoch \in Nat
        /\ ~disp'.running /\ \A o \in Owners : disp'.active[o] = 0
    BY <1>1, <1>2, GuardFields, DispRecord
  <1>6. DispatcherOK'
    <2>1. \A x \in DOMAIN loops' : LoopOK(x)'
      BY <1>1 DEF IInv, DispatcherOK, LoopOK
    <2> QED BY <1>1, <1>2, <1>3, <1>4, <1>5, <2>1, EndedKeeps
  <1>7. DispatcherTypeOK'
    BY <1>1, <1>4, <1>5 DEF TypeOK, DispatcherTypeOK
  <1>8. RestOK'
    BY <1>1, <1>5, FaultKeeps DEF inbox
  <1> QED BY <1>6, <1>7, <1>8, TogetherNext

-----------------------------------------------------------------------------
(* Jobs come and go.                                                         *)

\* Claim keeps the invariant: as many jobs come as are counted, all of the
\* client's owner.
LEMMA ClaimKeeps ==
    ASSUME IInv, NEW e \in DOMAIN loops, Claim(e)
    PROVE  IInv'
PROOF
  <1> TypeOK
    BY DEF IInv
  <1> DEFINE o == loops[e].at
  <1>a. PICK chosen \in SUBSET Claimable(o), slots \in SUBSET (Slots \ DOMAIN jobs) :
            /\ Cardinality(slots) = Cardinality(chosen)
            /\ \E inputOf \in [slots -> chosen] :
                  jobs' = [j \in DOMAIN jobs \cup slots |->
                                IF j \in slots
                                THEN [input |-> inputOf[j], epoch |-> e, stage |-> "running",
                                      status |-> "retrying"]
                                ELSE jobs[j]]
            /\ leased' = leased \cup chosen
            /\ disp' = [disp EXCEPT !.active[o] = @ + Cardinality(chosen)]
            /\ loops' = [loops EXCEPT ![e].pc = "scan", ![e].todo = @ \ {o}, ![e].at = Watched]
    BY DEF Claim
  <1>1. PICK inputOf \in [slots -> chosen] :
            /\ Cardinality(slots) = Cardinality(chosen)
            /\ jobs' = [j \in DOMAIN jobs \cup slots |->
                            IF j \in slots
                            THEN [input |-> inputOf[j], epoch |-> e, stage |-> "running",
                                  status |-> "retrying"]
                            ELSE jobs[j]]
            /\ leased' = leased \cup chosen
            /\ disp' = [disp EXCEPT !.active[o] = @ + Cardinality(chosen)]
            /\ loops' = [loops EXCEPT ![e].pc = "scan", ![e].todo = @ \ {o}, ![e].at = Watched]
    BY <1>a
  <1>2. /\ UNCHANGED <<permit, waking, rows, blocked, expired, callers, received, lost, session,
                       budget>>
        /\ loops[e].pc = "claim" /\ loops[e].removed = {}
    BY DEF Claim, At, IInv, DispatcherOK, LoopOK
  <1> DEFINE l == [loops[e] EXCEPT !.pc = "scan", !.todo = loops[e].todo \ {o}, !.at = Watched]
  <1>3. l \in LoopType /\ l.pc = "scan" /\ o \in Owners /\ permit \in BOOLEAN /\ l.removed = {}
    BY <1>2, LoopRecord, Constants DEF LoopType
  <1>4. loops' = [loops EXCEPT ![e] = l]
    BY <1>1
  <1>5. /\ chosen \subseteq rows /\ chosen \subseteq Inputs /\ \A i \in chosen : OwnerOf[i] = o
        /\ rows \subseteq received
    BY DEF Claimable, RowsOf, TypeOK, InboxTypeOK
  <1> HIDE DEF l, o
  <1>6. IsFiniteSet(slots) /\ Cardinality(slots) \in Nat
    <2>1. IsFiniteSet(Slots)
      BY Constants, FS_Interval DEF Slots
    <2>2. slots \in SUBSET Slots
      BY <1>1
    <2>3. IsFiniteSet(slots)
      BY <2>1, <2>2, FS_Subset
    <2> QED BY <2>3, FS_CardinalityType
  <1>7. /\ disp' \in [running : BOOLEAN, epoch : 0 .. MaxEpoch, gen : Nat, clients : SUBSET Owners,
                      active : [Owners -> Nat]]
        /\ disp'.epoch = disp.epoch /\ disp'.running = disp.running /\ disp.epoch \in Nat
        /\ disp'.active[o] = disp.active[o] + Cardinality(slots)
        /\ \A x \in Owners : x # o => disp'.active[x] = disp.active[x]
    <2>1. disp.active \in [Owners -> Nat] /\ disp.active[o] + Cardinality(slots) \in Nat
      BY <1>3, <1>6, Fields
    <2>2. PICK a \in [Owners -> Nat] :
              /\ a[o] = disp.active[o] + Cardinality(slots)
              /\ \A x \in Owners : x # o => a[x] = disp.active[x]
              /\ disp' = [disp EXCEPT !.active = a]
      <3>1. disp' = [disp EXCEPT !.active = [disp.active EXCEPT ![o] = disp.active[o] + Cardinality(slots)]]
        BY <1>1
      <3> QED BY <1>3, <2>1, <3>1
    <2> QED BY <2>2, DispRecord
  <1>8. /\ Control' /\ Working' = Working /\ DOMAIN loops' = DOMAIN loops /\ loops'[e] = l
        /\ DOMAIN loops' \subseteq Epochs /\ \A x \in DOMAIN loops' : loops'[x] \in LoopType
        /\ \A x \in DOMAIN loops' : LoopOK(x)'
    BY <1>2, <1>3, <1>4, <1>7, WalkControl
  <1>9. e = disp.epoch /\ Working = {e} /\ e \in Epochs
    BY <1>2, <1>8, AtWork
  <1>10. /\ DOMAIN jobs' = DOMAIN jobs \cup slots /\ slots \cap DOMAIN jobs = {}
         /\ \A j \in DOMAIN jobs : jobs'[j] = jobs[j]
         /\ \A j \in slots : jobs'[j] \in JobType /\ jobs'[j].input \in chosen /\ jobs'[j].epoch = e
    <2>1. DOMAIN jobs' = DOMAIN jobs \cup slots /\ slots \cap DOMAIN jobs = {}
      BY <1>1
    <2>2. \A j \in DOMAIN jobs : jobs'[j] = jobs[j]
      BY <1>1, <2>1
    <2>3. ASSUME NEW j \in slots
          PROVE  jobs'[j] \in JobType /\ jobs'[j].input \in chosen /\ jobs'[j].epoch = e
      <3>1. jobs'[j] = [input |-> inputOf[j], epoch |-> e, stage |-> "running", status |-> "retrying"]
        BY <1>1
      <3>2. inputOf[j] \in chosen /\ inputOf[j] \in Inputs
        BY <1>5
      <3> QED BY <1>9, <3>1, <3>2 DEF JobType, Statuses
    <2> QED BY <2>1, <2>2, <2>3
  <1>11. \A j \in DOMAIN jobs' : JobOK(j)'
    <2>1. ASSUME NEW j \in DOMAIN jobs' PROVE jobs'[j].epoch = e
      BY <1>9, <1>10, JobsAreCurrent
    <2> QED BY <1>3, <1>8, <1>9, <2>1 DEF JobOK
  <1>12. DispatcherTypeOK'
    <2>1. DOMAIN jobs' \subseteq Slots /\ \A j \in DOMAIN jobs' : jobs'[j] \in JobType
      BY <1>1, <1>10 DEF TypeOK, DispatcherTypeOK
    <2> QED BY <1>2, <1>7, <1>8, <2>1 DEF TypeOK, DispatcherTypeOK
  <1>13. ActiveIsExact'
    <2> SUFFICES ASSUME NEW x \in Owners PROVE disp'.active[x] = Cardinality(CountOf(x)')
      BY DEF ActiveIsExact, CountOf
    <2>1. disp.active[x] = Cardinality(CountOf(x))
      BY DEF IInv, DispatcherOK, ActiveIsExact, CountOf
    <2>2. CASE x # o
      <3>1. CountOf(x)' = CountOf(x)
        BY <1>5, <1>7, <1>10, <2>2 DEF CountOf, JobsOf
      <3> QED BY <1>7, <2>1, <2>2, <3>1
    <2>3. CASE x = o
      <3>1. CountOf(x)' = CountOf(x) \cup slots /\ CountOf(x) \cap slots = {}
        BY <1>5, <1>7, <1>9, <1>10, <2>3 DEF CountOf, JobsOf
      <3>2. IsFiniteSet(CountOf(x)) /\ Cardinality(CountOf(x)) \in Nat
        <4>1. CountOf(x) \in SUBSET (DOMAIN jobs)
          BY DEF CountOf, JobsOf
        <4>2. IsFiniteSet(CountOf(x))
          BY <4>1, Fields, FS_Subset
        <4> QED BY <4>2, FS_CardinalityType
      <3>3. Cardinality(CountOf(x)') = Cardinality(CountOf(x)) + Cardinality(slots)
        <4>1. Cardinality(CountOf(x) \cup slots)
                = Cardinality(CountOf(x)) + Cardinality(slots) - Cardinality(CountOf(x) \cap slots)
          BY <1>6, <3>2, FS_Union
        <4>2. Cardinality(CountOf(x) \cap slots) = 0
          BY <3>1, FS_EmptySet
        <4> QED BY <1>6, <3>1, <3>2, <4>1, <4>2
      <3> QED BY <1>7, <2>1, <2>3, <3>3
    <2> QED BY <2>2, <2>3
  <1>14. RestOK'
    <2>1. InboxTypeOK'
      BY <1>1, <1>2, <1>5 DEF TypeOK, InboxTypeOK
    <2>2. Budgeted'
      BY <1>2, <1>7, BudgetStays, Fields
    <2>3. ResultsStay
      BY <1>10 DEF ResultsStay
    <2>4. RemovalsStay
      BY <1>2, <1>4 DEF RemovalsStay
    <2>5. SessionOK'
      BY <1>2, <2>3, <2>4, SessionStays, StillAccounted, HeldStays
    <2> QED BY <1>2, <2>1, <2>2, <2>5, Together DEF RestOK
  <1> QED BY <1>8, <1>11, <1>12, <1>13, <1>14, TogetherNext DEF DispatcherOK

\* A count that is not zero is lowered by one.
LEMMA MaxWithZero == \A n \in Nat \ {0} : Max({0, n - 1}) = n - 1
PROOF BY DEF Max

\* Join keeps the invariant: the job that goes was counted.
LEMMA JoinKeeps ==
    ASSUME IInv, NEW e \in DOMAIN loops, Join(e)
    PROVE  IInv'
PROOF
  <1> TypeOK
    BY DEF IInv
  <1>1. PICK j \in JobsOf(e) :
            /\ jobs[j].stage = "ended" /\ jobs' = Without(jobs, {j})
            /\ disp' = [disp EXCEPT !.active[OwnerOf[jobs[j].input]] = Max({0, @ - 1})]
    BY DEF Join
  <1>2. /\ UNCHANGED <<permit, waking, inbox, callers, session, budget>>
        /\ loops[e].pc = "select" /\ loops' = [loops EXCEPT ![e].pc = "top"]
        /\ loops[e].removed = {}
    BY DEF Join, At, IInv, DispatcherOK, LoopOK
  <1>3. PICK o : o = OwnerOf[jobs[j].input]
    OBVIOUS
  <1>4. j \in DOMAIN jobs /\ jobs[j] \in JobType /\ o \in Owners
    <2>1. j \in DOMAIN jobs /\ jobs[j] \in JobType
      BY Fields DEF JobsOf
    <2> QED BY <1>3, <2>1, JobFields, Constants
  <1> DEFINE l == [loops[e] EXCEPT !.pc = "top"]
  <1>5. /\ l \in LoopType /\ l.pc = "top" /\ loops' = [loops EXCEPT ![e] = l] /\ permit \in BOOLEAN
        /\ l.removed = {}
    BY <1>2, LoopRecord, LoopPlace
  <1> HIDE DEF l
  <1>6. e = disp.epoch /\ Working = {e}
    BY <1>2, AtWork
  <1>7. /\ IsFiniteSet(CountOf(o)) /\ j \in CountOf(o) /\ disp.active[o] = Cardinality(CountOf(o))
        /\ Cardinality(CountOf(o)) \in Nat \ {0}
    <2>1. CountOf(o) \in SUBSET (DOMAIN jobs)
      BY DEF CountOf, JobsOf
    <2>2. IsFiniteSet(CountOf(o))
      BY <2>1, Fields, FS_Subset
    <2>3. j \in CountOf(o)
      BY <1>1, <1>3, <1>6 DEF CountOf
    <2>4. disp.active[o] = Cardinality(CountOf(o))
      BY <1>4 DEF IInv, DispatcherOK, ActiveIsExact, CountOf
    <2> QED BY <2>2, <2>3, <2>4, FS_CardinalityType, FS_EmptySet
  <1>8. /\ disp' \in [running : BOOLEAN, epoch : 0 .. MaxEpoch, gen : Nat, clients : SUBSET Owners,
                      active : [Owners -> Nat]]
        /\ disp'.epoch = disp.epoch /\ disp'.running = disp.running /\ disp.epoch \in Nat
        /\ disp'.active[o] = disp.active[o] - 1
        /\ \A x \in Owners : x # o => disp'.active[x] = disp.active[x]
    <2>1. disp.active \in [Owners -> Nat] /\ disp.active[o] - 1 \in Nat
      BY <1>4, <1>7, Fields
    <2>2. Max({0, disp.active[o] - 1}) = disp.active[o] - 1
      BY <1>7, MaxWithZero
    <2>3. PICK a \in [Owners -> Nat] :
              /\ a[o] = disp.active[o] - 1
              /\ \A x \in Owners : x # o => a[x] = disp.active[x]
              /\ disp' = [disp EXCEPT !.active = a]
      <3>1. disp' = [disp EXCEPT !.active = [disp.active EXCEPT ![o] = disp.active[o] - 1]]
        BY <1>1, <1>3, <2>2
      <3> QED BY <1>4, <2>1, <3>1
    <2> QED BY <2>3, DispRecord
  <1>9. /\ Control' /\ Working' = Working /\ DOMAIN loops' = DOMAIN loops /\ loops'[e] = l
        /\ DOMAIN loops' \subseteq Epochs /\ \A x \in DOMAIN loops' : loops'[x] \in LoopType
        /\ \A x \in DOMAIN loops' : LoopOK(x)'
    BY <1>2, <1>5, <1>8, WalkControl
  <1>10. DOMAIN jobs' = DOMAIN jobs \ {j} /\ \A k \in DOMAIN jobs' : jobs'[k] = jobs[k]
    BY <1>1 DEF Without
  <1>11. \A k \in DOMAIN jobs' : JobOK(k)'
    <2>1. ASSUME NEW k \in DOMAIN jobs' PROVE jobs'[k].epoch = e
      BY <1>6, <1>10, JobsAreCurrent
    <2> QED BY <1>5, <1>6, <1>9, <2>1 DEF JobOK
  <1>12. DispatcherTypeOK'
    BY <1>2, <1>8, <1>9, <1>10 DEF TypeOK, DispatcherTypeOK
  <1>13. ActiveIsExact'
    <2> SUFFICES ASSUME NEW x \in Owners PROVE disp'.active[x] = Cardinality(CountOf(x)')
      BY DEF ActiveIsExact, CountOf
    <2>1. CASE x # o
      <3>1. CountOf(x)' = CountOf(x)
        BY <1>3, <1>8, <1>10, <2>1 DEF CountOf, JobsOf
      <3>2. disp.active[x] = Cardinality(CountOf(x))
        BY DEF IInv, DispatcherOK, ActiveIsExact, CountOf
      <3> QED BY <1>8, <2>1, <3>1, <3>2
    <2>2. CASE x = o
      <3>1. CountOf(x)' = CountOf(x) \ {j}
        BY <1>8, <1>10 DEF CountOf, JobsOf
      <3>2. Cardinality(CountOf(x) \ {j}) = Cardinality(CountOf(x)) - 1
        BY <1>7, <2>2, FS_RemoveElement
      <3> QED BY <1>7, <1>8, <2>2, <3>1, <3>2
    <2> QED BY <2>1, <2>2
  <1>14. RestOK'
    <2>1. ResultsStay
      BY <1>1, <1>10 DEF ResultsStay
    <2>2. RemovalsStay
      BY <1>2, <1>5 DEF RemovalsStay
    <2> QED BY <1>2, <1>8, <2>1, <2>2, StillKeeps
  <1> QED BY <1>9, <1>11, <1>12, <1>13, <1>14, TogetherNext DEF DispatcherOK

-----------------------------------------------------------------------------
(* The theorems.                                                             *)

\* The initial state satisfies the invariant.
LEMMA Initially ==
    ASSUME Init
    PROVE  IInv
PROOF
  <1>1. DOMAIN loops = {} /\ DOMAIN jobs = {} /\ waking = {} /\ Working = {}
    BY DEF Init, EmptyFunction, Working
  <1>2. /\ disp.epoch = 0 /\ ~disp.running /\ \A o \in Owners : disp.active[o] = 0
        /\ disp \in [running : BOOLEAN, epoch : 0 .. MaxEpoch, gen : Nat, clients : SUBSET Owners,
                     active : [Owners -> Nat]]
    BY Constants DEF Init, NewDispatcher
  <1>3. DispatcherTypeOK
    BY <1>1, <1>2 DEF DispatcherTypeOK, Init
  <1>4. DispatcherOK
    <2>1. Control
      BY <1>1, <1>2 DEF Control
    <2>2. ActiveIsExact
      <3> SUFFICES ASSUME NEW o \in Owners PROVE disp.active[o] = Cardinality(CountOf(o))
        BY DEF ActiveIsExact, CountOf
      <3>1. CountOf(o) = {}
        BY <1>1 DEF CountOf, JobsOf
      <3> QED BY <1>2, <3>1, FS_EmptySet
    <2> QED BY <1>1, <2>1, <2>2 DEF DispatcherOK
  <1>5. RestOK
    <2>1. /\ budget \in BudgetType /\ budget.retries = MaxRetries /\ budget.sessions = MaxSessions
      BY Constants DEF Init, BudgetType
    <2>2. Budgeted
      <3>1. /\ Cardinality(toWake) = 0 /\ Cardinality(received) = 0 /\ Cardinality(forsaken) = 0
            /\ IsFiniteSet(receipts) /\ Cardinality(receipts) = 0
        BY FS_EmptySet DEF Init
      <3>2. Owed = 0
        BY ClosedSession DEF Owed, Init
      <3> QED BY <1>2, <2>1, <3>1, <3>2, Constants DEF Budgeted, Paid
    <2>3. SessionOK
      BY ClosedSession DEF Init, SessionOK, Waiting
    <2> QED BY <2>1, <2>2, <2>3, ClosedSession, Constants DEF RestOK, InboxTypeOK, Init
  <1> QED BY <1>3, <1>4, <1>5, Together

\* A step that changes nothing keeps the invariant.
LEMMA NothingKeeps ==
    ASSUME IInv, UNCHANGED vars
    PROVE  IInv'
PROOF
  <1> TypeOK
    BY DEF IInv
  <1>1. /\ UNCHANGED <<disp, permit, waking, loops, jobs>>
        /\ UNCHANGED <<inbox, callers, session, budget>>
    BY DEF vars, inbox
  <1>2. DispatcherTypeOK' /\ DispatcherOK'
    BY <1>1, CalmKeeps, SameJobsStay DEF TypeOK, DispatcherTypeOK
  <1>3. RestOK'
    BY <1>1, StillKeeps, Fields, SameLoopsHold DEF ResultsStay
  <1> QED BY <1>2, <1>3, TogetherNext

\* Whatever the receivers, the loops, the jobs and the session do, the running
\* flag, the loops and the jobs agree (wake_client, run and RunGuard).
THEOREM Invariant == Spec => []IInv
PROOF
  <1>1. Init => IInv
    BY Initially
  <1>2. IInv /\ [Next]_vars => IInv'
    <2> SUFFICES ASSUME IInv, [Next]_vars PROVE IInv'
      OBVIOUS
    <2>1. ASSUME NEW i \in Inputs,
                 \/ ReceiveOrdinary(i) \/ ReceiveSecure(i) \/ RetryProcessing(i)
                 \/ LeaseExpires(i) \/ Expire(i)
          PROVE  IInv'
      BY <2>1, ReceiveKeeps, RetryKeeps, AgeingKeeps
    <2>2. ASSUME NEW j \in DOMAIN jobs, JobStep(j) \/ JobDies(j) PROVE IInv'
      BY <2>2, CommitKeeps, FailKeeps, JobPublishKeeps, JobDiesKeeps DEF JobStep
    <2>3. ASSUME NEW o \in Owners, WakeAfterReceive(o) \/ WakeAtRunStart(o) PROVE IInv'
      BY <2>3, WakeAfterReceiveKeeps, WakeAtRunStartKeeps
    <2>4. CASE CallerEnds \/ NotifyAndSpawn \/ DropDispatcher
      BY <2>4, PublishReceivedKeeps, CutKeeps, SpawnKeeps, DropKeeps DEF CallerEnds
    <2>5. ASSUME NEW e \in DOMAIN loops, LoopStep(e) PROVE IInv'
      BY <2>5, TopKeeps, ScanKeeps, PublishRemovedKeeps, SummariseKeeps, ClaimKeeps, EndScanKeeps,
         StopKeeps, LeaveKeeps DEF LoopStep
    <2>6. ASSUME NEW e \in DOMAIN loops,
                 SkipClient(e) \/ LoopDies(e) \/ TakePermit(e) \/ Join(e) \/ Tick(e)
          PROVE  IInv'
      BY <2>6, SkipKeeps, LoopDiesKeeps, TakePermitKeeps, JoinKeeps, TickKeeps
    <2>7. CASE OpenSession \/ StartWait \/ SessionStep \/ CloseSession
      BY <2>7, OpenKeeps, WaitKeeps, SessionKeeps
    <2>8. CASE UNCHANGED vars
      BY <2>8, NothingKeeps
    <2> QED BY <2>1, <2>2, <2>3, <2>4, <2>5, <2>6, <2>7, <2>8 DEF Next
  <1> QED BY <1>1, <1>2, PTL DEF Spec

\* At most one run loop works or is about to be spawned, and the running flag
\* always stands for one, whatever dies, stops late or is woken meanwhile.
THEOREM LoopServes == Spec => []OneLoopServes
PROOF
  <1>1. IInv => OneLoopServes
    <2> SUFFICES ASSUME IInv PROVE OneLoopServes
      OBVIOUS
    <2>1. Working \cup (waking \ {0}) = IF disp.running THEN {disp.epoch} ELSE {}
      BY DEF IInv, DispatcherOK, Control
    <2>2. OneLoop
      <3>1. CASE disp.running
        BY <2>1, <3>1, FS_Singleton DEF OneLoop
      <3>2. CASE ~disp.running
        BY <2>1, <3>2, FS_EmptySet DEF OneLoop
      <3> QED BY <3>1, <3>2
    <2>3. RunningIsServed
      BY <2>1 DEF RunningIsServed
    <2> QED BY <2>2, <2>3 DEF IInv, OneLoopServes
  <1> QED BY <1>1, Invariant, PTL

\* active_for_owner always counts the jobs of the current run.
THEOREM ExactCounts == Spec => []ActiveIsExact
PROOF
  <1>1. IInv => ActiveIsExact
    BY DEF IInv, DispatcherOK
  <1> QED BY <1>1, Invariant, PTL

\* Only the check for completion makes a session complete.
LEMMA OnlyReturnCompletes ==
    ASSUME IInv, Next, session'.complete, ~session.complete
    PROVE  ReturnComplete
PROOF
  <1> TypeOK
    BY DEF IInv
  <1>1. session \in SessionType
    BY QueueBound
  <1>2. ~UNCHANGED session
    OBVIOUS
  <1>3. ASSUME NEW U \in SUBSET Updates, Publish(U) PROVE FALSE
    BY <1>3, PublishKeeps
  <1>4. ASSUME NEW S \in SUBSET Inputs, Publish(Discarded(S)) PROVE FALSE
    <2>1. Discarded(S) \in SUBSET Updates
      BY DEF Discarded, Updates, Statuses
    <2> QED BY <1>3, <1>4, <2>1
  <1>5. ASSUME NEW i \in Inputs,
               \/ ReceiveOrdinary(i) \/ ReceiveSecure(i) \/ RetryProcessing(i)
               \/ LeaseExpires(i) \/ Expire(i)
        PROVE  FALSE
    BY <1>2, <1>5 DEF ReceiveOrdinary, ReceiveSecure, RetryProcessing, LeaseExpires, Expire
  <1>6. ASSUME CallerEnds PROVE FALSE
    <2>1. PICK r \in receipts : PublishReceived(r) \/ CutCaller(r)
      BY <1>6 DEF CallerEnds
    <2>2. r.removed \in SUBSET Inputs
      BY DEF TypeOK, InboxTypeOK, ReceiptType
    <2> QED BY <1>2, <1>4, <2>1, <2>2 DEF PublishReceived, CutCaller
  <1>7. ASSUME NEW j \in DOMAIN jobs, JobStep(j) \/ JobDies(j) PROVE FALSE
    <2>1. CASE JobPublishes(j)
      <3>1. {[input |-> jobs[j].input, status |-> jobs[j].status]} \in SUBSET Updates
        BY Fields, JobFields DEF Updates
      <3> QED BY <1>3, <2>1, <3>1 DEF JobPublishes
    <2> QED BY <1>2, <1>7, <2>1 DEF JobStep, JobCommits, JobFails, JobDiscarded, JobDies
  <1>8. ASSUME NEW o \in Owners, WakeAfterReceive(o) \/ WakeAtRunStart(o) PROVE FALSE
    BY <1>2, <1>8 DEF WakeAfterReceive, WakeAtRunStart
  <1>9. ASSUME NotifyAndSpawn \/ DropDispatcher PROVE FALSE
    BY <1>2, <1>9 DEF NotifyAndSpawn, DropDispatcher
  <1>10. ASSUME NEW e \in DOMAIN loops,
                LoopStep(e) \/ SkipClient(e) \/ LoopDies(e) \/ TakePermit(e) \/ Join(e) \/ Tick(e)
         PROVE  FALSE
    <2>1. CASE PublishRemoved(e)
      <3>1. loops[e].removed \in SUBSET Inputs
        BY LoopRecord
      <3> QED BY <1>4, <2>1, <3>1 DEF PublishRemoved
    <2> QED BY <1>2, <1>10, <2>1 DEF LoopStep, Top, ScanClient, Summarise, Claim, EndScan, Stop, Leave,
              SkipClient, LoopDies, TakePermit, Join, Tick
  <1>11. ASSUME OpenSession \/ CloseSession PROVE FALSE
    BY <1>11 DEF OpenSession, CloseSession, Closed
  <1>12. ASSUME StartWait \/ Drain \/ ReadSummary PROVE FALSE
    BY <1>1, <1>12 DEF StartWait, Drain, ReadSummary, SessionType
  <1>13. ASSUME ReturnIncomplete \/ WaitLonger PROVE FALSE
    BY <1>1, <1>13, RoundFields, ReturnFields DEF ReturnIncomplete, WaitLonger
  <1> QED BY <1>5, <1>6, <1>7, <1>8, <1>9, <1>10, <1>11, <1>12, <1>13 DEF Next, SessionStep

\* As long as no task died, a wait that returns complete has seen applied every
\* input retained at its start, unless the input's removal by retention or
\* capacity committed and is not published (wait_async, make_room and
\* publish_removed).
THEOREM HonestCompletion == Spec => CompleteIsHonest
PROOF
  <1>1. IInv /\ [Next]_vars
          => [ReturnsComplete => session.start \ session.seen \subseteq Unreported]_vars
    BY OnlyReturnCompletes, CompleteIsSeen DEF ReturnsComplete
  <1> QED BY <1>1, Invariant, PTL DEF Spec, CompleteIsHonest
=============================================================================
