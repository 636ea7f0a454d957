--------------------------- MODULE SyncDispatcher ---------------------------
(* The process-local dispatcher of message_runtime/sync_dispatcher.rs: when  *)
(* its loop starts, scans, sleeps and stops, what it reports to the          *)
(* sessions of messages/processing.rs, and when such a session may tell its  *)
(* host that business processing is complete.                                *)
(*                                                                           *)
(* What an attempt does to its row is SyncInbox's subject; here an attempt   *)
(* commits, fails or finds its row gone.  Maintenance jobs are left out.     *)
EXTENDS Integers, FiniteSets, FiniteSetsExt

CONSTANTS
    Owners,      \* identities with a client in this process
    Inputs,      \* rows of the receive inbox
    OwnerOf,     \* [Inputs -> Owners]
    Watched,     \* the owner of the processing session
    MaxActive,   \* MAX_ACTIVE_INPUTS
    Capacity,    \* MAX_INBOX_RECORDS
    Buffer,      \* UPDATE_BUFFER
    MaxSessions, \* bound on processing sessions opened
    MaxRetries,  \* bound on attempts that fail and are to be retried
    MaxFaults,   \* bound on tasks that die and scans that find no database
    MaxExpired   \* bound on rows that reach the end of their retention

ASSUME OwnerAssumption == OwnerOf \in [Inputs -> Owners] /\ Watched \in Owners
ASSUME BoundAssumption ==
    /\ MaxActive \in Nat \ {0} /\ Buffer \in Nat \ {0} /\ Capacity \in Nat \ {0}
    /\ MaxSessions \in Nat /\ MaxRetries \in Nat /\ MaxFaults \in Nat /\ MaxExpired \in Nat
    /\ IsFiniteSet(Inputs) /\ IsFiniteSet(Owners)

VARIABLES
    disp,      \* DispatchState
    permit,    \* the stored permit of the Notify
    waking,    \* wake_client calls past the lock: the epoch to spawn, or 0
    loops,     \* the run tasks, by epoch
    jobs,      \* the JoinSet entries of input attempts, by slot
    rows,      \* inputs in the inbox
    blocked,   \* of those, the ones that are not to be retried
    leased,    \* inputs under a live lease
    expired,   \* inputs past their retention
    receipts,  \* committed receptions and retries whose caller awaits the answer
    toWake,    \* owners a caller with its answer is about to wake
    forsaken,  \* owners not woken since such a caller was dropped
    received,  \* inputs received so far
    lost,      \* inputs evicted by a reception that will never report it
    session,   \* the processing session
    budget     \* what is left of MaxSessions, MaxRetries and MaxFaults

callers == <<receipts, toWake, forsaken>>
vars == <<disp, permit, waking, loops, jobs, rows, blocked, leased, expired, callers,
          received, lost, session, budget>>
inbox == <<rows, blocked, leased, expired, received, lost>>

NewDispatcher ==
    [running |-> FALSE, epoch |-> 0, gen |-> 0, clients |-> {}, active |-> [o \in Owners |-> 0]]

Closed ==
    [pc |-> "closed", queue |-> {}, lagged |-> FALSE, seen |-> {}, discards |-> {},
     start |-> {}, pending |-> 0, stuck |-> FALSE, complete |-> FALSE]

EmptyFunction == [x \in {} |-> x]

Init ==
    /\ disp = NewDispatcher
    /\ permit = FALSE
    /\ waking = {}
    /\ loops = EmptyFunction
    /\ jobs = EmptyFunction
    /\ rows = {} /\ blocked = {} /\ leased = {} /\ expired = {} /\ received = {} /\ lost = {}
    /\ receipts = {} /\ toWake = {} /\ forsaken = {}
    /\ session = Closed
    /\ budget = [sessions |-> MaxSessions, retries |-> MaxRetries, faults |-> MaxFaults]

Slots == 1 .. MaxActive

Statuses == {"applied", "discarded", "retrying"}

Updates == [input : Inputs, status : Statuses]

MaxEpoch == Cardinality(Inputs) + MaxRetries + 2 * MaxSessions

Epochs == 1 .. MaxEpoch

LoopType ==
    [pc : {"top", "scan", "purged", "ticked", "summary", "claim", "idle", "select", "leaving"},
     todo : SUBSET Owners, at : Owners, gen : Nat, retained : BOOLEAN, removed : SUBSET Inputs]

JobType ==
    [input : Inputs, epoch : Epochs, stage : {"running", "result", "ended"}, status : Statuses]

ReceiptType == [owner : Owners, removed : SUBSET Inputs]

SessionType ==
    [pc : {"closed", "open", "drain", "summary", "check", "done"},
     queue : SUBSET Updates, lagged : BOOLEAN, seen : SUBSET Inputs, discards : SUBSET Inputs,
     start : SUBSET Inputs, pending : Nat, stuck : BOOLEAN, complete : BOOLEAN]

DispatcherTypeOK ==
    /\ disp \in [running : BOOLEAN, epoch : 0 .. MaxEpoch, gen : Nat, clients : SUBSET Owners,
                 active : [Owners -> Nat]]
    /\ permit \in BOOLEAN
    /\ waking \subseteq 0 .. MaxEpoch
    /\ DOMAIN loops \subseteq Epochs /\ \A e \in DOMAIN loops : loops[e] \in LoopType
    /\ DOMAIN jobs \subseteq Slots /\ \A j \in DOMAIN jobs : jobs[j] \in JobType

InboxTypeOK ==
    /\ blocked \subseteq rows /\ rows \subseteq received /\ leased \subseteq received
    /\ expired \subseteq received /\ received \subseteq Inputs /\ lost \subseteq Inputs
    /\ receipts \subseteq ReceiptType /\ toWake \cup forsaken \subseteq Owners

TypeOK ==
    /\ DispatcherTypeOK /\ InboxTypeOK
    /\ session \in SessionType /\ Cardinality(session.queue) <= Buffer
    /\ budget \in [sessions : 0 .. MaxSessions, retries : 0 .. MaxRetries, faults : 0 .. MaxFaults]

RowsOf(o) == {i \in rows : OwnerOf[i] = o}

JobsOf(e) == {j \in DOMAIN jobs : jobs[j].epoch = e}

Without(f, S) == [x \in DOMAIN f \ S |-> f[x]]

At(e, pc) == e \in DOMAIN loops /\ loops[e].pc = pc

-----------------------------------------------------------------------------
(* wake_client, and the receivers and hosts that call it.                    *)

\* The critical section of wake_client.
Woken(o) ==
    [running |-> TRUE, epoch |-> IF disp.running THEN disp.epoch ELSE disp.epoch + 1,
     gen |-> disp.gen + 1, clients |-> disp.clients \cup {o}, active |-> disp.active]

WakeClient(o) ==
    /\ disp' = Woken(o)
    /\ waking' = waking \cup {IF disp.running THEN 0 ELSE disp.epoch + 1}
    /\ forsaken' = forsaken \ {o}

Spawned(e) ==
    [x \in DOMAIN loops \cup {e} |->
        IF x = e
        THEN [pc |-> "top", todo |-> {}, at |-> Watched, gen |-> 0, retained |-> FALSE,
              removed |-> {}]
        ELSE loops[x]]

Starts(e) == e # 0

\* After the lock: notify_one, and the spawn if this call started a run.
NotifyAndSpawn ==
    \E e \in waking :
        /\ waking' = waking \ {e}
        /\ permit' = TRUE
        /\ loops' = IF Starts(e) THEN Spawned(e) ELSE loops
        /\ UNCHANGED <<disp, jobs, inbox, callers, session, budget>>

\* What make_room takes away before a record is inserted: the expired rows, and
\* of the others, of whatever owner, as many as exceed the capacity.  (Their age
\* is not kept: any of them may be the oldest.)
MakeRoom ==
    {gone \in SUBSET rows :
        /\ rows \cap expired \subseteq gone
        /\ Cardinality(gone \ expired) = Max({0, Cardinality(rows \ expired) + 1 - Capacity})}

Inserted(i, gone) ==
    /\ i \notin received
    /\ rows' = (rows \ gone) \cup {i}
    /\ blocked' = blocked \ gone
    /\ received' = received \cup {i}

Receipt(i, removed) == [owner |-> OwnerOf[i], removed |-> removed]

\* A page of the account stream, a bootstrap or a snapshot: the caller learns
\* what was evicted.
ReceiveOrdinary(i) ==
    /\ \E gone \in MakeRoom :
        /\ Inserted(i, gone)
        /\ receipts' = receipts \cup {Receipt(i, gone)}
    /\ UNCHANGED <<disp, permit, waking, loops, jobs, leased, expired, toWake, forsaken, lost,
                   session, budget>>

\* commit_sync_lane_handoff ignores what make_room returns.
ReceiveSecure(i) ==
    /\ \E gone \in MakeRoom :
        /\ Inserted(i, gone)
        /\ lost' = lost \cup gone
    /\ receipts' = receipts \cup {Receipt(i, {})}
    /\ UNCHANGED <<disp, permit, waking, loops, jobs, leased, expired, toWake, forsaken,
                   session, budget>>

\* retry_processing_async: a blocked row is due again, and its owner is woken.
RetryProcessing(i) ==
    /\ budget.retries > 0
    /\ i \in blocked \ (leased \cup expired)
    /\ blocked' = blocked \ {i}
    /\ receipts' = receipts \cup {Receipt(i, {})}
    /\ budget' = [budget EXCEPT !.retries = @ - 1]
    /\ UNCHANGED <<disp, permit, waking, loops, jobs, rows, leased, expired, toWake, forsaken,
                   received, lost, session>>

-----------------------------------------------------------------------------
(* The broadcast channel.                                                    *)

Subscribed == session.pc # "closed"

\* The session after the updates U were sent: what does not fit is dropped,
\* and the receiver learns that it lagged.
AfterSending(U) ==
    IF ~Subscribed THEN {session}
    ELSE LET all == session.queue \cup U
         IN  IF Cardinality(all) <= Buffer THEN {[session EXCEPT !.queue = all]}
             ELSE {[session EXCEPT !.queue = kept, !.lagged = TRUE] :
                        kept \in kSubset(Buffer, all)}

Publish(U) == session' \in AfterSending(U)

Discarded(S) == {[input |-> i, status |-> "discarded"] : i \in S}

-----------------------------------------------------------------------------
(* A caller whose transaction committed.                                     *)

\* It gets the answer and publishes the evictions; it wakes the owner next,
\* with nothing to await in between.
PublishReceived(r) ==
    /\ receipts' = receipts \ {r}
    /\ toWake' = toWake \cup {r.owner}
    /\ Publish(Discarded(r.removed))
    /\ UNCHANGED <<disp, permit, waking, loops, jobs, inbox, forsaken, budget>>

WakeAfterReceive(o) ==
    /\ o \in toWake
    /\ toWake' = toWake \ {o}
    /\ WakeClient(o)
    /\ UNCHANGED <<permit, loops, jobs, inbox, receipts, session, budget>>

\* The caller is dropped before it has the answer: the run's time is up, the
\* host cancels the call, or a later step of the run fails.
CutCaller(r) ==
    /\ receipts' = receipts \ {r}
    /\ lost' = lost \cup r.removed
    /\ forsaken' = forsaken \cup {r.owner}
    /\ UNCHANGED <<disp, permit, waking, loops, jobs, rows, blocked, leased, expired, toWake,
                   received, session, budget>>

\* Every receive run starts with a wake; it matters after a caller was cut.
WakeAtRunStart(o) ==
    /\ o \in forsaken
    /\ WakeClient(o)
    /\ UNCHANGED <<permit, loops, jobs, inbox, receipts, toWake, session, budget>>

\* The registry holds a Weak pointer: with no run, caller or session left the
\* dispatcher is dropped and the next lookup makes a new one.
DropDispatcher ==
    /\ disp # NewDispatcher
    /\ loops = EmptyFunction /\ waking = {} /\ session.pc = "closed"
    /\ disp' = NewDispatcher
    /\ permit' = FALSE
    /\ UNCHANGED <<waking, loops, jobs, inbox, callers, session, budget>>

-----------------------------------------------------------------------------
(* The run loop.                                                             *)

Top(e) ==
    /\ At(e, "top")
    /\ loops' = [loops EXCEPT ![e].pc = "scan", ![e].todo = disp.clients, ![e].gen = disp.gen,
                              ![e].retained = FALSE]
    /\ UNCHANGED <<disp, permit, waking, jobs, inbox, callers, session, budget>>

\* The next client; with no input of its own active the loop purges first.
ScanClient(e, o) ==
    /\ At(e, "scan")
    /\ o \in loops[e].todo
    /\ LET purged == IF JobsOf(e) = {} THEN rows \cap expired ELSE {}
       IN  /\ rows' = rows \ purged
           /\ blocked' = blocked \ purged
           /\ loops' = [loops EXCEPT ![e].at = o, ![e].removed = purged,
                                     ![e].pc = IF purged = {} THEN "summary" ELSE "purged"]
    /\ UNCHANGED <<disp, permit, waking, jobs, leased, expired, callers, received, lost, session, budget>>

\* The purge's transaction has committed before its report is published.
PublishRemoved(e) ==
    /\ At(e, "purged") \/ At(e, "ticked")
    /\ Publish(Discarded(loops[e].removed))
    /\ loops' = [loops EXCEPT ![e].pc = IF @ = "purged" THEN "summary" ELSE "top",
                              ![e].removed = {}]
    /\ UNCHANGED <<disp, permit, waking, jobs, inbox, callers, budget>>

Summarise(e) ==
    /\ At(e, "summary")
    /\ loops' = [loops EXCEPT ![e].pc = "claim", ![e].retained = @ \/ RowsOf(loops[e].at) # {}]
    /\ UNCHANGED <<disp, permit, waking, jobs, inbox, callers, session, budget>>

Claimable(o) == {i \in RowsOf(o) : i \notin blocked \cup leased \cup expired}

\* Each claimed input becomes a job; jobs take the lowest free slots.
Claim(e) ==
    /\ At(e, "claim")
    /\ LET o == loops[e].at
           limit == MaxActive - Max({Cardinality(JobsOf(e)), Cardinality(leased)})
       IN  \E chosen \in SUBSET Claimable(o), slots \in SUBSET (Slots \ DOMAIN jobs) :
            /\ Cardinality(chosen) = Min({limit, Cardinality(Claimable(o))})
            /\ Cardinality(slots) = Cardinality(chosen)
            /\ \A j \in slots, k \in Slots \ (slots \cup DOMAIN jobs) : j < k
            /\ \E inputOf \in [slots -> chosen] :
                /\ \A i \in chosen : \E j \in slots : inputOf[j] = i
                /\ jobs' = [j \in DOMAIN jobs \cup slots |->
                                IF j \in slots
                                THEN [input |-> inputOf[j], epoch |-> e, stage |-> "running",
                                      status |-> "retrying"]
                                ELSE jobs[j]]
            /\ leased' = leased \cup chosen
            /\ disp' = [disp EXCEPT !.active[o] = @ + Cardinality(chosen)]
            /\ loops' = [loops EXCEPT ![e].pc = "scan", ![e].todo = @ \ {o}, ![e].at = Watched]
    /\ UNCHANGED <<permit, waking, rows, blocked, expired, callers, received, lost, session, budget>>

\* The database cannot be opened, or the claim fails: the client is skipped.
SkipClient(e) ==
    /\ budget.faults > 0
    /\ At(e, "scan") \/ At(e, "claim")
    /\ \E o \in IF At(e, "claim") THEN {loops[e].at} ELSE loops[e].todo :
        loops' = [loops EXCEPT ![e].pc = "scan", ![e].todo = @ \ {o}]
    /\ budget' = [budget EXCEPT !.faults = @ - 1]
    /\ UNCHANGED <<disp, permit, waking, jobs, inbox, callers, session>>

MayStop(e) == JobsOf(e) = {} /\ ~loops[e].retained /\ ~Subscribed

EndScan(e) ==
    /\ At(e, "scan")
    /\ loops[e].todo = {}
    /\ loops' = [loops EXCEPT ![e] = IF MayStop(e) THEN [@ EXCEPT !.pc = "idle"]
                                     ELSE [@ EXCEPT !.pc = "select", !.gen = 0, !.retained = FALSE]]
    /\ UNCHANGED <<disp, permit, waking, jobs, inbox, callers, session, budget>>

\* Mutant: the loop stops although a wake came during its scan.
SameGenerationAssumed(e) == TRUE

SameGeneration(e) == disp.gen = loops[e].gen

\* Under the lock again: stop only if no wake came since this scan began.
Stop(e) ==
    /\ At(e, "idle")
    /\ IF SameGeneration(e)
       THEN /\ disp' = [disp EXCEPT !.running = FALSE, !.clients = {}]
            /\ loops' = [loops EXCEPT ![e].pc = "leaving"]
       ELSE /\ loops' = [loops EXCEPT ![e].pc = "top"]
            /\ UNCHANGED disp
    /\ UNCHANGED <<permit, waking, jobs, inbox, callers, session, budget>>

\* Mutant: the guard does not look at the epoch.
GuardDroppedOfAnyRun(e) ==
    [disp EXCEPT !.running = FALSE,
                 !.active = IF disp.epoch = e THEN [o \in Owners |-> 0] ELSE @]

\* Mutant: the counts of a run that died survive it.
GuardDroppedKeepingCounts(e) ==
    IF disp.epoch = e THEN [disp EXCEPT !.running = FALSE] ELSE disp

\* RunGuard::drop: a guard of an older epoch leaves the newer run alone.
GuardDropped(e) ==
    IF disp.epoch = e
    THEN [disp EXCEPT !.running = FALSE, !.active = [o \in Owners |-> 0]]
    ELSE disp

Leave(e) ==
    /\ At(e, "leaving")
    /\ disp' = GuardDropped(e)
    /\ loops' = Without(loops, {e})
    /\ UNCHANGED <<permit, waking, jobs, inbox, callers, session, budget>>

\* Mutant: the loop has no guard.
LoopDiesUnguarded(e) ==
    /\ budget.faults > 0
    /\ e \in DOMAIN loops /\ loops[e].pc # "leaving"
    /\ loops' = Without(loops, {e})
    /\ jobs' = Without(jobs, JobsOf(e))
    /\ budget' = [budget EXCEPT !.faults = @ - 1]
    /\ UNCHANGED <<disp, permit, waking, inbox, callers, session>>

\* The task panics: its JoinSet aborts the jobs, whose leases stay behind.
LoopDies(e) ==
    /\ budget.faults > 0
    /\ e \in DOMAIN loops /\ loops[e].pc # "leaving"
    /\ disp' = GuardDropped(e)
    /\ loops' = Without(loops, {e})
    /\ jobs' = Without(jobs, JobsOf(e))
    /\ budget' = [budget EXCEPT !.faults = @ - 1]
    /\ UNCHANGED <<permit, waking, inbox, callers, session>>

TakePermit(e) ==
    /\ At(e, "select")
    /\ permit
    /\ permit' = FALSE
    /\ loops' = [loops EXCEPT ![e].pc = "top"]
    /\ UNCHANGED <<disp, waking, jobs, inbox, callers, session, budget>>

\* join_next and input_finished.
Join(e) ==
    /\ At(e, "select")
    /\ \E j \in JobsOf(e) :
        /\ jobs[j].stage = "ended"
        /\ jobs' = Without(jobs, {j})
        /\ disp' = [disp EXCEPT !.active[OwnerOf[jobs[j].input]] = Max({0, @ - 1})]
    /\ loops' = [loops EXCEPT ![e].pc = "top"]
    /\ UNCHANGED <<permit, waking, inbox, callers, session, budget>>

\* The maintenance interval: claims are renewed and expired rows purged.
Tick(e) ==
    /\ At(e, "select")
    /\ rows' = rows \ expired
    /\ blocked' = blocked \ expired
    /\ loops' = [loops EXCEPT ![e].removed = rows \cap expired,
                              ![e].pc = IF rows \cap expired = {} THEN "top" ELSE "ticked"]
    /\ UNCHANGED <<disp, permit, waking, jobs, leased, expired, callers, received, lost, session, budget>>

-----------------------------------------------------------------------------
(* A job: its transaction, its publication, the release of its lease.        *)

JobCommits(j) ==
    LET i == jobs[j].input
    IN  /\ jobs[j].stage = "running"
        /\ i \in rows
        /\ rows' = rows \ {i}
        /\ blocked' = blocked \ {i}
        /\ jobs' = [jobs EXCEPT ![j].stage = "result", ![j].status = "applied"]
        /\ UNCHANGED <<disp, permit, waking, loops, leased, expired, callers, received, lost, session,
                       budget>>

\* fail_claim frees the row, with a time to retry or blocked.
JobFails(j) ==
    LET i == jobs[j].input
    IN  /\ jobs[j].stage = "running"
        /\ i \in rows
        /\ \/ blocked' = blocked \cup {i} /\ UNCHANGED budget
           \/ /\ budget.retries > 0
              /\ budget' = [budget EXCEPT !.retries = @ - 1]
              /\ UNCHANGED blocked
        /\ leased' = leased \ {i}
        /\ jobs' = [jobs EXCEPT ![j].stage = "result"]
        /\ UNCHANGED <<disp, permit, waking, loops, rows, expired, callers, received, lost, session>>

\* The row was removed under the job.
JobDiscarded(j) ==
    /\ jobs[j].stage = "running"
    /\ jobs[j].input \notin rows
    /\ jobs' = [jobs EXCEPT ![j].stage = "result", ![j].status = "discarded"]
    /\ UNCHANGED <<disp, permit, waking, loops, inbox, callers, session, budget>>

\* The update goes out, the lease is given back, and then the task ends.
JobPublishes(j) ==
    /\ jobs[j].stage = "result"
    /\ Publish({[input |-> jobs[j].input, status |-> jobs[j].status]})
    /\ leased' = IF jobs[j].status = "retrying" THEN leased ELSE leased \ {jobs[j].input}
    /\ jobs' = [jobs EXCEPT ![j].stage = "ended"]
    /\ UNCHANGED <<disp, permit, waking, loops, rows, blocked, expired, callers, received, lost, budget>>

\* The task panics, finds no database, or cannot record its failure: nothing is
\* published, and the lease may stay behind.
JobDies(j) ==
    /\ budget.faults > 0
    /\ jobs[j].stage = "running"
    /\ leased' \in {leased, leased \ {jobs[j].input}}
    /\ jobs' = [jobs EXCEPT ![j].stage = "ended"]
    /\ budget' = [budget EXCEPT !.faults = @ - 1]
    /\ UNCHANGED <<disp, permit, waking, loops, rows, blocked, expired, callers, received, lost, session>>

InProgress == {jobs[j].input : j \in DOMAIN jobs}

\* What a dead task left behind runs out.
LeaseExpires(i) ==
    /\ i \in leased \ InProgress
    /\ leased' = leased \ {i}
    /\ UNCHANGED <<disp, permit, waking, loops, jobs, rows, blocked, expired, callers, received,
                   lost, session, budget>>

Expire(i) ==
    /\ i \in rows \ expired
    /\ Cardinality(expired) < MaxExpired
    /\ expired' = expired \cup {i}
    /\ UNCHANGED <<disp, permit, waking, loops, jobs, rows, blocked, leased, callers, received,
                   lost, session, budget>>

-----------------------------------------------------------------------------
(* The processing session: watch_processing_updates, wait_async, close.      *)

OpenSession ==
    /\ session.pc = "closed"
    /\ budget.sessions > 0
    /\ budget' = [budget EXCEPT !.sessions = @ - 1]
    /\ session' = [Closed EXCEPT !.pc = "open"]
    /\ WakeClient(Watched)
    /\ UNCHANGED <<permit, loops, jobs, inbox, receipts, toWake>>

\* wait_async wakes the dispatcher and starts with an empty outcome.
StartWait ==
    /\ session.pc = "open"
    /\ session' = [session EXCEPT !.pc = "drain", !.start = RowsOf(Watched)]
    /\ WakeClient(Watched)
    /\ UNCHANGED <<permit, loops, jobs, inbox, receipts, toWake, budget>>

OfWatched(status) ==
    {u.input : u \in {v \in session.queue : v.status = status /\ OwnerOf[v.input] = Watched}}

Drain ==
    /\ session.pc = "drain"
    /\ session' = [session EXCEPT !.pc = "summary", !.queue = {},
                                  !.seen = @ \cup OfWatched("applied"),
                                  !.discards = @ \cup OfWatched("discarded")]
    /\ UNCHANGED <<disp, permit, waking, loops, jobs, inbox, callers, budget>>

ReadSummary ==
    LET mine == RowsOf(Watched)
    IN  /\ session.pc = "summary"
        /\ session' = [session EXCEPT !.pc = "check", !.pending = Cardinality(mine),
                                      !.stuck = mine # {} /\ mine \subseteq blocked]
        /\ UNCHANGED <<disp, permit, waking, loops, jobs, inbox, callers, budget>>

\* The summary is a local of one round of wait_async's loop.
NextRound == [session EXCEPT !.pc = "drain", !.pending = 0, !.stuck = FALSE]

\* What was seen is handed to the host with the outcome.
Returned(complete) ==
    [Closed EXCEPT !.pc = "done", !.queue = session.queue, !.lagged = session.lagged,
                   !.complete = complete]

\* Mutant: an empty inbox is taken for completion.
SettledWhenEmpty == session.pending = 0

Settled == session.pending = 0 /\ disp.active[Watched] = 0

\* Settled: the last updates are drained before the session returns.
ReturnComplete ==
    /\ session.pc = "check"
    /\ Settled
    /\ session' = IF session.queue # {} THEN NextRound
                  ELSE Returned(session.discards = {} /\ ~session.lagged)
    /\ UNCHANGED <<disp, permit, waking, loops, jobs, inbox, callers, budget>>

\* Everything left is blocked, or 25 seconds have passed.
ReturnIncomplete ==
    /\ session.pc = "check"
    /\ ~Settled
    /\ session' = Returned(FALSE)
    /\ UNCHANGED <<disp, permit, waking, loops, jobs, inbox, callers, budget>>

WaitLonger ==
    /\ session.pc = "check"
    /\ ~Settled /\ ~session.stuck
    /\ session' = NextRound
    /\ UNCHANGED <<disp, permit, waking, loops, jobs, inbox, callers, budget>>

CloseSession ==
    /\ session.pc \in {"open", "done"}
    /\ session' = Closed
    /\ permit' = TRUE
    /\ UNCHANGED <<disp, waking, loops, jobs, inbox, callers, budget>>

-----------------------------------------------------------------------------
LoopStep(e) ==
    \/ Top(e) \/ \E o \in Owners : ScanClient(e, o)
    \/ PublishRemoved(e) \/ Summarise(e) \/ Claim(e) \/ EndScan(e) \/ Stop(e) \/ Leave(e)

JobStep(j) ==
    j \in DOMAIN jobs /\ (JobCommits(j) \/ JobFails(j) \/ JobDiscarded(j) \/ JobPublishes(j))

\* A caller either gets its answer or is dropped.
CallerEnds == \E r \in receipts : PublishReceived(r) \/ CutCaller(r)

SessionStep == Drain \/ ReadSummary \/ ReturnComplete \/ ReturnIncomplete \/ WaitLonger

Next ==
    \/ \E i \in Inputs :
        \/ ReceiveOrdinary(i) \/ ReceiveSecure(i) \/ RetryProcessing(i)
        \/ LeaseExpires(i) \/ Expire(i)
    \/ CallerEnds
    \/ \E j \in DOMAIN jobs : JobStep(j) \/ JobDies(j)
    \/ \E o \in Owners : WakeAfterReceive(o) \/ WakeAtRunStart(o)
    \/ NotifyAndSpawn
    \/ DropDispatcher
    \/ \E e \in DOMAIN loops :
        \/ LoopStep(e) \/ SkipClient(e) \/ LoopDies(e)
        \/ TakePermit(e) \/ Join(e) \/ Tick(e)
    \/ OpenSession \/ StartWait \/ SessionStep \/ CloseSession

\* The runtime polls every ready task; select! takes each ready branch sooner or
\* later; a caller that has its answer does not stop before the wake, and one
\* that has not is dropped or answered; the work of an attempt ends, since every
\* request it makes has a time limit in the transport (the dispatcher's own timer
\* does not end it).  Of the loops, it is enough that one that can step does.
Fairness ==
    /\ WF_vars(NotifyAndSpawn)
    /\ WF_vars(CallerEnds)
    /\ \A o \in Owners : WF_vars(WakeAfterReceive(o))
    /\ WF_vars(\E e \in DOMAIN loops : LoopStep(e))
    /\ SF_vars(\E e \in DOMAIN loops : TakePermit(e))
    /\ SF_vars(\E e \in DOMAIN loops : Join(e))
    /\ WF_vars(\E e \in DOMAIN loops : Tick(e))
    /\ \A j \in Slots : WF_vars(JobStep(j))
    /\ \A i \in Inputs : WF_vars(LeaseExpires(i))

Spec == Init /\ [][Next]_vars /\ Fairness

-----------------------------------------------------------------------------
(* Properties.                                                               *)

Working == {e \in DOMAIN loops : loops[e].pc # "leaving"}

\* Two run loops never work, or are about to be spawned, at once, although a
\* stopped loop still drops its guard after a new one has been started.
OneLoop == Cardinality(Working \cup (waking \ {0})) <= 1

\* The running flag always stands for a loop that will look again, or for one
\* that a caller is about to spawn: no wake is swallowed by a stale flag.
RunningIsServed == disp.running => disp.epoch \in Working \cup waking

\* There is one run loop, and it serves: the two together (with the type
\* invariant).
OneLoopServes == TypeOK /\ OneLoop /\ RunningIsServed

\* active_for_owner, which a waiting session trusts, counts the loop's jobs.
ActiveIsExact ==
    \A o \in Owners :
        disp.active[o] = Cardinality({j \in JobsOf(disp.epoch) : OwnerOf[jobs[j].input] = o})

\* The inputs whose removal is committed and not published, or never will be.
Unreported ==
    {i \in Inputs : \/ i \in lost
                    \/ \E e \in DOMAIN loops : i \in loops[e].removed
                    \/ \E r \in receipts : i \in r.removed}

\* A wait returns complete while no task has died yet.
ReturnsComplete == session'.complete /\ ~session.complete /\ budget.faults = MaxFaults

\* A wait that returns complete has seen applied each input that was retained
\* when it began: a result is published before its job counts as finished, a
\* removal that was published denies the completion, and so does a channel that
\* overflowed.  The exception are removals by retention or capacity that
\* committed and are not published at that moment.
CompleteIsHonest ==
    [][ReturnsComplete => session.start \ session.seen \subseteq Unreported]_vars

\* "discarded" is no success: a wait that returns complete has no input that
\* expired unseen among those it began with.
DiscardIsNoSuccess ==
    [][ReturnsComplete => session.start \cap expired \subseteq session.seen]_vars

\* Every received input that is not blocked is claimed or removed in the end:
\* a wake that comes while the loop decides to stop is not lost.  A reception
\* that committed and was cut before its wake leaves its owner's inputs behind,
\* but only until that owner is woken again.  (A loop that dies, or a scan that
\* skips an owner, may leave work behind too, so the promise ends with the
\* first fault.)
EveryInputClaimed ==
    \A i \in Inputs :
        (i \in rows \ blocked) ~> \/ i \in blocked \cup expired
                                  \/ i \notin rows \/ i \in InProgress
                                  \/ OwnerOf[i] \in forsaken
                                  \/ budget.faults # MaxFaults
=============================================================================
