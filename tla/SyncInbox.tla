------------------------------ MODULE SyncInbox ------------------------------
(* The durable receive queue of im-core and the attempts that work it off:   *)
(* the tables sync_lane_inbox, sync_input_leases and the applied-event       *)
(* receipts of local_state/sync_inbox.rs and sync_baseline.rs, shared by     *)
(* every process that opens the same SQLite file, and the part of            *)
(* message_runtime/sync_dispatcher.rs that runs one claim to its end.        *)
(*                                                                           *)
(* A function of the code that runs in one Immediate transaction, or in one  *)
(* statement, is one action.  Times are the seconds both processes read from *)
(* the same clock.  A row's payload, and so its hash, never changes: an      *)
(* event that is redelivered is the same event.                              *)
EXTENDS Integers, FiniteSets, FiniteSetsExt

CONSTANTS
    Ordinary,      \* account events received through sync.delta or a snapshot
    NumBaselines,  \* local baseline markers, one per bootstrap or snapshot
    Secure,        \* P5 and P6 inputs
    OwnEcho,       \* the P6 inputs that echo this device's own group sends
    Scopes,        \* the processing_scope of a secure input
    Processes,     \* processes that share the database
    Tokens,        \* attempt tokens; their number bounds the attempts made
    NoToken,       \* attempt_token IS NULL
    Maintenance,   \* what a maintenance job works on instead of an input
    MaxActive,     \* MAX_ACTIVE_INPUTS
    MaxRecords,    \* MAX_INBOX_RECORDS
    ClaimSeconds,  \* CLAIM_SECONDS
    Retention,     \* RETENTION_SECONDS
    CleanupBatch,  \* SYNC_CLEANUP_BATCH_SIZE
    RetryDelay,    \* seconds until a failed attempt is due again
    MaxTime,       \* bound on the clock
    MaxBinding     \* bound on device authorisation changes

\* A baseline's id is fresh and its rowid grows with its insertion, so it is
\* named by the order in which it is received.
Baselines == 1 .. NumBaselines

Inputs == Ordinary \cup Baselines \cup Secure

ASSUME LaneAssumption ==
    /\ NumBaselines \in Nat
    /\ NoToken \notin Tokens /\ Maintenance \notin Inputs
    /\ Ordinary \cap Baselines = {} /\ Ordinary \cap Secure = {} /\ Baselines \cap Secure = {}
    /\ OwnEcho \subseteq Secure
    /\ IsFiniteSet(Inputs) /\ IsFiniteSet(Tokens)
ASSUME ScopeAssumption == Scopes \in [Secure -> Nat]
ASSUME BoundAssumption ==
    /\ MaxActive \in Nat \ {0} /\ MaxRecords \in Nat \ {0}
    /\ ClaimSeconds \in Nat \ {0} /\ Retention \in Nat \ {0}
    /\ CleanupBatch \in Nat \ {0} /\ RetryDelay \in Nat
    /\ MaxTime \in Nat /\ MaxBinding \in Nat

VARIABLES
    now,        \* the clock
    rows,       \* sync_lane_inbox: the retained inputs
    leases,     \* sync_input_leases: token -> deadline
    attempts,   \* the run_claim tasks of live processes, by token
    issued,     \* the tokens handed out so far
    binding,    \* device_auth_generation of the active account binding
    accepted,   \* own group sends whose accepted projection is stored
    applied,    \* how often each input's business effect was committed
    delivered,  \* inputs a committed receive transaction has covered
    removed,    \* inputs the retention or capacity limit removed
    discarded,  \* inputs whose attempt reported sync.input_discarded
    overtaken   \* baselines still waiting when a later input was projected

vars == <<now, rows, leases, attempts, issued, binding, accepted, applied,
          delivered, removed, discarded, overtaken>>
history == <<delivered, removed, discarded, overtaken>>

Never == -1  \* next_attempt_at IS NULL

\* What failure_code and retry_at make of an error: "retryable" codes have a
\* retry time, and so has "awaits_scope", which the scope's next success cuts
\* short; "blocked" is sync.processing_blocked, and "terminal" any other code
\* without a retry time, such as sync.processing_upgrade_required.
FailureCodes == {"retryable", "awaits_scope", "blocked", "terminal"}

NoRetry == {"blocked", "terminal"}

Codes == FailureCodes \cup {"none", "timeout"}

\* Where run_claim is: it races the work against the timer ("working"), keeps a
\* parked attempt or one it could not park alive, records a failure after
\* release_timeout did or did not change the row ("released", "superseded"),
\* looks at why that failed ("timed_out" if the error was the timeout), or has
\* reported it and still holds its lease ("reported").
Steps == {"working", "parked", "unparked", "released", "superseded", "stale", "timed_out", "reported"}

RowType ==
    [created : 0 .. MaxTime, next : Int, token : Tokens \cup {NoToken}, deadline : Int, code : Codes]
AttemptType ==
    [input : Inputs \cup {Maintenance}, process : Processes, gen : 0 .. MaxBinding,
     evicted : BOOLEAN, work : {"running", "ok", "err"}, step : Steps]

TypeOK ==
    /\ now \in 0 .. MaxTime
    /\ DOMAIN rows \subseteq Inputs
    /\ \A i \in DOMAIN rows : rows[i] \in RowType
    /\ \A i \in DOMAIN rows : rows[i].token = NoToken <=> rows[i].deadline = Never
    /\ DOMAIN leases \subseteq issued
    /\ issued \subseteq Tokens
    /\ DOMAIN attempts \subseteq issued
    /\ \A t \in DOMAIN attempts : attempts[t] \in AttemptType
    /\ binding \in 0 .. MaxBinding
    /\ accepted \subseteq OwnEcho
    /\ applied \in [Inputs -> Nat]
    /\ delivered \cup removed \cup discarded \subseteq Inputs
    /\ overtaken \subseteq Baselines

EmptyFunction == [x \in {} |-> x]

Init ==
    /\ now = 0
    /\ rows = EmptyFunction
    /\ leases = EmptyFunction
    /\ attempts = EmptyFunction
    /\ issued = {}
    /\ binding = 0
    /\ accepted = {}
    /\ applied = [i \in Inputs |-> 0]
    /\ delivered = {}
    /\ removed = {}
    /\ discarded = {}
    /\ overtaken = {}

Without(f, S) == [x \in DOMAIN f \ S |-> f[x]]

-----------------------------------------------------------------------------
(* Retention and capacity: delete_oldest, purge_expired, make_room.          *)

Expired(i) == rows[i].created <= now - Retention

ExpiredRows == {i \in DOMAIN rows : Expired(i)}

\* The sets of at most n rows of S that a scan by age may take first.
OldestOf(S, n) ==
    {T \in SUBSET S :
        /\ Cardinality(T) = Min({n, Cardinality(S)})
        /\ \A i \in T, j \in S \ T : rows[i].created <= rows[j].created}

\* Mutant: the page's last record is not counted.
ExcessOffByOne(kept, additional) == Cardinality(kept) + additional - 1 - MaxRecords

Excess(kept, additional) == Cardinality(kept) + additional - MaxRecords

\* The rows that may go to make room for a number of new ones.
MakeRoom(additional) ==
    UNION {LET kept == DOMAIN rows \ old
           IN  IF additional > 0 /\ Excess(kept, additional) > 0
               THEN {old \cup more : more \in OldestOf(kept, Excess(kept, additional))}
               ELSE {old} : old \in OldestOf(ExpiredRows, CleanupBatch)}

\* An attempt whose row is taken away is marked, for the properties.
Evict(gone) ==
    attempts' = [t \in DOMAIN attempts |->
                    [attempts[t] EXCEPT !.evicted = @ \/ attempts[t].input \in gone]]

PurgeExpired ==
    /\ ExpiredRows # {}
    /\ \E gone \in OldestOf(ExpiredRows, CleanupBatch) :
        /\ rows' = Without(rows, gone)
        /\ removed' = removed \cup gone
        /\ Evict(gone)
    /\ UNCHANGED <<now, leases, issued, binding, accepted, applied, delivered, discarded, overtaken>>

-----------------------------------------------------------------------------
(* Reception: receive_ordinary, the secure lanes' receive and                *)
(* insert_baseline_and_events.  The cursor moves in the same transaction.    *)

\* Mutant: only retained rows are looked at, not the applied-event receipts.
IsDuplicateOfRow(i) == i \in DOMAIN rows

IsDuplicate(i) == i \in DOMAIN rows \/ applied[i] > 0

NewRow == [created |-> now, next |-> 0, token |-> NoToken, deadline |-> Never, code |-> "none"]

Receive(batch) ==
    LET fresh == {i \in batch : ~IsDuplicate(i)}
    IN  /\ Cardinality(fresh) <= MaxRecords
        /\ \E gone \in MakeRoom(Cardinality(fresh)) :
            /\ rows' = [i \in (DOMAIN rows \ gone) \cup fresh |->
                            IF i \in fresh THEN NewRow ELSE rows[i]]
            /\ removed' = (removed \cup gone) \ fresh
            /\ Evict(gone)
        /\ delivered' = delivered \cup batch
        /\ discarded' = discarded \ fresh
        /\ UNCHANGED <<now, leases, issued, binding, accepted, applied, overtaken>>

\* The account stream: a snapshot may deliver an event a second time.
ReceiveOrdinary == \E batch \in SUBSET Ordinary \ {{}} : Receive(batch)

\* commit_sync_lane_handoff, one input at a time.  It looks for a retained row
\* only and takes a page that ends at the cursor it has.  That an input is not
\* handed over again once its row is gone is the doing of the page validation,
\* which wants every event behind the cursor the run has read: a page that a
\* second process fetched before the first one's commit is left out.
ReceiveSecure ==
    \E s \in Secure :
        /\ s \in DOMAIN rows \/ s \notin delivered
        /\ Receive({s})

ReceiveBaseline ==
    \E b \in Baselines, events \in SUBSET Ordinary :
        /\ Baselines \cap delivered = 1 .. b - 1
        /\ Receive(events \cup {b})

-----------------------------------------------------------------------------
(* Claims and leases.                                                        *)

LiveLeasesAt(time) == {t \in DOMAIN leases : leases[t] > time}

LiveLeases == LiveLeasesAt(now)

Leased(t) == t \in LiveLeases

\* The own group deliveries an older client blocked, once their send is stored:
\* that one code only.
Requeued(i) ==
    /\ i \in OwnEcho \cap accepted
    /\ rows[i].code = "blocked"
    /\ rows[i].token = NoToken
    /\ rows[i].next = Never

DueNow(row, code) == [row EXCEPT !.next = now, !.code = code]

RowAtClaim(i) == IF Requeued(i) THEN DueNow(rows[i], "retryable") ELSE rows[i]

BaselineWaits(i) ==
    \E b \in Baselines \cap DOMAIN rows :
        /\ ~Expired(b)
        /\ i \in Ordinary \/ (i \in Baselines /\ b < i)

\* Mutant: a parked row is not due when its worker's lease is gone.
DueAtIfScheduled(i, time) == RowAtClaim(i).next # Never /\ RowAtClaim(i).next <= time

DueAt(i, time) ==
    LET row == RowAtClaim(i)
    IN  \/ row.next # Never /\ row.next <= time
        \/ row.code = "timeout" /\ row.token # NoToken /\ row.token \notin LiveLeasesAt(time)

ClaimFreeAt(i, time) ==
    \/ rows[i].token = NoToken
    \/ rows[i].deadline <= time
    \/ rows[i].token \notin LiveLeasesAt(time)

Due ==
    {i \in DOMAIN rows :
        ~Expired(i) /\ DueAt(i, now) /\ ClaimFreeAt(i, now) /\ ~BaselineWaits(i)}

Jobs(p) == {t \in DOMAIN attempts : attempts[t].process = p}

\* Mutant: only this process's own jobs count against the budget.
ClaimLimitOfProcess(p) == MaxActive - Cardinality(Jobs(p))

ClaimLimit(p) == Min({MaxActive - Cardinality(Jobs(p)), MaxActive - Cardinality(LiveLeases)})

Attempt(p, input) ==
    [input |-> input, process |-> p, gen |-> binding, evicted |-> FALSE,
     work |-> "running", step |-> "working"]

Fresh == Tokens \ issued

NewLease == now + ClaimSeconds

Claimed(row, token) ==
    [row EXCEPT !.token = token, !.deadline = NewLease, !.code = "none",
                !.next = IF @ = Never THEN now ELSE @]

\* The order in which the due rows are taken is left open; their number is not.
ClaimInputs(p) ==
    /\ ClaimLimit(p) > 0
    /\ \E chosen \in SUBSET Due, ts \in SUBSET Fresh :
        /\ Cardinality(chosen) = Min({ClaimLimit(p), Cardinality(Due)})
        /\ Cardinality(ts) = Cardinality(chosen)
        /\ \E tokenOf \in [chosen -> ts] :
            /\ \A t \in ts : \E i \in chosen : tokenOf[i] = t
            /\ rows' = [i \in DOMAIN rows |->
                            IF i \in chosen THEN Claimed(RowAtClaim(i), tokenOf[i])
                            ELSE RowAtClaim(i)]
            /\ leases' = [t \in LiveLeases \cup ts |-> IF t \in ts THEN NewLease ELSE leases[t]]
            /\ attempts' = [t \in DOMAIN attempts \cup ts |->
                                IF t \in ts
                                THEN Attempt(p, CHOOSE i \in chosen : tokenOf[i] = t)
                                ELSE attempts[t]]
            /\ issued' = issued \cup ts
    /\ UNCHANGED <<now, binding, accepted, applied, history>>

ReserveProcessingSlot(p) ==
    /\ Cardinality(Jobs(p)) < MaxActive
    /\ Cardinality(LiveLeases) < MaxActive
    /\ \E t \in Fresh :
        /\ leases' = [u \in LiveLeases \cup {t} |-> IF u = t THEN NewLease ELSE leases[u]]
        /\ attempts' = [u \in DOMAIN attempts \cup {t} |->
                            IF u = t THEN Attempt(p, Maintenance) ELSE attempts[u]]
        /\ issued' = issued \cup {t}
    /\ UNCHANGED <<now, rows, binding, accepted, applied, history>>

\* Mutant: the lease is renewed, the row's own deadline is not.
RenewLeasesOnly(p) ==
    /\ Jobs(p) # {}
    /\ leases' = [t \in DOMAIN leases |-> IF t \in Jobs(p) THEN NewLease ELSE leases[t]]
    /\ UNCHANGED <<now, rows, attempts, issued, binding, accepted, applied, history>>

\* The maintenance tick of one process renews what its jobs hold.
RenewClaims(p) ==
    /\ Jobs(p) # {}
    /\ leases' = [t \in DOMAIN leases |-> IF t \in Jobs(p) THEN NewLease ELSE leases[t]]
    /\ rows' = [i \in DOMAIN rows |->
                    IF rows[i].token \in Jobs(p)
                    THEN [rows[i] EXCEPT !.deadline = NewLease] ELSE rows[i]]
    /\ UNCHANGED <<now, attempts, issued, binding, accepted, applied, history>>

-----------------------------------------------------------------------------
(* One attempt: run_claim, its work future and what it writes.               *)

Holds(t) == attempts[t].input \in DOMAIN rows /\ rows[attempts[t].input].token = t

\* Mutant: a parked row still counts as claimed.
RequireClaimEvenIfParked(t) ==
    /\ Holds(t)
    /\ Leased(t)
    /\ rows[attempts[t].input].deadline > now
    /\ attempts[t].gen = binding

RequireClaim(t) ==
    /\ Holds(t)
    /\ Leased(t)
    /\ rows[attempts[t].input].deadline > now
    /\ rows[attempts[t].input].code # "timeout"
    /\ attempts[t].gen = binding

\* Completing a secure input wakes those of its scope that wait for a session.
Woken(i, done) ==
    /\ i \in Secure /\ done \in Secure
    /\ Scopes[i] = Scopes[done]
    /\ rows[i].token = NoToken
    /\ rows[i].code = "awaits_scope"

\* Mutant: the baseline is looked at when the input is claimed, not at commit.
MayProjectOnceClaimed(i) == TRUE

\* An ordinary input that was claimed before a baseline arrived waits for it.
MayProject(i) == i \in Ordinary => \A b \in Baselines \cap DOMAIN rows : Expired(b)

\* require_claim, the domain effect and complete_claim, in one transaction.
ApplyClaim(t) ==
    LET i == attempts[t].input
    IN  /\ attempts[t].work = "running"
        /\ RequireClaim(t)
        /\ MayProject(i)
        /\ applied' = [applied EXCEPT ![i] = @ + 1]
        /\ rows' = [j \in DOMAIN rows \ {i} |->
                        IF Woken(j, i) THEN [rows[j] EXCEPT !.next = now] ELSE rows[j]]
        /\ attempts' = [attempts EXCEPT ![t].work = "ok"]
        /\ overtaken' = overtaken \cup {b \in Baselines \cap DOMAIN rows :
                                        i \in Ordinary \/ (i \in Baselines /\ b < i)}
        /\ UNCHANGED <<now, leases, issued, binding, accepted, delivered, removed, discarded>>

\* The work returns an error: its own, or require_claim's or the baseline's.
WorkFails(t) ==
    /\ attempts[t].input # Maintenance
    /\ attempts[t].work = "running"
    /\ attempts' = [attempts EXCEPT ![t].work = "err"]
    /\ UNCHANGED <<now, rows, leases, issued, binding, accepted, applied, history>>

Parked(row) == [row EXCEPT !.next = Never, !.code = "timeout", !.deadline = NewLease]

\* The timer fires.  The row may be gone, or the statement may fail.
ParkTimeout(t) ==
    /\ attempts[t].input # Maintenance
    /\ attempts[t].step = "working"
    /\ \/ /\ Holds(t)
          /\ rows' = [rows EXCEPT ![attempts[t].input] = Parked(@)]
          /\ attempts' = [attempts EXCEPT ![t].step = "parked"]
       \/ /\ attempts' = [attempts EXCEPT ![t].step = "unparked"]
          /\ UNCHANGED rows
    /\ UNCHANGED <<now, leases, issued, binding, accepted, applied, history>>

Released(row) ==
    [row EXCEPT !.token = NoToken, !.deadline = Never, !.next = now + RetryDelay]

\* The parked call has ended, whatever its result.
ReleaseTimeout(t) ==
    /\ attempts[t].step = "parked"
    /\ attempts[t].work # "running"
    /\ \/ /\ Holds(t)
          /\ rows[attempts[t].input].code = "timeout"
          /\ rows' = [rows EXCEPT ![attempts[t].input] = Released(@)]
          /\ attempts' = [attempts EXCEPT ![t].step = "released"]
       \/ /\ attempts' = [attempts EXCEPT ![t].step = "superseded"]
          /\ UNCHANGED rows
    /\ UNCHANGED <<now, leases, issued, binding, accepted, applied, history>>

Finished(t) == attempts[t].work # "running" /\ attempts[t].step \in {"working", "unparked"}

Failed(t) ==
    \/ attempts[t].step \in {"released", "superseded"}
    \/ Finished(t) /\ attempts[t].work = "err"

Unclaimed(row, code) ==
    [row EXCEPT !.token = NoToken, !.deadline = Never, !.code = code,
                !.next = IF code \in NoRetry THEN Never ELSE now + RetryDelay]

\* Mutant: an input that cannot be retried is deleted.
FailClaimDroppingBlocked(t, code) ==
    /\ Failed(t)
    /\ RequireClaim(t)
    /\ rows' = IF code \in NoRetry THEN Without(rows, {attempts[t].input})
               ELSE [rows EXCEPT ![attempts[t].input] = Unclaimed(@, code)]
    /\ leases' = Without(leases, {t})
    /\ attempts' = Without(attempts, {t})
    /\ UNCHANGED <<now, issued, binding, accepted, applied, history>>

FailClaim(t, code) ==
    /\ Failed(t)
    /\ RequireClaim(t)
    /\ rows' = [rows EXCEPT ![attempts[t].input] = Unclaimed(@, code)]
    /\ leases' = Without(leases, {t})
    /\ attempts' = Without(attempts, {t})
    /\ UNCHANGED <<now, issued, binding, accepted, applied, history>>

\* fail_claim is refused by require_claim, or its transaction fails.
FailClaimRefused(t) ==
    /\ Failed(t)
    /\ attempts' = [attempts EXCEPT ![t].step = IF @ = "released" THEN "timed_out" ELSE "stale"]
    /\ UNCHANGED <<now, rows, leases, issued, binding, accepted, applied, history>>

\* Mutant: a missing row alone is taken for a discarded input.
WasCompletedUnknown(i) == FALSE

WasCompleted(i) == applied[i] > 0

\* An attempt that could not record its failure reports its input discarded if
\* that is neither retained nor completed, by one query whose answer it
\* publishes.  A query that fails counts as retained.
ReportStale(t) ==
    LET i == attempts[t].input
    IN  /\ attempts[t].step \in {"stale", "timed_out"}
        /\ \/ /\ i \notin DOMAIN rows /\ ~WasCompleted(i)
              /\ attempts[t].step = "stale"
              /\ discarded' = discarded \cup {i}
           \/ UNCHANGED discarded
        /\ attempts' = [attempts EXCEPT ![t].step = "reported"]
        /\ UNCHANGED <<now, rows, leases, issued, binding, accepted, applied, delivered, removed, overtaken>>

\* A successful attempt, one that has reported, or a maintenance job gives its
\* slot back.
ReleaseLease(t) ==
    /\ \/ attempts[t].input = Maintenance
       \/ Finished(t) /\ attempts[t].work = "ok"
       \/ attempts[t].step = "reported"
    /\ leases' = Without(leases, {t})
    /\ attempts' = Without(attempts, {t})
    /\ UNCHANGED <<now, rows, issued, binding, accepted, applied, history>>

\* A task that panics, or a process that exits, releases nothing.
AttemptDies(t) ==
    /\ attempts' = Without(attempts, {t})
    /\ UNCHANGED <<now, rows, leases, issued, binding, accepted, applied, history>>

-----------------------------------------------------------------------------
(* The environment.                                                          *)

RetryEvent(i) ==
    /\ rows[i].token = NoToken
    /\ ~Expired(i)
    /\ rows' = [rows EXCEPT ![i] = DueNow(@, "none")]
    /\ UNCHANGED <<now, leases, attempts, issued, binding, accepted, applied, history>>

\* upsert_identity_account_binding: the generation never goes back.
Rebind ==
    /\ binding < MaxBinding
    /\ binding' = binding + 1
    /\ UNCHANGED <<now, rows, leases, attempts, issued, accepted, applied, history>>

\* The send path stores the accepted projection of an own group message.
AcceptSend(i) ==
    /\ accepted' = accepted \cup {i}
    /\ UNCHANGED <<now, rows, leases, attempts, issued, binding, applied, history>>

Tick ==
    /\ now < MaxTime
    /\ now' = now + 1
    /\ UNCHANGED <<rows, leases, attempts, issued, binding, accepted, applied, history>>

Next ==
    \/ ReceiveOrdinary \/ ReceiveSecure \/ ReceiveBaseline
    \/ PurgeExpired
    \/ \E p \in Processes : ClaimInputs(p) \/ ReserveProcessingSlot(p) \/ RenewClaims(p)
    \/ \E t \in DOMAIN attempts :
        \/ ApplyClaim(t) \/ WorkFails(t)
        \/ ParkTimeout(t) \/ ReleaseTimeout(t)
        \/ \E code \in FailureCodes : FailClaim(t, code)
        \/ FailClaimRefused(t) \/ ReportStale(t)
        \/ ReleaseLease(t) \/ AttemptDies(t)
    \/ \E i \in DOMAIN rows : RetryEvent(i)
    \/ \E i \in OwnEcho \ accepted : AcceptSend(i)
    \/ Rebind
    \/ Tick

Spec == Init /\ [][Next]_vars

-----------------------------------------------------------------------------
(* Properties.                                                               *)

\* The processes together never hold more leases than MAX_ACTIVE_INPUTS.
LeasesBounded == Cardinality(DOMAIN leases) <= MaxActive

\* The inbox never holds more records than its capacity, whoever inserts them and
\* whatever has not been purged yet (with the type invariant).
InboxBounded ==
    /\ TypeOK
    /\ Cardinality(DOMAIN rows) <= MaxRecords

\* An input whose receive transaction committed is retained, applied or was
\* removed by the retention or capacity limit: no claim, failure, timeout,
\* crash or redelivery makes one disappear.
NothingLost ==
    delivered \subseteq DOMAIN rows \cup {i \in Inputs : applied[i] > 0} \cup removed

\* Whatever attempts overlap, die or come late, and however often an event is
\* redelivered, its effect is committed once.
AppliedAtMostOnce == \A i \in Inputs : applied[i] <= 1

\* Two running attempts on the same input never both hold a live lease, unless
\* the row of one of them was evicted: "a timeout alone never authorizes a
\* replacement worker".
OneLeasedWorker ==
    \A t, u \in DOMAIN attempts :
        (/\ t # u /\ attempts[t].input = attempts[u].input
         /\ attempts[t].input # Maintenance
         /\ attempts[t].work = "running" /\ attempts[u].work = "running"
         /\ Leased(t) /\ Leased(u))
            => attempts[t].evicted \/ attempts[u].evicted

\* An attempt that was parked for exceeding its time never commits afterwards.
ParkedNeverApplies == \A t \in DOMAIN attempts : attempts[t].step = "parked" => attempts[t].work # "ok"

\* An input that some attempt finished is not reported as discarded by another.
NoFalseDiscard == \A i \in discarded : applied[i] = 0

\* Whatever its attempts did and wherever they died, an input is due again and
\* free to claim once enough time has passed, unless an attempt recorded an error
\* that has no retry time: such a row waits for retry_event, and only the echo of
\* a send that has been stored, blocked with sync.processing_blocked, is not
\* left waiting.
Horizon == MaxTime + ClaimSeconds + RetryDelay
NoRowStranded ==
    \A i \in DOMAIN rows :
        \/ rows[i].code = "terminal"
        \/ rows[i].code = "blocked" /\ i \notin OwnEcho \cap accepted
        \/ (DueAt(i, Horizon) /\ ClaimFreeAt(i, Horizon))

\* No baseline replaces the projection after an ordinary event, or a baseline
\* received later, was applied while it was still waiting: "ordinary projection
\* awaits local baseline replacement" (apply_ordinary_claim_with).
BaselineNotOvertaken == \A b \in Baselines : applied[b] > 0 => b \notin overtaken
=============================================================================
