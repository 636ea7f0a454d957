----------------------------- MODULE SyncReceive -----------------------------
(* One receive run of message_runtime/sync_v2.rs for one owner, in several   *)
(* processes that share the database: the receive lock, the run generation,  *)
(* the account binding, the cursor of the ordinary stream and the recovery   *)
(* row of local_state/sync_v2.rs, and the transactions of sync_inbox.rs and  *)
(* sync_baseline.rs that move the cursor.                                    *)
(*                                                                           *)
(* A run is a future that awaits the network and the database actor.  When   *)
(* it is dropped its lock is free at once, but the transaction it waited for *)
(* may still be queued in the actor: such a run is "not live" and can do     *)
(* nothing but that one transaction.                                         *)
(*                                                                           *)
(* The ids of recovery tokens are left out: two recoveries from the same     *)
(* cursor to the same anchor are the same to the fences of this module.      *)
EXTENDS Integers

CONSTANTS
    Processes,   \* processes (or cores) that share the database
    NoProcess,   \* the receive lock is free
    MaxSeq,      \* bound on positions of one stream epoch
    MaxEpoch,    \* bound on stream epochs
    MaxAuth,     \* bound on device authorisation generations
    MaxRuns      \* bound on run generations

ASSUME ProcessAssumption == NoProcess \notin Processes
ASSUME BoundAssumption ==
    MaxSeq \in Nat /\ MaxEpoch \in Nat \ {0} /\ MaxAuth \in Nat \ {0} /\ MaxRuns \in Nat

VARIABLES
    lock,      \* the receive lock file of the owner
    gen,       \* message_sync_run_state.run_generation
    pending,   \* message_sync_run_state.sync_pending
    binding,   \* device_auth_generation of the account binding
    cursor,    \* message_sync_state
    recovery,  \* sync_recovery_state
    run,       \* the receive run of each process
    server,    \* the stream at the service: its epoch, its tail, what it retains
    covered,   \* positions the local state accounts for
    settled    \* newest generation of a run whose own result leaves nothing to do

vars == <<lock, gen, pending, binding, cursor, recovery, run, server, covered, settled>>

Epochs == 1 .. MaxEpoch
Seqs == 0 .. MaxSeq
Auths == 1 .. MaxAuth
Gens == 0 .. MaxRuns

NoCursor == [auth |-> 0, epoch |-> 0, seq |-> 0]
Cursors == [auth : Auths, epoch : Epochs, seq : Seqs]

NoRecovery == [epoch |-> 0, seq |-> 0, anchor |-> 0, status |-> "none"]
Recoveries ==
    [epoch : Epochs, seq : Seqs, anchor : Seqs,
     status : {"downloading", "applying", "retryable", "completed"}]

Steps ==
    {"idle", "lock", "begin", "bind", "load", "bootstrap", "tail", "recover", "download",
     "snapshot", "delta", "page", "finish"}

\* A run: the client's authorisation, its generation, the cursor it works from,
\* the position the service answered with, and whether that answer was the last
\* page, the device refresh and the recovery token's retry were used, whether
\* the recovery came from bootstrap, and what its result leaves to do.
Idle ==
    [pc |-> "idle", live |-> TRUE, auth |-> 1, gen |-> 0, epoch |-> 0, seq |-> 0,
     toEpoch |-> 0, toSeq |-> 0, last |-> FALSE, refreshed |-> FALSE, retried |-> FALSE,
     first |-> FALSE, left |-> TRUE]

Runs ==
    [pc : Steps, live : BOOLEAN, auth : Auths, gen : Gens, epoch : 0 .. MaxEpoch, seq : Seqs,
     toEpoch : 0 .. MaxEpoch, toSeq : Seqs, last : BOOLEAN, refreshed : BOOLEAN,
     retried : BOOLEAN, first : BOOLEAN, left : BOOLEAN]

TypeOK ==
    /\ lock \in Processes \cup {NoProcess}
    /\ gen \in Gens
    /\ pending \in BOOLEAN
    /\ binding \in Auths
    /\ cursor \in Cursors \cup {NoCursor}
    /\ recovery \in Recoveries \cup {NoRecovery}
    /\ run \in [Processes -> Runs]
    /\ server \in [epoch : Epochs, tail : Seqs, floor : Seqs]
    /\ covered \subseteq Epochs \X Seqs
    /\ settled \in Gens

Init ==
    /\ lock = NoProcess
    /\ gen = 0
    /\ pending = FALSE
    /\ binding = 1
    /\ cursor = NoCursor
    /\ recovery = NoRecovery
    /\ run = [p \in Processes |-> Idle]
    /\ server = [epoch |-> 1, tail |-> 0, floor |-> 0]
    /\ covered = {}
    /\ settled = 0

-----------------------------------------------------------------------------
At(p, pc) == run[p].pc = pc

Live(p, pc) == At(p, pc) /\ run[p].live

\* The future goes on with r; a dropped one has nothing left to do.
Continue(p, r) == run' = [run EXCEPT ![p] = IF run[p].live THEN r ELSE Idle]

\* receive_run has its result and goes on to finish_message_sync_run.
Ends(p, left) ==
    /\ Continue(p, [Idle EXCEPT !.pc = "finish", !.gen = run[p].gen, !.left = left])
    /\ settled' = IF run[p].live /\ ~left /\ run[p].gen > settled THEN run[p].gen ELSE settled

\* The loop of sync_now_once asks for the next delta after a cursor.
NextDelta(p, epoch, seq) ==
    [run[p] EXCEPT !.pc = "delta", !.epoch = epoch, !.seq = seq, !.toEpoch = 0, !.toSeq = 0,
                   !.last = FALSE, !.first = FALSE]

\* An error ends the run and leaves work when it is retryable; the first time
\* that the service rejects the device, receive_run refreshes and starts over.
Fail(p) ==
    \/ \E left \in BOOLEAN : Ends(p, left)
    \/ /\ ~run[p].refreshed
       /\ Continue(p, [Idle EXCEPT !.pc = "bind", !.auth = run[p].auth, !.gen = run[p].gen,
                                   !.refreshed = TRUE])
       /\ UNCHANGED settled

-----------------------------------------------------------------------------
(* The start and the end of a run.                                           *)

\* A host's client holds some authorisation; active_sync_account_binding stores
\* it, and refuses one that is older than the stored one.
StartRun(p, auth) ==
    /\ At(p, "idle")
    /\ auth >= binding
    /\ binding' = auth
    /\ run' = [run EXCEPT ![p] = [Idle EXCEPT !.pc = "lock", !.auth = auth]]
    /\ UNCHANGED <<lock, gen, pending, cursor, recovery, server, covered, settled>>

AcquireLock(p) ==
    /\ Live(p, "lock")
    /\ lock = NoProcess
    /\ lock' = p
    /\ run' = [run EXCEPT ![p].pc = "begin"]
    /\ UNCHANGED <<gen, pending, binding, cursor, recovery, server, covered, settled>>

\* SYNC_RECEIVE_BUSY.
LockTimeout(p) ==
    /\ Live(p, "lock")
    /\ run' = [run EXCEPT ![p] = Idle]
    /\ UNCHANGED <<lock, gen, pending, binding, cursor, recovery, server, covered, settled>>

BeginRun(p) ==
    /\ At(p, "begin")
    /\ gen < MaxRuns
    /\ gen' = gen + 1
    /\ pending' = TRUE
    /\ Continue(p, [run[p] EXCEPT !.pc = "bind", !.gen = gen + 1])
    /\ UNCHANGED <<lock, binding, cursor, recovery, server, covered, settled>>

\* Mutant: any run's result is stored.
IsCurrentUnchecked(p) == TRUE

IsCurrent(p) == run[p].gen = gen

\* finish_message_sync_run; the lock file closes when receive_run returns.
FinishRun(p) ==
    /\ At(p, "finish")
    /\ pending' = IF IsCurrent(p) THEN run[p].left ELSE pending
    /\ run' = [run EXCEPT ![p] = Idle]
    /\ lock' = IF lock = p THEN NoProcess ELSE lock
    /\ UNCHANGED <<gen, binding, cursor, recovery, server, covered, settled>>

Working(p) == run[p].live /\ run[p].pc \notin {"idle", "lock", "begin", "finish"}

\* The run's deadline: "sync.budget_exhausted".
Deadline(p) ==
    /\ Working(p)
    /\ Ends(p, TRUE)
    /\ UNCHANGED <<lock, gen, pending, binding, cursor, recovery, server, covered>>

\* The future is dropped while a transaction of its own is queued.
Drop(p) ==
    /\ run[p].live /\ run[p].pc \notin {"idle", "lock"}
    /\ run' = [run EXCEPT ![p].live = FALSE]
    /\ lock' = NoProcess
    /\ UNCHANGED <<gen, pending, binding, cursor, recovery, server, covered, settled>>

\* The process exits, or the dropped future had nothing queued.
Die(p) ==
    /\ ~At(p, "idle")
    /\ run' = [run EXCEPT ![p] = Idle]
    /\ lock' = IF lock = p THEN NoProcess ELSE lock
    /\ UNCHANGED <<gen, pending, binding, cursor, recovery, server, covered, settled>>

-----------------------------------------------------------------------------
(* sync_now_once: the binding, the stored cursor, bootstrap.                 *)

Bind(p) ==
    /\ At(p, "bind")
    /\ \/ /\ run[p].auth >= binding
          /\ binding' = run[p].auth
          /\ Continue(p, [run[p] EXCEPT !.pc = "load"])
          /\ UNCHANGED settled
       \/ /\ run[p].auth < binding
          /\ UNCHANGED binding
          /\ \E left \in BOOLEAN : Ends(p, left)
    /\ UNCHANGED <<lock, gen, pending, cursor, recovery, server, covered>>

Ready == cursor # NoCursor /\ cursor.auth = binding

\* load_message_sync_state.
Load(p) ==
    /\ Live(p, "load")
    /\ run' = [run EXCEPT ![p] = IF Ready THEN NextDelta(p, cursor.epoch, cursor.seq)
                                ELSE [@ EXCEPT !.pc = "bootstrap"]]
    /\ UNCHANGED <<lock, gen, pending, binding, cursor, recovery, server, covered, settled>>

\* sync.bootstrap answers with the tail, or asks for a compact recovery; the
\* latter starts from an invented cursor at position 0.
RequestBootstrap(p) ==
    /\ Live(p, "bootstrap")
    /\ \/ /\ run' = [run EXCEPT ![p].pc = "tail", ![p].toEpoch = server.epoch,
                                ![p].toSeq = server.tail]
          /\ UNCHANGED binding
       \/ /\ run[p].auth >= binding
          /\ binding' = run[p].auth
          /\ run' = [run EXCEPT ![p].pc = "recover", ![p].first = TRUE,
                                ![p].epoch = server.epoch, ![p].seq = 0,
                                ![p].toEpoch = server.epoch, ![p].toSeq = server.tail]
    /\ UNCHANGED <<lock, gen, pending, cursor, recovery, server, covered, settled>>

\* Mutant: the new tail is taken although events of this epoch were received.
TailPositionDropped(p) == run[p].toSeq

\* retain_bootstrap_receive_position.
TailPosition(p) ==
    IF cursor # NoCursor /\ cursor.auth < run[p].auth /\ cursor.epoch = run[p].toEpoch
    THEN cursor.seq ELSE run[p].toSeq

\* What lies before a first bootstrap's tail is history; later, nothing is.
History(epoch, seq) == IF cursor.epoch = epoch THEN {} ELSE {epoch} \X (1 .. seq)

\* complete_active_recovery.
Completed(r, anchor) ==
    IF r.status \in {"downloading", "applying", "retryable"}
    THEN [r EXCEPT !.status = "completed", !.anchor = anchor] ELSE r

BootstrapFence(p) == IsCurrent(p) /\ run[p].auth >= binding

\* receive_bootstrap.
ApplyBootstrap(p) ==
    /\ At(p, "tail")
    /\ BootstrapFence(p)
    /\ binding' = run[p].auth
    /\ cursor' = [auth |-> run[p].auth, epoch |-> run[p].toEpoch, seq |-> TailPosition(p)]
    /\ covered' = covered \cup History(run[p].toEpoch, run[p].toSeq)
    /\ recovery' = Completed(recovery, TailPosition(p))
    /\ Continue(p, NextDelta(p, run[p].toEpoch, TailPosition(p)))
    /\ UNCHANGED <<lock, gen, pending, server, settled>>

-----------------------------------------------------------------------------
(* Delta pages.                                                              *)

NeedsRecovery(p) == run[p].epoch # server.epoch \/ run[p].seq < server.floor

\* A page of events after the cursor, or the demand for a compact recovery.
RequestDelta(p) ==
    /\ Live(p, "delta")
    /\ \/ /\ ~NeedsRecovery(p)
          /\ \E next \in run[p].seq .. server.tail :
                /\ next > run[p].seq \/ next = server.tail
                /\ run' = [run EXCEPT ![p].pc = "page", ![p].toEpoch = server.epoch,
                                      ![p].toSeq = next, ![p].last = next = server.tail]
       \/ /\ NeedsRecovery(p)
          /\ run' = [run EXCEPT ![p].pc = "recover", ![p].first = FALSE,
                                ![p].toEpoch = server.epoch, ![p].toSeq = server.tail]
    /\ UNCHANGED <<lock, gen, pending, binding, cursor, recovery, server, covered, settled>>

\* A request, a page's validation or its hydration fails.
RequestFails(p) ==
    /\ Live(p, "delta") \/ Live(p, "bootstrap") \/ Live(p, "page")
    /\ Fail(p)
    /\ UNCHANGED <<lock, gen, pending, binding, cursor, recovery, server, covered>>

CursorUnmoved(p) == Ready /\ cursor.epoch = run[p].epoch /\ cursor.seq = run[p].seq

\* Mutant: only the binding is checked, neither the run nor the position.
PageFenceOfBinding(p) == run[p].auth = binding /\ Ready

PageFence(p) ==
    IsCurrent(p) /\ run[p].auth = binding /\ CursorUnmoved(p) /\ run[p].toSeq >= cursor.seq

\* receive_ordinary, and what the loop of sync_now_once does next: it is done,
\* there is more (in this stream or in a secure lane), or its budget is used up.
CommitPage(p) ==
    /\ At(p, "page")
    /\ PageFence(p)
    /\ cursor' = [cursor EXCEPT !.seq = run[p].toSeq]
    /\ covered' = covered \cup ({run[p].epoch} \X (run[p].seq + 1 .. run[p].toSeq))
    /\ \/ run[p].last /\ Ends(p, FALSE)
       \/ Continue(p, NextDelta(p, run[p].epoch, run[p].toSeq)) /\ UNCHANGED settled
       \/ Ends(p, TRUE)
    /\ UNCHANGED <<lock, gen, pending, binding, recovery, server>>

-----------------------------------------------------------------------------
(* Compact recovery.                                                         *)

RecoveryRow(p, status) ==
    [epoch |-> run[p].epoch, seq |-> run[p].seq, anchor |-> run[p].toSeq, status |-> status]

BeginRecovery(p) ==
    /\ At(p, "recover")
    /\ recovery' = RecoveryRow(p, "downloading")
    /\ Continue(p, [run[p] EXCEPT !.pc = "download"])
    /\ UNCHANGED <<lock, gen, pending, binding, cursor, server, covered, settled>>

\* Every page has arrived and the package is valid.
Downloaded(p) ==
    /\ At(p, "download")
    /\ recovery' = RecoveryRow(p, "applying")
    /\ Continue(p, [run[p] EXCEPT !.pc = "snapshot"])
    /\ UNCHANGED <<lock, gen, pending, binding, cursor, server, covered, settled>>

\* validate_snapshot_receive.
CursorAsExpected(p) ==
    IF cursor = NoCursor THEN run[p].first /\ run[p].seq = 0
    ELSE cursor.epoch = run[p].epoch /\ cursor.seq = run[p].seq

SnapshotFence(p) ==
    /\ IsCurrent(p)
    /\ run[p].auth = binding
    /\ CursorAsExpected(p)
    /\ recovery = RecoveryRow(p, "applying")

\* receive_snapshot: the baseline stands for everything up to its anchor.
CommitSnapshot(p) ==
    /\ At(p, "snapshot")
    /\ SnapshotFence(p)
    /\ cursor' = [auth |-> run[p].auth, epoch |-> run[p].toEpoch, seq |-> run[p].toSeq]
    /\ covered' = covered \cup ({run[p].toEpoch} \X (1 .. run[p].toSeq))
    /\ recovery' = Completed(recovery, run[p].toSeq)
    /\ Continue(p, [NextDelta(p, run[p].toEpoch, run[p].toSeq) EXCEPT !.retried = FALSE])
    /\ UNCHANGED <<lock, gen, pending, binding, server, settled>>

\* The download fails, or the transaction is refused: after a delta the failure
\* is stored, and a bad recovery token allows one more delta request.
RecoveryFails(p) ==
    /\ At(p, "download") \/ (At(p, "snapshot") /\ ~SnapshotFence(p))
    /\ recovery' = IF run[p].first THEN recovery
                   ELSE [RecoveryRow(p, "retryable") EXCEPT !.anchor = recovery.anchor]
    /\ \/ Fail(p)
       \/ /\ At(p, "download") /\ ~run[p].first /\ ~run[p].retried
          /\ Continue(p, [NextDelta(p, run[p].epoch, run[p].seq) EXCEPT !.retried = TRUE])
          /\ UNCHANGED settled
    /\ UNCHANGED <<lock, gen, pending, binding, cursor, server, covered>>

\* A transaction that its fence refuses changes nothing and ends the run.
Refused(p) ==
    /\ \/ At(p, "tail") /\ ~BootstrapFence(p)
       \/ At(p, "page") /\ ~PageFence(p)
    /\ \E left \in BOOLEAN : Ends(p, left)
    /\ UNCHANGED <<lock, gen, pending, binding, cursor, recovery, server, covered>>

\* recover_interrupted_work: any process that opens the database marks the
\* recoveries in progress, its own or not.
OpenDatabase ==
    /\ recovery.status \in {"downloading", "applying"}
    /\ recovery' = [recovery EXCEPT !.status = "retryable"]
    /\ UNCHANGED <<lock, gen, pending, binding, cursor, run, server, covered, settled>>

-----------------------------------------------------------------------------
(* The service.                                                              *)

ServerStep ==
    /\ \/ server.tail < MaxSeq /\ server' = [server EXCEPT !.tail = @ + 1]
       \/ server.floor < server.tail /\ server' = [server EXCEPT !.floor = server.tail]
       \/ server.epoch < MaxEpoch
          /\ server' = [server EXCEPT !.epoch = @ + 1, !.tail = 0, !.floor = 0]
    /\ UNCHANGED <<lock, gen, pending, binding, cursor, recovery, run, covered, settled>>

RunStep(p) ==
    \/ \E auth \in Auths : StartRun(p, auth)
    \/ AcquireLock(p) \/ LockTimeout(p) \/ BeginRun(p) \/ FinishRun(p)
    \/ Deadline(p) \/ Drop(p) \/ Die(p)
    \/ Bind(p) \/ Load(p) \/ RequestBootstrap(p) \/ ApplyBootstrap(p)
    \/ RequestDelta(p) \/ RequestFails(p) \/ CommitPage(p)
    \/ BeginRecovery(p) \/ Downloaded(p) \/ CommitSnapshot(p) \/ RecoveryFails(p)
    \/ Refused(p)

Next == (\E p \in Processes : RunStep(p)) \/ OpenDatabase \/ ServerStep

Spec == Init /\ [][Next]_vars

-----------------------------------------------------------------------------
(* Properties.                                                               *)

\* The cursor never passes an event that was neither received, nor part of a
\* snapshot, nor older than the device's first bootstrap in that epoch: not
\* when the authorisation changes, not through the late transaction of a run
\* that was dropped.
NoGap == \A s \in 1 .. cursor.seq : <<cursor.epoch, s>> \in covered

\* Within a stream epoch the receive position never moves back, and neither the
\* epoch nor the authorisation it was obtained under does.
CursorMonotone ==
    [][/\ cursor'.epoch >= cursor.epoch
       /\ cursor'.auth >= cursor.auth
       /\ cursor'.epoch = cursor.epoch => cursor'.seq >= cursor.seq]_vars

\* The durable state says that nothing is pending only if the newest run itself
\* came to an end that leaves nothing: no older run's late result hides that a
\* newer one is under way or was lost.
PendingHonest == ~pending => settled = gen

\* A compact recovery of the current run, under the current authorisation and
\* with its recovery row untouched, is accepted: no other run can have moved
\* the cursor since.
RecoveryAccepted ==
    \A p \in Processes :
        (/\ Live(p, "snapshot") /\ IsCurrent(p) /\ run[p].auth = binding
         /\ recovery = RecoveryRow(p, "applying"))
            => CursorAsExpected(p)
=============================================================================
