# A TLA+ model of awiki-cli-rs2

awiki-cli-rs2 is a Rust workspace for an end-to-end encrypted messaging client:
a core library (`crates/im-core`), a command line client (`crates/awiki-cli`),
an agent daemon (`crates/awiki-deamon`) and bindings for Dart and Node. This
directory models the parts that are hardest to test: how messages get from the
service into the local database when several callers, tasks and processes
receive at once, are cancelled, time out or die; how the daemon runs agent
tasks under control commands and delivers their replies; and how the command
line client upgrades a workspace that an older release left behind.

Paths below are relative to `src/`. `IC` is `crates/im-core/src/internal`, `DM`
is `crates/awiki-deamon/src`, `WU` is `crates/awiki-cli/src/workspace_upgrade`.

## 1. Inventory

### The receive path, modelled here

    host calls, realtime hints
          |  execute(EnsureCurrent | DirtyAfterCurrent)
          v
    receive coordinator      one run at a time per owner and process
          |  executor = receive_run
          v
    receive run              one run at a time per owner on this machine (lock file)
          |  bootstrap, delta pages, compact recovery; moves the cursor
          |  in the same transaction that fills the queue
          v
    receive inbox            durable queue in SQLite, shared by processes
          |  claim, lease, apply, fail, park, retry, expire
          v
    processing dispatcher    process-local loop that claims and runs attempts
          |  broadcast of results
          v
    processing sessions      "is everything I received processed?"

| Component | State | Operations | What is hard | What makes it correct |
|---|---|---|---|---|
| Receive coordinator, `IC/message_runtime/sync_coordinator.rs` | last and active run id, one pending follow-up, the waiters' oneshots, a registry of weak pointers | lookup, register (lead, join, announce a change), run, complete, the completion guard | callers drop their futures; leaders fail, panic or stop; a coordinator disappears when nothing holds it | one run at a time; a change is reported as synchronised only by a run that began after it; no waiter is stranded |
| Receive run, `IC/message_runtime/sync_v2.rs`, `IC/message_runtime/sync_receive_lock.rs`, `IC/local_state/sync_v2.rs`, `IC/local_state/sync_baseline.rs` | lock file, run generation and pending mark, account binding, cursor, recovery row | begin, bind, load, bootstrap, delta page, compact recovery, finish, the deadline | a dropped future leaves a transaction queued in the database actor; the device is re-authorised; the service drops old events or starts a new epoch; two processes | no event is skipped; the position never moves back; an unfinished run stays marked |
| Receive inbox, `IC/local_state/sync_inbox.rs`, `IC/local_state/sync_baseline.rs`, `IC/message_runtime/sync_processing.rs` | rows with due time, claim token, deadline and error code; leases; applied-event receipts | receive, make room, purge, claim, reserve, renew, complete, fail, park, release, retry | leases expire under running attempts; attempts time out and finish later; rows are evicted under an attempt; events are redelivered | nothing is lost or applied twice; a shared budget; baselines are not overtaken; no row is stranded |
| Dispatcher and sessions, `IC/message_runtime/sync_dispatcher.rs`, `crates/im-core/src/messages/processing.rs` | running flag, epoch, wake generation, active counts, Notify permit, JoinSet, broadcast channel, a session's outcome | wake, scan, claim, join, tick, stop, publish, subscribe, wait, close | a wake arrives while the loop decides to stop; an old guard is dropped after a new run began; a bounded channel lags | one loop; no wake is lost; counts are exact; completion is reported only for what was processed |

### The daemon's tasks and the CLI's upgrade, modelled here

    a message for an agent                        every CLI command
          |  route worker                               |
          v                                             v
    ACP host and session     one task at a time   workspace upgrade
          |  finish_with_final: one transaction   lock, backup, journal,
          v                                       migrations 0 -> 1 ... 3 -> 4
    final-reply outbox       flushed by workers
          |                  and by a scheduler
          v
    messaging service

| Component | State | Operations | What is hard | What makes it correct |
|---|---|---|---|---|
| ACP sessions and task host, `DM/acp/store.rs`, `host.rs`, `client.rs`, `operations.rs`, `session_configuration.rs`, `model_refresh.rs` | the session record (active and waiting task, stop flags, question, native session), task records, runtime runs, the session gate, route workers | admit, execute a turn, end a task, stop, execute or cancel the waiting task, answer, reset, probe the configuration, shut down, recover | a stop races the end of the turn; control commands hand a task from one thread to another; probes work on copies; crash at any transaction | a stop prevents the reply until the reply is committed; no task runs twice, alone in the session or unattended; records and replies agree; stop and shutdown take effect |
| Final-reply outbox and its scheduler, `DM/runtime/host.rs`, `DM/state/runtime_tasks.rs`, `DM/foreground/queue_scheduler.rs` | rows pending, sending, sent, failed; attempt counts; the scheduler's permit and timers | queue, recover stale claims, list, claim, send, settle, retry, fence, wake | several flushers; claims without an owner; lists that grow stale; lost answers; wake-ups between drain and wait | copies and attempts bounded; nothing reported as sent that was not accepted; a queued reply settles once and does settle |
| Workspace upgrade, `WU/upgrader.rs` with `lock.rs`, `backup.rs`, `journal.rs`, `meta.rs`, `detect.rs` and the migrations | meta.json, journal, backups, upgrade.lock, configuration files, identities, the database | inspect, lock, back up, migrate step by step, record, clear | two processes; death or an error between any two writes; a migration that deletes the database | no row is lost without a complete, named backup; the version is honest; the upgrade finishes when retried |

### Parts that are not modelled

The secure lanes' own cursors and hand-over, the read-state outbox, the send
paths, the realtime runner, the legacy thread sync, the database actor and
schema, the projections, the encryption state machines, the identity protocols
(registration, device join and revocation, handle recovery, root transfer,
custody, DID transitions), durable files and secrets, attachments, email and
directory, the daemon's message-sync outbox, inbox classification, local RPC and
single-instance lock, the CLI's self update, shell and host runtime, the
bindings and the build tools. The `cli_route` queue functions of
`DM/state/runtime_tasks.rs` are called by tests only. `PROJECT.json` lists each with
its sources and the reason; section 8 says which are planned.

## 2. Modules

| Module | Models | Extends or instantiates |
|---|---|---|
| `SyncService` | abstract: what the coordinator promises its callers | |
| `SyncCoordinator` | the coordinator | instance of `SyncService` under a refinement mapping |
| `SyncCoordinatorProofs` | theorems about it | `SyncCoordinator`, `TLAPS` |
| `SyncReceive` | the receive run of one owner in several processes | |
| `SyncReceiveProofs` | theorems about it | `SyncReceive`, `TLAPS` |
| `SyncInbox` | the durable queue and the attempts on it | |
| `SyncDispatcher` | the run loop, its jobs and a processing session | |
| `SyncInboxProofs`, `SyncDispatcherProofs` | theorems about them | the module they are about, `TLAPS` |
| `ReplyDelivery` | abstract: what the daemon promises about a reply | |
| `FinalOutbox` | the outbox rows, their flushers and the scheduler | instance of `ReplyDelivery` under a refinement mapping |
| `AcpSession` | the session record and the functions on it | |
| `AcpHost` | threads, client, commands, probes and restarts around one session | `AcpSession`; instance of `ReplyDelivery` as its outbox |
| `WorkspaceUpgrade` | `upgrade_if_needed` and its migrations | |
| `FinalOutboxProofs`, `AcpHostProofs`, `WorkspaceUpgradeProofs` | theorems about them | the module they are about, `TLAPS` |
| `MC...` | instances and symmetry sets for TLC | the module they check |

In every module one action is one critical section of a mutex, one transaction
or statement of the database, or one step of a task between two awaits. What
is data to the properties (payloads, names, error texts) is a model value or
left out. Definitions whose comment begins with "Mutant" or "Mutation" are plausible wrong
versions of the definition that follows them; no specification uses them. They
show that each property can fail.

### SyncCoordinator

`lastStarted`, `active`, `pending` and `waiters` are the fields of
`MessageSyncCoordinatorState`; `tasks` are the spawned leader loops; `phase`,
`call` and `answer` follow each call of `execute`. `ForOwner` is the registry
lookup, which makes a fresh coordinator when nothing refers to the old one.
`RegisterLeader`, `RegisterEnsure`, `RegisterDirty` and `RegisterRefused` are
the branches of `register`, with the spawn that follows without an await.
`CallExecutor` begins a run, `CompleteThenFollowUp`, `CompleteThenIdle` and
`CompleteFailed` are the outcomes of `complete_run`, `TaskStopped` is the drop
of the completion guard, `Cancel` a caller that drops its future. A run id of 0
stands for `None`; `MaxRunId` stands for `u64::MAX`. `covers` in a task is
history: the requests registered when its executor was called.

The completion guard is built when the spawned task is first polled, so a task
that is dropped before that is not covered by it. This happens only when the
runtime shuts down, with all callers; the model therefore stops tasks in step
"next" or "executing" only.

The properties speak about changes that were announced. That an `EnsureCurrent`
call waits for a follow-up that is already pending (`EnsureTarget`) is modelled but
is no property's subject: the service promises such a call a run, not a run that
began after it.

`SyncService` has no ids and no waiter list: requests are submitted or
withdrawn, runs begin one at a time, a success may answer any open request
except a change announced after the run began, a failure answers everyone.

### SyncReceive

`lock` is the receive lock file, `gen` and `pending` the row of
`message_sync_run_state`, `binding` the device authorisation generation of the
account binding, `cursor` the row of `message_sync_state`, `recovery` that of
`sync_recovery_state`; `run[p]` is the future of process `p` between two
awaits, `server` the stream at the service (external: its epoch, its tail and
how much it still retains). `covered` and `settled` are history: the positions
the local state accounts for, and the newest generation whose own result left
nothing to do.

`StartRun` is the host's call with some client, `AcquireLock` to `BeginRun`
the prologue of `receive_run`, `Bind` to `RequestDelta` the steps of
`sync_now_once`, `ApplyBootstrap`, `CommitPage` and `CommitSnapshot` the three
transactions that move the cursor, each with its fence, `BeginRecovery`,
`Downloaded` and `RecoveryFails` the recovery row, `FinishRun` the end. `Drop`
is a dropped future: the lock file closes, but a transaction that was sent to
the database actor is still carried out, and nothing else. `Die` is a process
exit. `OpenDatabase` is `recover_interrupted_work`, which marks the recoveries
in progress whichever process they belong to. `Fail` contains the single
device refresh that starts a run over.

### SyncInbox

`rows` is `sync_lane_inbox`, `leases` is `sync_input_leases`, `applied` counts
the committed effects of an input and stands for the receipts as well,
`attempts` are the `run_claim` tasks of live processes by token.
`delivered`, `removed`, `discarded` and `overtaken` are history. `Receive` is
the common part of `receive_ordinary`, the lane hand-over and
`insert_baseline_and_events`, with `MakeRoom`. `ClaimInputs`,
`ReserveProcessingSlot` and `RenewClaims` are the dispatcher's database calls;
`ApplyClaim` is the transaction that requires the claim, applies and completes;
`ParkTimeout`, `ReleaseTimeout`, `FailClaim`, `FailClaimRefused` and
`ReportStale` are the ways `run_claim` ends otherwise. `AttemptDies` is a panic
or a process exit. `Rebind` is a renewed device authorisation, `AcceptSend` the
send path storing the accepted projection of an own group message.

`FailureCodes` is what `failure_code` and its retry time distinguish:
"retryable" and "awaits_scope" come back by themselves; "blocked" is
`sync.processing_blocked`, the one code that a claim requeues once the echoed
send is stored (`Requeued`); "terminal" stands for every other code without a
retry time, such as `sync.processing_upgrade_required`, which only `retry_event`
brings back. `FailClaim` may record any of them. `ReportStale` is the query that
decides between retained, completed and discarded, with the publication that
follows without an await; giving the lease back is a later step (`ReleaseLease`).

The order in which due rows are ranked is left open (any order of the right
number), so what is shown holds for the code's order too. `ReceiveSecure` hands a
secure input over once: `commit_sync_lane_handoff` itself looks only for a
retained row and refuses only a smaller cursor, and the page validation keeps
what lies before the cursor out; two processes that fetch the same page at the
same time are therefore not covered (section 8). Rows closed by an older client
and the pruning of old receipts are left out.

### SyncDispatcher

`disp` is `DispatchState`, `permit` the stored permit of the `Notify`,
`waking` the `wake_client` calls that have left the lock but not notified yet,
`loops` the run tasks by epoch, `jobs` the entries of the `JoinSet`, `session`
one processing session with its channel. An attempt is reduced to what the
dispatcher sees of it: it commits, fails, finds its row gone or dies. A job's
commit, its publication and its join are separate actions, as are a purge and
its publication, and a session's drain, summary and decision.

A reception is three steps. Its transaction (`ReceiveOrdinary`, `ReceiveSecure`)
makes room first, which takes away expired rows and, at the capacity, unexpired
ones of any owner (`MakeRoom`). Its caller then waits for the database actor's
answer (`receipts`): with it, it publishes what an ordinary reception evicted
(`PublishReceived`) and wakes the owner with nothing to await in between
(`WakeAfterReceive`). Before it, the caller may be dropped (`CutCaller`), by the
deadline of `receive_run` or by its host: the transaction is carried out all the
same, its evictions are never published (`lost`) and its owner is not woken
(`forsaken`) until something else does, at the latest the next receive run, which
starts with a wake (`WakeAtRunStart`). The lane hand-over does not report its
evictions at all. `retry_processing_async` is a caller of the same kind.

`NextRound` and `Returned` say which locals of `wait_async` end with a round of
its loop or with its return; this keeps the state small and is what the code does.

### FinalOutbox and ReplyDelivery

`row` is `runtime_final_outbox`, `run` the status of the `runtime_run` behind
each row, `fl` the calls of `flush_runtime_final_outbox` in progress, with the
list each has read; `permit` and `timer` are what wakes the scheduler,
`accepted` (history) counts the copies the service accepted. `BeginFlush`
recovers stale claims and lists; `Claim` is the compare-and-set; `SendOk`,
`SendErr` and `SendLost` are the service's answers; `MarkSent`, `MarkFailed` and
`SettleRun` what follows; `FenceOff` the checks that settle a row unsent;
`FlushFails` an early return. A claim carries no owner, so a late flusher acts
on whatever claim it finds: the model has this as it is in the code.

`ReplyDelivery` says: queued once, settled once as sent or failed, settled in
the end. `FinalOutbox` implements it, and `AcpHost` uses it in place of the
outbox, so the two large models are never multiplied with each other.

### AcpSession and AcpHost

`AcpSession` has one operator per function of `Session` (`submit`, `start`,
`complete`, each accepted command, `recover`, `request_shutdown`) and
`SavedRecords`, the task records `save` writes. In `AcpHost` every transaction
on the session is one step: `Route` to `Reject` are admission, `TurnStart` to
`TurnEnds` a turn as far as the host sees it, `FailRun`, `CompleteTask`,
`FinishTask` and `AfterFinish` the end of a task, `Stop`, `CancelWaiting`,
`ExecuteWaiting`, `Answer` and `ResetContext` the accepted commands,
`BeginProbe`, `CommitProbe` and `AbandonProbe` the configuration probes, then
shutdown, crash and recovery. `th[r]` is the thread that handles run `r`; `Poll`
and `ExpireOrAnswer` are the two looks of the question poller; `WorkerLost` is
the early return of `execute` on a storage error. `stopped` and `turns` are
history.

### WorkspaceUpgrade

`meta`, `journal`, `backups`, `lock` and `disk` are the files, `db` the database
as a schema class, a set of rows and a defect of its contents, `proc` the CLI
processes. A process goes through `Start` (the unlocked look),
`AcquireFileLock`, `Inspect` (the look under the lock), `CreateBackup`,
`SaveJournal`, the steps of the migrations 0 -> 1 and 3 -> 4, `Validate`,
`SaveMeta`, `ClearJournal`; `Use...` are the commands that are let through and
write. `Die` is a death or an error at any step. `oldLock` is a lock file left by
a release without OS locks. `written` is history.

The class "ancient" stands for every older version that `ensure_schema` refuses,
"newer" for a newer one or the current one in an incomplete shape. The defect
"owners" is found by the owner invariants (3 -> 4), "health" by SQLite's own
checks (0 -> 1 and 3 -> 4). The legacy database has two rows with different
owners, named by their DID ("owned") or not at all ("unowned"). `Resolved` is the
inference of the owner: a named owner must be an identity that was imported, and
a row that names nobody falls to the default identity, which is assumed to exist
once any identity does. `ImportFails` is the permanent error otherwise; a test
asserts it for the schemas below 6
(`crates/awiki-cli/tests/workspace_migration_v0_to_v1_contract.rs:692`).

No migration deletes the legacy files. A workspace that starts with a version of
1 or more has therefore either none of them or all of them, imported, and then
its database holds their rows, which 3 -> 4 moves to the backup with the rest.

## 3. What is checked

States are distinct states on the instance; every pass run is complete. A
property in parentheses is a conjunct of the one before it. The type invariants
of `SyncCoordinator` and `SyncReceive`, and `RunIsWanted`, are proved (section
5) and not run again; the other safety properties are both run and proved.

| Run | Instance | Shows |
|---|---|---|
| `coordinator` | 3 calls of either kind, 1 limit value, run ids 0 to 2 (0.5 million) | `SingleFlight`, `WaitersCovered`, `NoInternalError`, `DirtySeenByItsRun`, `DirtyLimitHonoured`; `EveryWaiterAnswered`; `ImplementsService` with its fairness |
| `receive_run` | 2 processes, 2 runs, 2 authorisations, 2 epochs (1.1 million) | `NoGap`, `CursorMonotone`, `PendingHonest` |
| `receive_recovery` | the same with 1 epoch | violation of `RecoveryAccepted` (finding 3) |
| `inbox_order` | 1 event, 2 baselines, 2 processes, 2 attempts, capacity 2 (1.7 million) | `NothingLost`, `AppliedAtMostOnce`, `BaselineNotOvertaken`, `NoFalseDiscard`, `OneLeasedWorker`, `InboxBounded` (and `TypeOK`) |
| `inbox_leases` | 2 secure inputs of one scope, one an own echo, 2 processes, 1 slot, expiry (0.8 million) | `NoRowStranded`, `LeasesBounded`, `ParkedNeverApplies` |
| `inbox_expiry` | a retention that ends during an attempt | violation of `BaselineNotOvertaken` (finding 1) |
| `dispatcher_loop` | 2 inputs of an owner, 1 slot, 1 retry, 1 expiry, 1 fault, callers cut at will (0.3 million) | `OneLoopServes` (`TypeOK`, `OneLoop`, `RunningIsServed`), `ActiveIsExact`; `EveryInputClaimed` |
| `dispatcher_wait` | 2 owners with 1 input each, an inbox of 1, 1 slot, 1 session, a channel of 1 (1.9 million) | `CompleteIsHonest` |
| `dispatcher_purge` | 1 input that expires, 1 session | violation of `DiscardIsNoSuccess` (finding 2) |
| `final_outbox` | 2 replies, a route worker and the scheduler, 2 attempts, 1 fault, a fence (1.1 million) | `SendsBounded` (`TypeOK`, `CopiesExplained`, `AttemptsBounded`), `SentIsHonest`, `NoLostWakeup`; `ImplementsDelivery` with its fairness |
| `acp_host` | 2 tasks in a private, a group or a delegated session, 1 question, both probes, 1 lost worker, 1 crash or shutdown (0.3 million) | `StopDiscardsFinal`, `NeverExecutedTwice`, `OneExecutor` (`TypeOK`, `ExecutedIsActive`, `ActiveIsServed`), `ProbeIsAlone`, `RecordsAgree` (`FinalHasRecord`, `LiveHasLiveRecord`), `NoDanglingRun`; `AnswerKept`; `StopsTakeEffect` (`StopTakesEffect`, `ShutdownEnds`) |
| `workspace_upgrade` | 2 processes, every schema class, both defects, legacy sources before and after their import, 2 seconds, 2 deaths or errors (1.3 million) | `DataSafe` (`TypeOK`, `DataKept`, `BackupIsWhole`), `VersionHonest`, `RebuildIsAlone`; `JournalKept`; `EventuallyUpgraded` |

Deadlock is checked for `FinalOutbox` and `WorkspaceUpgrade`, which never come to
rest (the scheduler reconciles for ever, another command may always be run). In
the other modules the system may rightly stop, with all calls answered, all
inputs processed, or a bound of the model reached.

### Bounds

- Coordinator. Three calls are one to lead, one to announce a change and one
  to join or widen the follow-up; the ids let a run be followed once and then
  run out.
- Receive. Two processes and two generations give a current run and one that
  was overtaken; two authorisations and two epochs give each of the three ways
  a stored cursor becomes unusable. One position per epoch is enough to skip or
  repeat an event. An instance with two positions per epoch (6.8 million
  states) was explored without an error; it takes too long for regular use.
- Inbox. Two attempts on two processes are what it takes for one to overtake
  the other; a claim lasts one tick, so every boundary of a deadline is met. Two
  baselines and one event give both kinds of overtaking; two secure inputs of
  one scope make one wait behind a parked one. A capacity of two makes eviction
  happen while attempts run. The number of attempts is bounded by the tokens.
- Dispatcher. Two inputs make one job finish while another starts; in the loop run
  one fault lets a loop or a job die at any point, and there is no session. In the
  wait run an inbox of one record makes the second owner's input evict the first
  one's, and a channel of one entry lags at once; there is no fault, because
  `CompleteIsHonest` excludes the waits that return after one (a job that dies
  publishes nothing). Larger instances were explored without an error, and take too
  long for regular use: the wait run with a fault (3.9 million states) and with an
  expiry (5.4 million), both for one owner, and the loop run for two owners with a
  fault or an expiry in turn.
- Outbox. Two replies put two items on a list, so that one ends a call the other
  waits in; a worker and the scheduler are two flushers with lists of different
  age; two attempts are the fewest with a retry before the last. One fault of
  any kind (crash, slow send, lost answer, failed statement) meets every step.
- ACP host. Two tasks are one active and one waiting. One restart lets a message
  be routed again; the second task then meets what recovery left. A third task,
  which a private session refuses, is covered by the group session's refusal of
  a second: the guard is the same.
- Upgrade. Two processes, one of which dies or fails twice or each once; two
  legacy rows, so that an import stops half way, and two identities, one of which
  may lose its name to an existing one; two seconds, so that a
  retry may or may not reuse the name of a backup.

The theorems of section 5 lift all of these bounds for safety; for liveness the
instance is what there is.

Symmetry is used for processes, tokens and inputs of one owner in safety runs
only, where they are interchangeable.

### Fairness

- `SyncCoordinator`: the spawned task is polled, and an executor returns. The
  first is the runtime's promise; the second holds because `receive_run` races
  its work against a deadline. Nothing is assumed of callers.
- `SyncDispatcher`: ready tasks are polled (weak fairness of a job's own steps and
  of the notification; of the loops only that some loop that can step does);
  `select!` picks its ready branches at random, so a branch that is ready again and
  again is taken (strong fairness of the permit and of the join); leases of dead
  tasks run out. A caller of a reception gets its answer or is dropped; which of
  the two is not assumed, and only one that has its answer is bound to wake its
  owner, because it awaits nothing in between. That an attempt ends is justified by
  the time limits of the transport under every request it makes
  (`IC/http.rs:173`); the timer of `run_claim` does not end an attempt, it
  parks it and keeps the job (`IC/message_runtime/sync_dispatcher.rs:508`). No
  fairness is assumed of sessions, faults, expiry or the next receive run, so
  `EveryInputClaimed` leaves out an owner that is forsaken, and ends with the first
  fault: a scan that cannot open the database skips the owner, and the loop may
  then stop until the next wake (both are listed as hazards).
- `FinalOutbox`: threads run on, a send is answered, time passes, and the
  scheduler's reconciliation timer fires. Nothing is assumed of the permit, the
  due timer or the worker's notification: `ImplementsDelivery` rests on the
  reconciliation alone, and `NoLostWakeup` says that nothing waits for it.
- `AcpHost`: a worker's own steps and the end of a probe. That a turn ends is
  justified by the hard stop ten seconds after a stop and by the limit of thirty
  minutes. That somebody routes, answers, stops or restarts is not assumed.
- `WorkspaceUpgrade`: a process goes on with what it is doing, and somebody runs
  a command again; an old lock's process ends. Deaths and errors are bounded by
  `MaxFaults`, so that retries come to an end.

`SyncReceive` and `SyncInbox` state safety only.

## 4. Findings

Each is a run whose expected result is a violation.

1. `inbox_expiry`. Claiming and committing ordinary projections ignores a
   baseline past its retention, but the commit of that baseline does not look
   at its age. A baseline claimed shortly before it expired, and not purged
   yet, commits after a later event was projected and replaces it.
   `docs/architecture/im-core-sdk-architecture.md:1733` says that projections
   wait for surviving baselines so that this does not happen. The window is the
   time until the next purge.
2. `dispatcher_purge`. The loop publishes what a purge removed after the purge
   has committed. A session that looks in between finds no row, no job and no
   update, and reports completion although an input was discarded. The exception
   `Unreported` in `CompleteIsHonest` is exactly this window.
   `packages/awiki-im-core-node/README.md:142` says that discarded must not
   count as success.
3. `receive_recovery`. When the stored cursor belongs to an older authorisation
   and the bootstrap is answered with a recovery, the run expects the cursor
   position 0; the snapshot is checked against the stored row and refused on
   every attempt. `docs/flutter-sdk/awiki-im-core-flutter-sdk.md:996` describes
   this case, for a fenced as well as for a missing cursor, as one that enters
   recovery "without first inventing a local cursor".

### Observations

What exploring the models showed of the code beside the three runs above. Where
a document says otherwise, its line is named.

Reception:

- In `receive_ordinary` the comparison of the stored position with the page's is
  redundant while the run generation is checked in the same transaction:
  dropping it alone violates nothing on the explored instances.
- A process that opens the database marks a recovery that another one is
  carrying out as retryable; that recovery is then refused and downloaded again,
  which costs time but no event (`NoGap` holds with `OpenDatabase`).

Dispatcher:

- The window of finding 2 is wider for evictions: the lane hand-over ignores what
  its `make_room` removed, and a receive run that is dropped before the database
  answers never publishes what it removed (`lost`). Neither is repaired later.
- A receive run dropped at that point also skips its wake. The rows it inserted
  wait for the next wake of their owner, at the latest the next receive run.

ACP host:

- A shutdown that falls between the insertion of a run and its submission to the
  session finds nothing to stop; the task then starts and the shutdown waits for
  its turn (`DM/acp/store.rs:797`, `DM/acp/host.rs:73`).
  `docs/architecture/acp-runtime.md:102` says that a normal exit first cancels
  the ACP tasks and pauses the waiting items, then waits for the threads.
- After a lost context, `execute_waiting` and the end of the active task leave a
  waiting task that is not marked as paused (`complete` sets the mark only when
  the task may not proceed, and then keeps it waiting because of `context_lost`);
  `acp-runtime.md:28` says that an abnormal end pauses the waiting slot.
- A stop after `execute_waiting` does not revoke it: the waiting task still runs.
- A crash between the insertion of a run and its submission loses the task: the
  message finds an existing run when it is routed again.
- A storage error while a task ends leaves it active until the next restart.

Outbox:

- At a restart the run of a reply in the outbox is failed, and stays failed when
  the reply is delivered afterwards.
- A row may end as `failed_terminal` although a copy was accepted, when the
  answer to it was lost.
- Attempts may exceed the limit by one for each other flusher and each fault;
  `AttemptsBounded` is the exact statement.

Workspace upgrade:

- A workspace of version 0 whose database is too old for `ensure_schema` cannot
  be upgraded: 0 -> 1 opens it before 3 -> 4 would rebuild it
  (`docs/architecture/local-state-upgrade.md:44` has every old schema rebuilt).
- 3 -> 4 rebuilds every database below the current schema version; the same line
  speaks of schema 17.
- 0 -> 1 imports legacy identities and rows whatever the live workspace holds
  (`WU/upgrader.rs:508-535`), and a row without a known owner stops the
  upgrade for good. `docs/architecture/local-state-upgrade.md:89` says that a live
  workspace wins over a legacy source, which then serves diagnosis and explicit
  import only. The model follows the code.
- The rows imported from a legacy database are among those 3 -> 4 leaves in the
  backup only; nothing imports them a second time, although the source is still
  there. `VersionHonest` therefore speaks of the database or its backup.
- A database deleted by 3 -> 4 and recreated by another command before the retry
  is not rebuilt a second time, and the warning about historical DIDs is not
  repeated.
- A death between writing `config.yaml` and removing `config.json` leaves both.

## 5. What is proved

Every safety property that a passing run checks is also a theorem, for every
value of the constants that satisfies the modules' named assumptions: any sets of
calls, processes, positions, inputs, tokens, owners, runs and threads, and any
bounds on time, attempts, retries and faults. The runs found the statements; the
theorems remove the instance.

| Module | Theorem | Statement |
|---|---|---|
| `SyncCoordinatorProofs` | `TypeCorrect` | `Spec => []TypeOK` |
| | `RunsDoNotOverlap` | `Spec => []SingleFlight` |
| | `NoStrandedWaiter` | `Spec => []WaitersCovered` |
| | `DirtyIsSeen` | `Spec => []DirtySeenByItsRun` |
| | `DirtyLimit` | `Spec => []DirtyLimitHonoured` |
| | `NoIdleRun` | `Spec => []RunIsWanted` |
| | `InternalErrorsAreDead` | `Spec => []NoInternalError` |
| | `ServiceSteps` | `Spec => Service!Init /\ [][Service!Next]_(Service!serviceVars)` |
| `SyncReceiveProofs` | `TypeCorrect` | `Spec => []TypeOK` |
| | `NoEventSkipped` | `Spec => []NoGap` |
| | `PendingIsHonest` | `Spec => []PendingHonest` |
| | `CursorNeverBack` | `Spec => CursorMonotone` |
| `SyncInboxProofs` | `CommittedOnce` | `Spec => []AppliedAtMostOnce` |
| | `NoInputVanishes` | `Spec => []NothingLost` |
| | `HonestDiscard` | `Spec => []NoFalseDiscard` |
| | `SingleWorker` | `Spec => []OneLeasedWorker` |
| | `ParkedStaysOut` | `Spec => []ParkedNeverApplies` |
| | `WithinLeases`, `WithinCapacity` | `Spec => []LeasesBounded`, `Spec => []InboxBounded` |
| | `DueAgain` | `Spec => []NoRowStranded` |
| | `OnlyLateBaselines` | `Spec => []LateBaselinesOnly`: a waiting baseline is overtaken only past its retention |
| | `BaselinesFirst` | `Retention > MaxTime => (Spec => []BaselineNotOvertaken)` |
| `SyncDispatcherProofs` | `LoopServes` | `Spec => []OneLoopServes` |
| | `ExactCounts` | `Spec => []ActiveIsExact` |
| | `HonestCompletion` | `Spec => CompleteIsHonest` |
| `FinalOutboxProofs` | `BoundedSends` | `Spec => []SendsBounded` |
| | `HonestOutbox` | `Spec => []SentIsHonest` |
| | `WakeupKept` | `Spec => []NoLostWakeup` |
| | `DeliverySteps` | `Spec => D!InitFinal /\ [][D!NextFinal]_Final` |
| `AcpHostProofs` | `StopWins` | `Spec => []StopDiscardsFinal` |
| | `ExecutedOnce` | `Spec => []NeverExecutedTwice` |
| | `SingleExecutor` | `Spec => []OneExecutor` |
| | `ProbeAlone` | `Spec => []ProbeIsAlone` |
| | `AgreeingRecords` | `Spec => []RecordsAgree` |
| | `NothingDangles` | `Spec => []NoDanglingRun` |
| | `AnswerStays` | `Spec => AnswerKept` |
| `WorkspaceUpgradeProofs` | `DataIsSafe` | `Spec => []DataSafe` |
| | `HonestVersion` | `Spec => []VersionHonest` |
| | `AloneAtRebuild` | `Spec => []RebuildIsAlone` |
| | `JournalStays` | `Spec => JournalKept` |

Each proof has the same shape: an inductive invariant (`IInv`, or `Inv` in
`SyncReceiveProofs`), one lemma per action or per class of actions that keep the
same parts, and short consequences. The invariants were checked by TLC on the
instances of section 3 before they were proved.

**Coordinator.** The inductive invariant `IInv` adds to the properties what
ties the pieces of state together: a task leads exactly the active run
(`ActiveInv`), at most one follow-up is pending and only beside an active run
whose successor has an id (`PendingInv`), a waiter belongs to a call that waits
or was cancelled (`WaiterInv`), every waiter for the executing run's own id that
announced a change was seen by it (`CoverInv`), and each pending limit is at
least that of the announcements it stands for (`LimitInv`). `SingleFlight` is
not inductive alone: it needs that a lookup which finds nobody holding the
coordinator also finds no task. For `ServiceSteps`, the safety part of
`ImplementsService`, `FreshInv` adds that a call which has not registered is
covered by no run; registering is then `Submit`, the call of the executor
`Begin`, a completion `Succeed` (its dirty callers were covered, by `CoverInv`)
and everything else that answers `Fail`.

**Receive run.** `Inv` adds that no two runs share a generation (`Unique`) and
that the cursor lies within the service's stream and under the stored binding
(`CursorOK`), and, for each run, `RunOK`: its generation is at most the stored
one, what the service answered lies within the stream, and, while it is the
current run, the stored cursor is not past that answer; a current run that
bootstraps found a cursor of an older authorisation. From this the argument is
short. Only the run whose generation is current can move the cursor and
generations are unique, so what a run learnt when it asked the service still
holds when its transaction commits, whether or not its future was dropped in
between; a transaction that comes too late belongs to an older generation and
is refused. `RunStable` is the heart: what holds of one run survives every step
of the others. The constants need only `BoundAssumption` and
`ProcessAssumption`.

**Inbox.** A row waits for a time, has an error without a retry time, or is parked
with the token of its worker (`Sound`), and its deadline never ends before its
worker's lease (`RowOK`). So a worker whose lease has not ended holds its row until the row is
evicted (`WorkerOK`), a second claim is impossible meanwhile, and a parked
attempt can only find its row marked as timed out (`AttemptOK`). What was
applied has no row and never gets one again, because reception refuses an input
whose receipt exists. An attempt's older baselines are gone or past their
retention (`InputOK`, `OvertakenOK`), and this is exactly what remains of the
documented order of baselines: `BaselinesFirst` needs that nothing reaches the
end of its retention within the modelled time, and the run `inbox_expiry` shows
that this hypothesis cannot be dropped.

**Dispatcher.** The loops at work and the ones about to be spawned are together
exactly the current epoch while the running flag is up, and nobody otherwise
(`Control`); a loop that has stopped but still holds its guard is therefore
either of an older epoch, which the guard leaves alone, or of the current one
with the flag already down. Every job belongs to the loop at work, so the counts
are those of the current epoch and a loop that may stop has none. That epochs
stay within their type is a payment argument (`Budgeted`): each is paid for by a
reception, a retry or one of the two wakes of a session, and a payment is with the
caller that awaits its answer, with the one about to wake, or with a forsaken
owner until it is spent. For `CompleteIsHonest`, an input a session waits for is
retained, withheld by a removal that is not published (`Withheld`), or its result
is with a job, in the channel, or seen, unless the session lagged (`Accounted`);
`ActiveIsExact` rules out the job, and the last look at the channel the rest. A
loop carries an unpublished removal only between its purge and the publication
(`LoopOK`).

**Outbox.** Each copy the service may still accept needs a token: the row, while
it may be claimed without a further fault, or a flight at its send. Accepted
copies and tokens together are at most one more than the faults, and a fault adds
at most one token. Attempts are bounded by the old copies, listed with a count
below the limit: the claim that reaches the limit holds none, so at most the
other flushers exceed it. `SentIsHonest` and `NoLostWakeup` need what each place
of a flush knows about its row and which permit, timer or thread still stands for
a pending reply. `DeliverySteps` is the safety part of `ImplementsDelivery`. The
assumption is that the set of route workers is finite.

**ACP host.** The invariant ties a thread to the session (only the active run's
thread executes; a thread that has ended its task and taken the next in hand is
its only holder), the session to the records, replies and stops, and the row in
`runtime_run` to both. Most actions are steps of one thread that keep the active
and the waiting task (`Local`); the six that change the tasks are treated one by
one. A probe is alone because it takes the gate and turns check it (`ProbeInv`).

**Upgrade.** The invariant says what each place of the plan may rely on: the lock
is held, `meta.json` has the version the step starts from, the journal names a
whole backup. A database that is too old was never written by this release, so
every whole copy holds all of its rows; that is why it may be deleted. The legacy
rows are among the rows ever written once 0 -> 1 has imported them
(`LegacyWritten`), so `VersionHonest` follows from `DataKept`; that every row is one
that was written (`RowsOK`) and that the newest version is recorded only over a
database without a defect (`Current`) complete it.

## 6. What is only model-checked

- Liveness and fairness: `EveryWaiterAnswered`, `EveryInputClaimed`,
  `StopsTakeEffect`, `EventuallyUpgraded` and the fairness parts
  of `ImplementsService` and `ImplementsDelivery`; temporal reasoning about
  `ENABLED` is outside the proof system used here.
- The three violations of section 4 are counterexamples on an instance, which is
  all they need to be.

## 7. What the models leave out

- Within the modelled components: the pruning of old receipts, rows closed by
  an older client, the ranking of due rows, what reducers write, maintenance
  jobs beyond the slot they take, evictions and commits of another process in the
  dispatcher's view (they are in `SyncInbox`), the purge that a page of duplicates
  alone still does, a session's second wait and `next_async`, the
  rotation of owners, the DID transition of a binding, the installation fence.
- In the outbox: the batch limit, the text and audience of a reply, a row whose
  security differs from its task's (no code writes one), status messages to the
  controller, a failing query for the next due time.
- In the ACP host: streamed output, tools, models, history and snapshots; RPC
  tokens; the agent protocol, of which only the outcome of a turn is kept; more
  than one question at a time; sessions beside the one modelled, which share
  nothing with it.
- In the upgrade: the contents of configuration files (and so an update lost
  between two processes that save them), the migration 1 -> 2 (a clean-up
  outside the workspace that cannot fail), unreadable configuration files,
  identity indexes and databases (permanent errors), legacy sources that appear
  after 0 -> 1, and binaries of different releases on one workspace.
- Clocks are read from one source; two processes whose clocks differ are not
  considered (they run on one machine).
- SQLite transactions are atomic and durable; torn files are not modelled.
- Arithmetic overflow matters only for run ids, whose limit is a constant; the
  other counters are `i64` values that grow by one per run or event.

## 8. Plan

Done, in order: `SyncCoordinator` with `SyncService` and its proofs;
`SyncInbox`; `SyncDispatcher`; `SyncReceive` and its proofs; `WorkspaceUpgrade`;
`FinalOutbox` with `ReplyDelivery`; `AcpSession` and `AcpHost`; the proofs of
`FinalOutbox`, `AcpHost`, `WorkspaceUpgrade`, `SyncInbox` and `SyncDispatcher`,
and the refinement steps of the coordinator and the outbox.

Next:

1. `LaneHandoff` (`IC/local_state/sync_v2.rs`): the secure lanes' cursors and
   epochs, composed with `SyncInbox` in place of `ReceiveSecure`'s guard.
2. `ReceivePipeline`: `SyncReceive` and `SyncInbox` composed, so that "covered"
   is refined by "delivered", and an abstract log delivered at most once.
3. The realtime runner, the read-state outbox, device join and revocation.

Runs for these reuse the present bounds: two processes or workers, two items,
one fault, and a clock of a few ticks.

## 9. Running

    tlc -workers 2 -config MCSyncReceive.cfg MCSyncReceive
    tlapm SyncReceiveProofs.tla

Each run of section 3 takes under four minutes on two cores; each proof module
under two minutes.
