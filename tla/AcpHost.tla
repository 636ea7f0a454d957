------------------------------- MODULE AcpHost -------------------------------
(***************************************************************************)
(* The daemon's ACP host around one session: route workers that admit and  *)
(* execute tasks (acp/host.rs), control commands (acp/store.rs, handled on *)
(* route workers of their own), the client connection of a turn            *)
(* (acp/client.rs), configuration probes under the session gate            *)
(* (acp/operations.rs, session_configuration.rs, model_refresh.rs), daemon *)
(* shutdown, crash and recovery.  Every transaction on the session is one  *)
(* step; between two steps of a thread anything else may happen.           *)
(*                                                                         *)
(* The final reply goes to the outbox in the transaction that ends the     *)
(* task; what happens to it there is ReplyDelivery, which FinalOutbox      *)
(* implements.                                                             *)
(***************************************************************************)
EXTENDS Naturals, FiniteSets, AcpSession

CONSTANTS
    Kinds,         \* the kinds of session to check
    MaxRestarts,   \* bound: crashes and shutdowns in a behaviour
    MaxFaults,     \* bound: route workers lost to a storage failure
    MaxQuestions   \* bound: 1 if a turn may ask the user, 0 if not

ASSUME AcpHostAssumption ==
    /\ None \notin Runs
    /\ Runs \cap {"free", "config", "refresh"} = {}
    /\ Kinds \subseteq SessionKinds
    /\ MaxRestarts \in Nat /\ MaxFaults \in Nat /\ MaxQuestions \in 0..1

VARIABLES
    sess,      \* the session record
    rec,       \* [Runs -> task record state]
    status,    \* [Runs -> runtime_run status]
    final,     \* [Runs -> final reply], see ReplyDelivery
    th,        \* [Runs -> thread that handles the run: pc, next work in hand]
    gate,      \* holder of the session gate
    probe,     \* configuration probe: session copy, unchanged?, cancelled?
    poll,      \* question poller: has read an open question; expiry passed
    routed,    \* messages reserved by RuntimeRouteDispatcher
    daemon,    \* "up", "stopping", "down", "recovering"
    restarts, faults,
    stopped,   \* history: runs whose stop was accepted
    turns      \* history: [Runs -> number of turns started]

ReplyDelivery == INSTANCE ReplyDelivery

durable == <<sess, rec, status, final>>
memory == <<th, gate, probe, poll, routed>>
history == <<stopped, turns>>
vars == <<sess, rec, status, final, th, gate, probe, poll, routed, daemon,
          restarts, faults, stopped, turns>>

Idle == [pc |-> "idle", next |-> None]
Pc(pc) == [pc |-> pc, next |-> None]

\* The pcs at which a thread executes its run; "turn", "failing" and "fenced"
\* are those with a client connection open.
Connected == {"turn", "failing", "fenced"}
Executing == Connected \cup
    {"start", "text", "cancelled", "error", "endCancelled", "endFailed"}
Pcs == Executing \cup {"idle", "gate", "admit", "rejected", "flush", "failAfter"}

NoProbe == [copy |-> NewSession("private"), fresh |-> FALSE, cancel |-> FALSE]
NoPoll == [saw |-> FALSE, late |-> FALSE]

ThreadType == [pc : Pcs, next : Runs \cup {None}]
ProbeType == [copy : SessionType, fresh : BOOLEAN, cancel : BOOLEAN]

TypeOK ==
    /\ sess \in SessionType
    /\ rec \in [Runs -> RecordStates]
    /\ status \in [Runs -> {"none", "pending", "running", "finished", "failed"}]
    /\ final \in [Runs -> ReplyDelivery!FinalStates]
    /\ th \in [Runs -> ThreadType]
    /\ gate \in {"free", "config", "refresh"} \cup Runs
    /\ probe \in ProbeType
    /\ poll \in [saw : BOOLEAN, late : BOOLEAN]
    /\ routed \subseteq Runs
    /\ daemon \in {"up", "stopping", "down", "recovering"}
    /\ restarts \in 0..MaxRestarts
    /\ faults \in 0..MaxFaults
    /\ stopped \subseteq Runs
    /\ turns \in [Runs -> Nat]

Init ==
    /\ \E kind \in Kinds : sess = NewSession(kind)
    /\ rec = [r \in Runs |-> "none"]
    /\ status = [r \in Runs |-> "none"]
    /\ ReplyDelivery!InitFinal
    /\ th = [r \in Runs |-> Idle]
    /\ gate = "free"
    /\ probe = NoProbe
    /\ poll = NoPoll
    /\ routed = {}
    /\ daemon = "up"
    /\ restarts = 0 /\ faults = 0
    /\ stopped = {}
    /\ turns = [r \in Runs |-> 0]
-----------------------------------------------------------------------------
(* Shared steps.                                                           *)

\* save: the session, its task records and a new revision, which a
\* configuration probe in progress will notice.
SaveEnding(s, ended, outcome) ==
    /\ sess' = s
    /\ rec' = SavedRecords(rec, s, ended, outcome)
    /\ probe' = [probe EXCEPT !.fresh = FALSE]

Save(s) == SaveEnding(s, None, "none")

Go(r, pc) == th' = [th EXCEPT ![r] = Pc(pc)]

\* Mutant: the work in hand is dropped.
GoOnDropped(r, next) == th' = [th EXCEPT ![r] = Idle]

\* A thread ends, or goes on with the next work in hand.
GoOn(r, next) ==
    th' = IF next = None THEN [th EXCEPT ![r] = Idle]
          ELSE [th EXCEPT ![r] = Idle, ![next] = Pc("start")]

\* fail_active_runtime_run
Active(r) == status[r] \in {"pending", "running"}
FailActive(r) == status' = [status EXCEPT ![r] = IF Active(r) THEN "failed" ELSE @]

AtWork == daemon \in {"up", "stopping"}
-----------------------------------------------------------------------------
(* run: admission.                                                         *)

\* A message reaches a route worker, which asks for the session gate.  Asking
\* cancels a model refresh that holds it.
Route(r) ==
    /\ daemon = "up"
    /\ r \notin routed /\ th[r] = Idle
    /\ routed' = routed \cup {r}
    /\ Go(r, "gate")
    /\ probe' = [probe EXCEPT !.cancel = (gate = "refresh")]
    /\ UNCHANGED <<durable, gate, poll, daemon, restarts, faults, history>>

GateFree(r) == AtWork /\ th[r].pc = "gate" /\ gate = "free"

\* existing_runtime_run: the run is known, nothing is done again.
AdmitExisting(r) ==
    /\ GateFree(r)
    /\ status[r] # "none"
    /\ Go(r, "idle")
    /\ UNCHANGED <<durable, gate, probe, poll, routed, daemon, restarts, faults, history>>

\* A delegated session that is busy leaves the message in the inbox.
AdmitBusy(r) ==
    /\ GateFree(r)
    /\ status[r] = "none"
    /\ sess.kind = "delegated" /\ Busy(sess)
    /\ Go(r, "idle")
    /\ routed' = routed \ {r}
    /\ UNCHANGED <<durable, gate, probe, poll, daemon, restarts, faults, history>>

AdmitInsert(r) ==
    /\ GateFree(r)
    /\ status[r] = "none"
    /\ ~(sess.kind = "delegated" /\ Busy(sess))
    /\ gate' = r
    /\ status' = [status EXCEPT ![r] = "pending"]
    /\ Go(r, "admit")
    /\ UNCHANGED <<sess, rec, final, probe, poll, routed, daemon, restarts, faults, history>>

AdmitSubmit(r) ==
    /\ th[r].pc = "admit"
    /\ gate' = "free"
    /\ IF SubmitRefused(sess)
       THEN Go(r, "rejected") /\ UNCHANGED <<sess, rec, probe>>
       ELSE /\ Save(Submitted(sess, r))
            /\ Go(r, IF Busy(sess) THEN "idle" ELSE "start")
    /\ UNCHANGED <<status, final, poll, routed, daemon, restarts, faults, history>>

Reject(r) ==
    /\ th[r].pc = "rejected"
    /\ FailActive(r)
    /\ Go(r, "idle")
    /\ UNCHANGED <<sess, rec, final, gate, probe, poll, routed, daemon, restarts, faults, history>>
-----------------------------------------------------------------------------
(* execute_turn and the client connection.                                 *)

TurnStart(r) ==
    /\ th[r].pc = "start"
    /\ IF sess.stopping
       THEN Go(r, "cancelled") /\ UNCHANGED <<status, turns>>
       ELSE /\ Go(r, "turn")
            /\ status' = [status EXCEPT ![r] = "running"]
            /\ turns' = [turns EXCEPT ![r] = @ + 1]
    /\ poll' = NoPoll
    /\ UNCHANGED <<sess, rec, final, gate, probe, routed, daemon, restarts, faults, stopped>>

\* The profile, the workspace or an attachment is not available.
TurnUnavailable(r) ==
    /\ th[r].pc = "start" /\ ~sess.stopping
    /\ Go(r, "error")
    /\ UNCHANGED <<durable, gate, probe, poll, routed, daemon, restarts, faults, history>>

\* The native session is created or loaded.
OpenNative(r) ==
    /\ th[r].pc = "turn" /\ ~sess.native
    /\ Save([sess EXCEPT !.native = TRUE])
    /\ UNCHANGED <<status, final, th, gate, poll, routed, daemon, restarts, faults, history>>

\* mark_context_lost: the native session is gone; the turn will fail.
LoseContext(r) ==
    /\ th[r].pc = "turn"
    /\ sess.active = r /\ ~sess.stopping /\ sess.native
    /\ Save([sess EXCEPT !.lost = TRUE])
    /\ Go(r, "failing")
    /\ UNCHANGED <<status, final, gate, poll, routed, daemon, restarts, faults, history>>

\* await_answer_id: the client asks, polls, and lets the question expire.
Ask(r) ==
    /\ MaxQuestions = 1
    /\ th[r].pc = "turn"
    /\ sess.active = r /\ ~sess.stopping /\ sess.native
    /\ sess.kind # "delegated"
    /\ sess.question = "none"
    /\ Save([sess EXCEPT !.question = "open"])
    /\ poll' = NoPoll
    /\ UNCHANGED <<status, final, th, gate, routed, daemon, restarts, faults, history>>

Poll(r) ==
    /\ th[r].pc = "turn" /\ sess.question = "open" /\ ~poll.saw
    /\ poll' = [poll EXCEPT !.saw = TRUE]
    /\ UNCHANGED <<durable, th, gate, probe, routed, daemon, restarts, faults, history>>

ExpiryPasses ==
    /\ sess.question \in {"open", "answered"} /\ ~poll.late
    /\ poll' = [poll EXCEPT !.late = TRUE]
    /\ UNCHANGED <<durable, th, gate, probe, routed, daemon, restarts, faults, history>>

\* Mutant: the poller acts on the copy it read.
ExpireStale(r) ==
    /\ th[r].pc = "turn" /\ poll.saw /\ poll.late
    /\ poll' = [poll EXCEPT !.saw = FALSE]
    /\ Save([sess EXCEPT !.question = "ended"])
    /\ Go(r, "failing")
    /\ UNCHANGED <<status, final, gate, routed, daemon, restarts, faults, history>>

\* expire_or_answer: an answer stored since the poller read wins.
ExpireOrAnswer(r) ==
    /\ th[r].pc = "turn" /\ poll.saw /\ poll.late
    /\ poll' = [poll EXCEPT !.saw = FALSE]
    /\ IF sess.question = "open"
       THEN Save([sess EXCEPT !.question = "ended"]) /\ Go(r, "failing")
       ELSE UNCHANGED <<sess, rec, probe, th>>
    /\ UNCHANGED <<status, final, gate, routed, daemon, restarts, faults, history>>

\* The 250 ms control check: the controller identity changed, or the binding
\* of a delegated session is gone; the latter ends the turn with an error.
ControlCheck(r) ==
    /\ th[r].pc \in {"turn", "failing"}
    /\ Save([sess EXCEPT !.stopping = TRUE, !.execAfter = FALSE])
    /\ stopped' = stopped \cup {r}
    /\ \/ UNCHANGED th
       \/ sess.kind = "delegated" /\ Go(r, "fenced")
    /\ UNCHANGED <<status, final, gate, poll, routed, daemon, restarts, faults, turns>>

\* Mutant: a turn that waits for an answer does not notice a stop.
OutcomesWaiting(r) ==
    CASE sess.question = "ended" /\ sess.stopping -> {}
      [] sess.question # "ended" /\ sess.stopping -> {"cancelled"}
      [] ~sess.stopping ->
            {"error", "cancelled"} \cup
            (IF sess.question \in {"none", "answered"} THEN {"text"} ELSE {})

\* What a turn may end with: an accepted stop decides at the last look, unless
\* the client or the look itself failed before; a question without an answer is
\* a failure; the client may cancel by itself.
Outcomes(r) ==
    CASE th[r].pc = "fenced" -> {"error"}
      [] th[r].pc = "failing" -> IF sess.stopping THEN {"cancelled", "error"} ELSE {"error"}
      [] th[r].pc = "turn" /\ sess.stopping -> {"cancelled", "error"}
      [] th[r].pc = "turn" /\ ~sess.stopping ->
            {"error", "cancelled"} \cup
            (IF sess.question \in {"none", "answered"} THEN {"text"} ELSE {})

\* The connection and its process group have ended.
TurnEnds(r) ==
    /\ th[r].pc \in Connected
    /\ \E outcome \in Outcomes(r) : Go(r, outcome)
    /\ UNCHANGED <<durable, gate, probe, poll, routed, daemon, restarts, faults, history>>
-----------------------------------------------------------------------------
(* execute: the end of a task.                                             *)

\* fail_active_runtime_run comes before complete on these two branches; the
\* error branch also stores the interaction error.
FailRun(r) ==
    /\ th[r].pc \in {"cancelled", "error"}
    /\ FailActive(r)
    /\ Go(r, IF th[r].pc = "cancelled" THEN "endCancelled" ELSE "endFailed")
    /\ probe' = [probe EXCEPT !.fresh = @ /\ th[r].pc = "cancelled"]
    /\ UNCHANGED <<sess, rec, final, gate, poll, routed, daemon, restarts, faults, history>>

CompleteTask(r) ==
    /\ th[r].pc \in {"endCancelled", "endFailed"}
    /\ sess.active = r
    /\ LET outcome == IF th[r].pc = "endCancelled" THEN "cancelled" ELSE "failed"
       IN /\ SaveEnding(Completed(sess, outcome), r, outcome)
          /\ GoOn(r, NextWork(sess, outcome))
    /\ poll' = NoPoll
    /\ UNCHANGED <<status, final, gate, routed, daemon, restarts, faults, history>>

\* Mutant: the stop is looked at before the transaction only.
FinishTaskBlind(r) ==
    /\ th[r].pc = "text"
    /\ sess.active = r
    /\ SaveEnding(Completed(sess, "finished"), r, "finished")
    /\ ReplyDelivery!QueueFinal(r)
    /\ th' = [th EXCEPT ![r] = [pc |-> "flush", next |-> NextWork(sess, "finished")]]
    /\ poll' = NoPoll
    /\ UNCHANGED <<status, gate, routed, daemon, restarts, faults, history>>

\* Mutant: the reply is queued in a transaction of its own, before the task ends.
FinishTaskApart(r) ==
    /\ th[r].pc = "text"
    /\ sess.active = r
    /\ LET outcome == IF sess.stopping THEN "cancelled" ELSE "finished"
       IN /\ SaveEnding(Completed(sess, outcome), r, outcome)
          /\ ReplyDelivery!QueueFinal(r)
          /\ th' = [th EXCEPT ![r] =
                [pc |-> IF sess.stopping THEN "failAfter" ELSE "flush",
                 next |-> NextWork(sess, outcome)]]
    /\ poll' = NoPoll
    /\ UNCHANGED <<status, gate, routed, daemon, restarts, faults, history>>

\* finish_with_final: one transaction decides between stop and reply.
FinishTask(r) ==
    /\ th[r].pc = "text"
    /\ sess.active = r
    /\ LET outcome == IF sess.stopping THEN "cancelled" ELSE "finished"
       IN /\ SaveEnding(Completed(sess, outcome), r, outcome)
          /\ IF sess.stopping THEN UNCHANGED final ELSE ReplyDelivery!QueueFinal(r)
          /\ th' = [th EXCEPT ![r] =
                [pc |-> IF sess.stopping THEN "failAfter" ELSE "flush",
                 next |-> NextWork(sess, outcome)]]
    /\ poll' = NoPoll
    /\ UNCHANGED <<status, gate, routed, daemon, restarts, faults, history>>

\* The transaction failed: final_persistence_failed.
FinishFails(r) ==
    /\ th[r].pc = "text"
    /\ Go(r, "error")
    /\ UNCHANGED <<durable, gate, probe, poll, routed, daemon, restarts, faults, history>>

\* After finish_with_final: flush the outbox, or fail the run; then go on.
AfterFinish(r) ==
    /\ th[r].pc \in {"flush", "failAfter"}
    /\ IF th[r].pc = "failAfter" THEN FailActive(r) ELSE UNCHANGED status
    /\ GoOn(r, th[r].next)
    /\ UNCHANGED <<sess, rec, final, gate, probe, poll, routed, daemon, restarts, faults, history>>

\* A storage error makes execute return early: the task stays active, or the
\* task that was to follow it does.
WorkerLost(r) ==
    /\ faults < MaxFaults
    /\ th[r].pc \in {"cancelled", "error", "endCancelled", "endFailed", "failAfter"}
    /\ faults' = faults + 1
    /\ Go(r, "idle")
    /\ UNCHANGED <<durable, gate, probe, poll, routed, daemon, restarts, history>>

\* The outbox settles a reply and then the run (see FinalOutbox).
Deliver(r) ==
    /\ AtWork
    /\ ReplyDelivery!Settle(r)
    /\ UNCHANGED <<sess, rec, status, memory, daemon, restarts, faults, history>>

SettleRun(r) ==
    /\ AtWork
    /\ final[r] \in {"sent", "failed"} /\ Active(r)
    /\ status' = [status EXCEPT ![r] = IF final[r] = "sent" THEN "finished" ELSE "failed"]
    /\ UNCHANGED <<sess, rec, final, memory, daemon, restarts, faults, history>>
-----------------------------------------------------------------------------
(* control: commands.  A command repeated with its id, and one that names  *)
(* another run or a future revision, changes nothing.                      *)

Stop(r) ==
    /\ AtWork
    /\ sess.kind # "group"
    /\ sess.active = r
    /\ Save(StopAsked(sess))
    /\ stopped' = stopped \cup {r}
    /\ UNCHANGED <<status, final, th, gate, poll, routed, daemon, restarts, faults, turns>>

\* Mutant: the run of the cancelled task is left as it is.
CancelWaitingOnly(r) ==
    /\ AtWork
    /\ sess.kind # "group"
    /\ sess.waiting = r
    /\ SaveEnding(WaitingCancelled(sess), r, "cancelled")
    /\ UNCHANGED <<status, final, th, gate, poll, routed, daemon, restarts, faults, history>>

CancelWaiting(r) ==
    /\ AtWork
    /\ sess.kind # "group"
    /\ sess.waiting = r
    /\ SaveEnding(WaitingCancelled(sess), r, "cancelled")
    /\ status' = [status EXCEPT ![r] = IF @ = "pending" THEN "failed" ELSE @]
    /\ UNCHANGED <<final, th, gate, poll, routed, daemon, restarts, faults, history>>

\* Mutant: the waiting task starts although another is active.
ExecuteWaitingNow(r) ==
    /\ AtWork
    /\ sess.kind # "group"
    /\ sess.waiting = r
    /\ ~sess.lost
    /\ Save(WaitingStarted(sess))
    /\ Go(r, "start")
    /\ UNCHANGED <<status, final, gate, poll, routed, daemon, restarts, faults, history>>

\* With a task active it is stopped first; otherwise the thread of the command
\* executes the waiting task.
ExecuteWaiting(r) ==
    /\ AtWork
    /\ sess.kind # "group"
    /\ sess.waiting = r
    /\ \/ /\ sess.active # None
          /\ Save(ExecuteAfterStop(sess))
          /\ stopped' = stopped \cup {sess.active}
          /\ UNCHANGED th
       \/ /\ sess.active = None /\ ~sess.lost
          /\ Save(WaitingStarted(sess))
          /\ Go(r, "start")
          /\ UNCHANGED stopped
    /\ UNCHANGED <<status, final, gate, poll, routed, daemon, restarts, faults, turns>>

\* Accepted from the requester of the task only, before the question expires.
Answer ==
    /\ AtWork
    /\ sess.active # None /\ ~sess.stopping
    /\ sess.question = "open" /\ ~poll.late
    /\ Save([sess EXCEPT !.question = "answered"])
    /\ UNCHANGED <<status, final, th, gate, poll, routed, daemon, restarts, faults, history>>

ResetContext ==
    /\ daemon = "up"
    /\ gate = "free"
    /\ sess.active = None /\ sess.lost
    /\ Save(ContextReset(sess))
    /\ UNCHANGED <<status, final, th, gate, poll, routed, daemon, restarts, faults, history>>
-----------------------------------------------------------------------------
(* Configuration probes: prepare_session and set_model, refresh_models.    *)
(* They hold the gate while a client of their own uses the native session, *)
(* then write back the copy they took, if the revision is unchanged.       *)

\* Mutant: a busy session is probed too.
BeginProbeBusy(op) ==
    /\ daemon = "up"
    /\ gate = "free"
    /\ sess.kind = "private" /\ ~sess.lost
    /\ gate' = op
    /\ probe' = [copy |-> sess, fresh |-> TRUE, cancel |-> FALSE]
    /\ UNCHANGED <<durable, th, poll, routed, daemon, restarts, faults, history>>

BeginProbe(op) ==
    /\ daemon = "up"
    /\ gate = "free"
    /\ sess.kind = "private" /\ ~sess.lost /\ ~Busy(sess)
    /\ op = "refresh" => \A r \in Runs : th[r].pc # "gate"
    /\ gate' = op
    /\ probe' = [copy |-> sess, fresh |-> TRUE, cancel |-> FALSE]
    /\ UNCHANGED <<durable, th, poll, routed, daemon, restarts, faults, history>>

CommitProbe ==
    /\ gate \in {"config", "refresh"}
    /\ probe.fresh
    /\ gate = "refresh" => ~probe.cancel
    /\ sess' = probe.copy
    /\ rec' = SavedRecords(rec, probe.copy, None, "none")
    /\ gate' = "free"
    /\ probe' = NoProbe
    /\ UNCHANGED <<status, final, th, poll, routed, daemon, restarts, faults, history>>

\* Mutant: a failed probe keeps the gate.
AbandonProbeHeld ==
    /\ gate \in {"config", "refresh"}
    /\ probe' = NoProbe
    /\ UNCHANGED <<durable, th, gate, poll, routed, daemon, restarts, faults, history>>

\* The probe fails, is cancelled or finds a newer revision.  prepare_session
\* may find the native session gone.
AbandonProbe ==
    /\ gate \in {"config", "refresh"}
    /\ gate' = "free"
    /\ probe' = NoProbe
    /\ \/ UNCHANGED <<sess, rec>>
       \/ /\ gate = "config" /\ probe.copy.native
          /\ sess' = [sess EXCEPT !.lost = TRUE]
          /\ rec' = SavedRecords(rec, sess', None, "none")
    /\ UNCHANGED <<status, final, th, poll, routed, daemon, restarts, faults, history>>
-----------------------------------------------------------------------------
(* Shutdown, crash and recovery.                                           *)

MemoryLost ==
    /\ th' = [r \in Runs |-> Idle]
    /\ gate' = "free"
    /\ probe' = NoProbe
    /\ poll' = NoPoll
    /\ routed' = {}

\* The foreground loop has ended; request_shutdown before joining the workers.
RequestShutdown ==
    /\ daemon = "up"
    /\ restarts < MaxRestarts
    /\ restarts' = restarts + 1
    /\ daemon' = "stopping"
    /\ Save(ShutDown(sess))
    /\ stopped' = stopped \cup ({sess.active} \ {None})
    /\ UNCHANGED <<status, final, th, gate, poll, routed, faults, turns>>

Exit ==
    /\ daemon = "stopping"
    /\ gate = "free" /\ \A r \in Runs : th[r] = Idle
    /\ daemon' = "down"
    /\ MemoryLost
    /\ UNCHANGED <<durable, restarts, faults, history>>

Crash ==
    /\ daemon # "down"
    /\ restarts < MaxRestarts
    /\ restarts' = restarts + 1
    /\ daemon' = "down"
    /\ MemoryLost
    /\ UNCHANGED <<durable, faults, history>>

\* recover_stale_active_runtime_runs, then acp recover, before any work.
RecoverRuns ==
    /\ daemon = "down"
    /\ daemon' = "recovering"
    /\ status' = [r \in Runs |-> IF Active(r) THEN "failed" ELSE status[r]]
    /\ UNCHANGED <<sess, rec, final, memory, restarts, faults, history>>

RecoverSessions ==
    /\ daemon = "recovering"
    /\ daemon' = "up"
    /\ SaveEnding(Interrupted(sess), sess.active, "interrupted")
    /\ UNCHANGED <<status, final, th, gate, poll, routed, restarts, faults, history>>
-----------------------------------------------------------------------------
ThreadStep(r) ==
    \/ AdmitExisting(r) \/ AdmitBusy(r) \/ AdmitInsert(r) \/ AdmitSubmit(r) \/ Reject(r)
    \/ TurnStart(r) \/ TurnUnavailable(r) \/ TurnEnds(r)
    \/ FailRun(r) \/ CompleteTask(r) \/ FinishTask(r) \/ FinishFails(r) \/ AfterFinish(r)

ClientStep(r) ==
    \/ OpenNative(r) \/ LoseContext(r) \/ Ask(r) \/ Poll(r) \/ ExpireOrAnswer(r)
    \/ ControlCheck(r)

Command(r) == Stop(r) \/ CancelWaiting(r) \/ ExecuteWaiting(r)

Next ==
    \/ \E r \in Runs : Route(r) \/ ThreadStep(r) \/ ClientStep(r) \/ Command(r)
    \/ \E r \in Runs : WorkerLost(r) \/ Deliver(r) \/ SettleRun(r)
    \/ ExpiryPasses \/ Answer \/ ResetContext
    \/ BeginProbe("config") \/ BeginProbe("refresh") \/ CommitProbe \/ AbandonProbe
    \/ RequestShutdown \/ Exit \/ Crash \/ RecoverRuns \/ RecoverSessions

\* Threads run on; a turn ends (hard stop after 10 s, time limit of 30 min);
\* a probe ends; the shutdown goes through once the threads are joined.  That
\* somebody routes, answers, stops or restarts is not assumed.
Fairness ==
    /\ \A r \in Runs : WF_vars(ThreadStep(r))
    /\ WF_vars(AbandonProbe \/ CommitProbe)
    /\ WF_vars(Exit)

Spec == Init /\ [][Next]_vars /\ Fairness
-----------------------------------------------------------------------------
(* Properties.                                                             *)

\* A stop that was accepted before the task ended prevents its reply, also
\* when the client had already returned the text and only the transaction of
\* finish_with_final was left; shutdown and the identity check count as stops.
StopDiscardsFinal ==
    \A r \in stopped : final[r] = "none" /\ rec[r] # "finished"

\* No run is executed twice: not by a message routed again after a restart, not
\* by recovery, not by executing a waiting task that is about to be promoted.
NeverExecutedTwice ==
    \A r \in Runs : turns[r] <= 1

\* A thread executes a run only while the run is the active one, so complete
\* and finish_with_final never answer stale_task; and there is one such thread.
ExecutedIsActive ==
    \A r \in Runs : th[r].pc \in Executing => sess.active = r

\* An active task is in the hands of a thread, which executes it or still has
\* to settle the task before it; only a lost worker can leave it behind.
ActiveIsServed ==
    AtWork /\ faults = 0 /\ sess.active # None =>
        \/ th[sess.active].pc \in Executing
        \/ \E r \in Runs : th[r].pc \in {"flush", "failAfter"} /\ th[r].next = sess.active

\* The active task and the thread that executes it determine each other (with
\* the type invariant).
OneExecutor == TypeOK /\ ExecutedIsActive /\ ActiveIsServed

\* While a configuration probe has a client on the native session no turn has
\* one, nothing is queued, and the copy to be written back is still current.
ProbeIsAlone ==
    gate \in {"config", "refresh"} =>
        /\ \A r \in Runs : th[r].pc \notin Executing
        /\ probe.copy = sess

\* A reply is in the outbox exactly when the task record says finished, so
\* that delivery_in never finds a record in another state.
FinalHasRecord ==
    \A r \in Runs : final[r] # "none" <=> rec[r] = "finished"

\* A live run has a live record: a run that is active or waiting was never
\* recorded as ended (persist would keep the old end for ever).
LiveHasLiveRecord ==
    \A r \in {sess.active, sess.waiting} \ {None} : rec[r] \notin Terminal

\* The task records agree with the replies and with the session.
RecordsAgree == FinalHasRecord /\ LiveHasLiveRecord

\* No run is left pending or running: it is in a thread, in the session, or
\* its reply is on its way; only a lost worker can leave one behind.
NoDanglingRun ==
    \A r \in Runs :
        daemon = "up" /\ faults = 0 /\ Active(r) =>
            th[r].pc # "idle" \/ r \in {sess.active, sess.waiting} \/ final[r] # "none"

\* An answer that was accepted is never taken back by the expiry of the
\* question, although the poller decided on an older copy.
AnswerKept ==
    [][sess.question = "answered" => sess'.question \in {"answered", "none"}]_vars

\* A task that is to be stopped does end, unless the daemon goes down or the
\* worker is lost.
StopTakesEffect ==
    \A r \in Runs :
        AtWork /\ sess.active = r /\ sess.stopping
            ~> sess.active # r \/ daemon = "down" \/ faults > 0

\* Once the threads are being joined the daemon does go down.
ShutdownEnds == daemon = "stopping" ~> daemon = "down"

\* Stops take effect, that of a task and that of the daemon.
StopsTakeEffect == StopTakesEffect /\ ShutdownEnds
=============================================================================
