---------------------------- MODULE FinalOutbox ----------------------------
(***************************************************************************)
(* The daemon's final-reply outbox: the table runtime_final_outbox, the    *)
(* function flush_runtime_final_outbox that several threads run at the     *)
(* same time, and the scheduler task that calls it when it is woken.       *)
(*                                                                         *)
(* A row is claimed by the compare-and-set pending -> sending; nothing     *)
(* else identifies the claim, so a flusher that returns late acts on       *)
(* whatever claim it then finds.  A claim older than the stale window is   *)
(* taken back by any flusher.  The messaging service is external: a send   *)
(* is accepted, refused, or accepted with the answer lost.                 *)
(*                                                                         *)
(* Time is abstract: a retry becomes due and a claim becomes stale by      *)
(* steps of their own.  The faults (a crash with restart, a claim that     *)
(* grows stale under a live sender, a lost answer, a failed statement)     *)
(* share the bound MaxFaults.                                              *)
(***************************************************************************)
EXTENDS Naturals, FiniteSets

CONSTANTS
    Runs,         \* runs that end with a reply, one outbox row each
    Workers,      \* route worker threads: they flush after finishing a run
    Scheduler,    \* the queue scheduler task of this outbox
    MaxAttempts,  \* MAX_RUNTIME_FINAL_OUTBOX_ATTEMPTS (5 in the code)
    MaxFaults     \* bound: faults of all kinds in a behaviour

ASSUME FinalOutboxAssumption ==
    /\ Scheduler \notin Workers
    /\ IsFiniteSet(Workers)
    /\ MaxAttempts \in Nat \ {0}
    /\ MaxFaults \in Nat

VARIABLES
    row,      \* [Runs -> row]: status, attempt_count, due, stale
    run,      \* [Runs -> "active" | "finished" | "failed"]: runtime_run
    fl,       \* [Flushers -> call of flush_runtime_final_outbox in progress]
    permit,   \* the stored permit of the scheduler's Notify
    timer,    \* the scheduler waits with a due timer armed
    fenced,   \* controller identity changed, binding inactive or task gone
    faults,   \* faults so far
    accepted  \* history: copies of the reply the service accepted

vars == <<row, run, fl, permit, timer, fenced, faults, accepted>>

Flushers == Workers \cup {Scheduler}

RowStatus == {"none", "pending", "sending", "sent", "failed_terminal"}
Settled == {"sent", "failed_terminal"}

NoRow == [status |-> "none", count |-> 0, due |-> FALSE, stale |-> FALSE]

\* A flusher outside flush_runtime_final_outbox, at pc.
At(pc) == [pc |-> pc, todo |-> {}, run |-> {}, n |-> 0, sent |-> FALSE]

Rows == [status : RowStatus, count : Nat, due : BOOLEAN, stale : BOOLEAN]

\* The calls of flush_runtime_final_outbox, and the places outside of it.
FlushCalls ==
    [pc : {"off", "drain", "each", "send", "ok", "err", "finish", "fail", "busy", "due", "wait"},
     todo : SUBSET [run : Runs, n : Nat], run : SUBSET Runs, n : Nat, sent : BOOLEAN]

TypeOK ==
    /\ row \in [Runs -> Rows]
    /\ run \in [Runs -> {"active", "finished", "failed"}]
    /\ fl \in [Flushers -> FlushCalls]
    /\ permit \in BOOLEAN
    /\ timer \in BOOLEAN
    /\ fenced \in BOOLEAN
    /\ faults \in 0..MaxFaults
    /\ accepted \in [Runs -> Nat]

Init ==
    /\ row = [r \in Runs |-> NoRow]
    /\ run = [r \in Runs |-> "active"]
    /\ fl = [f \in Flushers |-> IF f = Scheduler THEN At("drain") ELSE At("off")]
    /\ permit = TRUE
    /\ timer = FALSE
    /\ fenced = FALSE
    /\ faults = 0
    /\ accepted = [r \in Runs |-> 0]
-----------------------------------------------------------------------------
(* The rows and the runs.                                                  *)

SettledAs(r, s) ==
    [row EXCEPT ![r].status = s, ![r].due = FALSE, ![r].stale = FALSE]

\* upsert_runtime_final_outbox_pending_in, called by finish_with_final in the
\* transaction that ends the task.  A run ends once, so the row is new.
Queue(w, r) ==
    /\ fl[w].pc = "off"
    /\ row[r].status = "none"
    /\ run[r] = "active"
    /\ row' = [row EXCEPT ![r] =
                 [status |-> "pending", count |-> 0, due |-> TRUE, stale |-> FALSE]]
    /\ fl' = [fl EXCEPT ![w] = At("drain")]
    /\ UNCHANGED <<run, permit, timer, fenced, faults, accepted>>

\* next_attempt_at_ms passes.
BecomeDue(r) ==
    /\ row[r].status = "pending" /\ ~row[r].due
    /\ row' = [row EXCEPT ![r].due = TRUE]
    /\ UNCHANGED <<run, fl, permit, timer, fenced, faults, accepted>>

SentBy(f, r) == fl[f].pc \in {"send", "ok", "err"} /\ fl[f].run = {r}
InFlight(r) == \E f \in Flushers : SentBy(f, r)

\* The claim of a sender that is gone grows older than the stale window.
BecomeStale(r) ==
    /\ row[r].status = "sending" /\ ~row[r].stale
    /\ ~InFlight(r)
    /\ row' = [row EXCEPT ![r].stale = TRUE]
    /\ UNCHANGED <<run, fl, permit, timer, fenced, faults, accepted>>

\* The claim of a live sender does: the send takes longer than the window.
SlowSend(r) ==
    /\ row[r].status = "sending" /\ ~row[r].stale
    /\ InFlight(r)
    /\ faults < MaxFaults
    /\ faults' = faults + 1
    /\ row' = [row EXCEPT ![r].stale = TRUE]
    /\ UNCHANGED <<run, fl, permit, timer, fenced, accepted>>
-----------------------------------------------------------------------------
(* flush_runtime_final_outbox, one action per statement that another       *)
(* thread can observe.                                                     *)

\* Mutant: claims of lost senders are never taken back.
RecoveredNever(x) == x

\* recover_stale_runtime_final_outbox_sending
Recovered(x) ==
    IF x.status = "sending" /\ x.stale
    THEN [x EXCEPT !.status = "pending", !.due = TRUE, !.stale = FALSE]
    ELSE x

\* Mutant: the listed copy has no attempt count.
DueListUncounted(rows) ==
    {[run |-> r, n |-> 0] :
        r \in {q \in Runs : rows[q].status = "pending" /\ rows[q].due}}

\* list_due_runtime_final_outbox: the attempt count is part of the copy.
DueList(rows) ==
    {[run |-> r, n |-> rows[r].count] :
        r \in {q \in Runs : rows[q].status = "pending" /\ rows[q].due}}

BeginFlush(f) ==
    /\ fl[f].pc = "drain"
    /\ LET rows == [r \in Runs |-> Recovered(row[r])]
       IN /\ row' = rows
          /\ fl' = [fl EXCEPT ![f] = [At("each") EXCEPT !.todo = DueList(rows)]]
    /\ UNCHANGED <<run, permit, timer, fenced, faults, accepted>>

\* The flusher turns to item x of its list.
Taken(f, x) == [fl[f] EXCEPT !.todo = @ \ {x}, !.run = {x.run}, !.n = x.n]

\* Mutant: the claim does not ask for the status.
ClaimUnguarded(f, x) ==
    /\ fl[f].pc = "each" /\ x \in fl[f].todo
    /\ ~fenced
    /\ row' = [row EXCEPT ![x.run] =
          [status |-> "sending", count |-> @.count + 1, due |-> FALSE, stale |-> FALSE]]
    /\ fl' = [fl EXCEPT ![f] = [Taken(f, x) EXCEPT !.pc = "send"]]
    /\ UNCHANGED <<run, permit, timer, fenced, faults, accepted>>

\* mark_runtime_final_outbox_sending: pending only; whether the row is still
\* due, and whether its count is still the listed one, is not asked.
Claim(f, x) ==
    /\ fl[f].pc = "each" /\ x \in fl[f].todo
    /\ ~fenced
    /\ IF row[x.run].status = "pending"
       THEN /\ row' = [row EXCEPT ![x.run] =
                 [status |-> "sending", count |-> @.count + 1,
                  due |-> FALSE, stale |-> FALSE]]
            /\ fl' = [fl EXCEPT ![f] = [Taken(f, x) EXCEPT !.pc = "send"]]
       ELSE /\ fl' = [fl EXCEPT ![f].todo = @ \ {x}]
            /\ UNCHANGED row
    /\ UNCHANGED <<run, permit, timer, fenced, faults, accepted>>

\* mark_runtime_final_outbox_failed_terminal
CanFail(r) == row[r].status \in {"pending", "sending"}

\* A fence settles the row as failed before it is claimed.  A changed controller
\* identity fails the run only if the row was still open; an inactive binding
\* or a missing task fails it in any case.
FenceOff(f, x) ==
    /\ fl[f].pc = "each" /\ x \in fl[f].todo
    /\ fenced
    /\ row' = IF CanFail(x.run) THEN SettledAs(x.run, "failed_terminal") ELSE row
    /\ \/ fl' = [fl EXCEPT ![f] = [Taken(f, x) EXCEPT !.pc = "fail", !.n = 0]]
       \/ ~CanFail(x.run) /\ fl' = [fl EXCEPT ![f].todo = @ \ {x}]
    /\ UNCHANGED <<run, permit, timer, fenced, faults, accepted>>

\* The service answers the send.
SendOk(f) ==
    /\ fl[f].pc = "send"
    /\ fl' = [fl EXCEPT ![f].pc = "ok", ![f].n = 0]
    /\ accepted' = [r \in Runs |-> accepted[r] + IF r \in fl[f].run THEN 1 ELSE 0]
    /\ UNCHANGED <<row, run, permit, timer, fenced, faults>>

\* Mutant: a refused send is taken for a success.
SendErrIgnored(f) ==
    /\ fl[f].pc = "send"
    /\ fl' = [fl EXCEPT ![f].pc = "ok"]
    /\ UNCHANGED <<row, run, permit, timer, fenced, faults, accepted>>

SendErr(f) ==
    /\ fl[f].pc = "send"
    /\ fl' = [fl EXCEPT ![f].pc = "err"]
    /\ UNCHANGED <<row, run, permit, timer, fenced, faults, accepted>>

\* The service accepts the message and the answer is lost.
SendLost(f) ==
    /\ fl[f].pc = "send"
    /\ faults < MaxFaults
    /\ faults' = faults + 1
    /\ fl' = [fl EXCEPT ![f].pc = "err"]
    /\ accepted' = [r \in Runs |-> accepted[r] + IF r \in fl[f].run THEN 1 ELSE 0]
    /\ UNCHANGED <<row, run, permit, timer, fenced>>

\* The flusher goes on with its list.
NextItem(f) == [fl[f] EXCEPT !.pc = "each", !.run = {}, !.n = 0]

\* mark_runtime_final_outbox_sent, for the claim found, whoever made it; a
\* row that is not being sent is left alone and the send still counts.
MarkSent(f) ==
    /\ fl[f].pc = "ok"
    /\ \E r \in fl[f].run :
          IF row[r].status = "sending"
          THEN /\ row' = SettledAs(r, "sent")
               /\ fl' = [fl EXCEPT ![f].pc = "finish", ![f].sent = (f = Scheduler)]
          ELSE /\ fl' = [fl EXCEPT ![f] = [NextItem(f) EXCEPT !.sent = (f = Scheduler)]]
               /\ UNCHANGED row
    /\ UNCHANGED <<run, permit, timer, fenced, faults, accepted>>

\* Where a flusher goes when its call returns: the worker runs on towards the
\* end of its route, the scheduler drains again or waits.
Leave(f) ==
    IF f \in Workers THEN At("busy")
    ELSE IF fl[f].sent THEN At("drain") ELSE At("due")

LeaveOnError(f) == IF f \in Workers THEN At("busy") ELSE At("due")

\* next_due: the scheduler arms its timer when it finds a pending row.
Armed == \E r \in Runs : row[r].status = "pending"

\* The error branch: settle at the last attempt of the listed count, else
\* schedule a retry.  mark_runtime_final_outbox_retry fails, and with it the
\* whole call, when the row is not being sent any more.
MarkFailed(f) ==
    /\ fl[f].pc = "err"
    /\ \E r \in fl[f].run :
          \/ /\ fl[f].n + 1 >= MaxAttempts
             /\ IF CanFail(r)
                THEN /\ row' = SettledAs(r, "failed_terminal")
                     /\ fl' = [fl EXCEPT ![f].pc = "fail", ![f].n = 0]
                ELSE fl' = [fl EXCEPT ![f] = NextItem(f)] /\ UNCHANGED row
             /\ UNCHANGED timer
          \/ /\ fl[f].n + 1 < MaxAttempts
             /\ IF row[r].status = "sending"
                THEN /\ row' = [row EXCEPT ![r].status = "pending",
                                           ![r].due = FALSE, ![r].stale = FALSE]
                     /\ fl' = [fl EXCEPT ![f] = NextItem(f)]
                     /\ UNCHANGED timer
                ELSE /\ fl' = [fl EXCEPT ![f] = LeaveOnError(f)]
                     /\ timer' = IF f = Scheduler THEN Armed ELSE timer
                     /\ UNCHANGED row
    /\ UNCHANGED <<run, permit, fenced, faults, accepted>>

\* finish_active_runtime_run and fail_active_runtime_run
SettleRun(f) ==
    /\ fl[f].pc \in {"finish", "fail"}
    /\ run' = [r \in Runs |->
                 IF r \in fl[f].run /\ run[r] = "active"
                 THEN IF fl[f].pc = "finish" THEN "finished" ELSE "failed"
                 ELSE run[r]]
    /\ fl' = [fl EXCEPT ![f] = NextItem(f)]
    /\ UNCHANGED <<row, permit, timer, fenced, faults, accepted>>

EndFlush(f) ==
    /\ fl[f].pc = "each" /\ fl[f].todo = {}
    /\ fl' = [fl EXCEPT ![f] = Leave(f)]
    /\ timer' = IF Leave(f) = At("due") THEN Armed ELSE timer
    /\ UNCHANGED <<row, run, permit, fenced, faults, accepted>>
-----------------------------------------------------------------------------
(* Wake-ups.                                                               *)

\* Mutant: only a scheduler that waits is notified.
NotifyWaiting(w) ==
    /\ fl[w].pc = "busy"
    /\ fl' = [fl EXCEPT ![w] = At("off")]
    /\ permit' = (permit \/ fl[Scheduler].pc = "wait")
    /\ UNCHANGED <<row, run, timer, fenced, faults, accepted>>

\* A route worker completes: notify_all stores a permit for the scheduler.
Notify(w) ==
    /\ fl[w].pc = "busy"
    /\ fl' = [fl EXCEPT ![w] = At("off")]
    /\ permit' = TRUE
    /\ UNCHANGED <<row, run, timer, fenced, faults, accepted>>

\* Between the query for the next due time and the wait anything may happen.
BeginWait ==
    /\ fl[Scheduler].pc = "due"
    /\ fl' = [fl EXCEPT ![Scheduler] = At("wait")]
    /\ UNCHANGED <<row, run, permit, timer, fenced, faults, accepted>>

WakeUp ==
    /\ fl[Scheduler].pc = "wait"
    /\ fl' = [fl EXCEPT ![Scheduler] = At("drain")]
    /\ timer' = FALSE
    /\ UNCHANGED <<row, run, fenced, faults, accepted>>

\* wait_for_queue_wakeup: notified; the due timer; the reconciliation timer.
WakeByPermit == permit /\ permit' = FALSE /\ WakeUp
WakeByTimer == timer /\ WakeUp /\ UNCHANGED permit
WakeByReconciliation == WakeUp /\ UNCHANGED permit
-----------------------------------------------------------------------------
(* Faults and the fence.                                                   *)

\* recover_stale_active_runtime_runs, at every start of the daemon
RecoveredRuns == [r \in Runs |-> IF run[r] = "active" THEN "failed" ELSE run[r]]

CrashAndRestart ==
    /\ faults < MaxFaults
    /\ faults' = faults + 1
    /\ run' = RecoveredRuns
    /\ fl' = [f \in Flushers |-> IF f = Scheduler THEN At("drain") ELSE At("off")]
    /\ permit' = TRUE
    /\ timer' = FALSE
    /\ UNCHANGED <<row, fenced, accepted>>

\* A statement of the call fails: the call returns with what it has done so
\* far, and a claim it holds is left behind.
FlushFails(f) ==
    /\ faults < MaxFaults
    /\ fl[f].pc \in {"each", "send", "ok", "err", "finish", "fail"}
    /\ faults' = faults + 1
    /\ fl' = [fl EXCEPT ![f] = LeaveOnError(f)]
    /\ timer' = IF f = Scheduler THEN Armed ELSE timer
    /\ UNCHANGED <<row, run, permit, fenced, accepted>>

\* The controller identity changes or the binding is disabled, for good.
FenceRises ==
    /\ ~fenced
    /\ fenced' = TRUE
    /\ UNCHANGED <<row, run, fl, permit, timer, faults, accepted>>
-----------------------------------------------------------------------------
Step(f) ==
    \/ BeginFlush(f)
    \/ \E x \in fl[f].todo : Claim(f, x) \/ FenceOff(f, x)
    \/ SendOk(f) \/ SendErr(f) \/ SendLost(f)
    \/ MarkSent(f) \/ MarkFailed(f) \/ SettleRun(f) \/ EndFlush(f)

TimePasses == \E r \in Runs : BecomeDue(r) \/ BecomeStale(r)

Next ==
    \/ \E w \in Workers, r \in Runs : Queue(w, r)
    \/ TimePasses
    \/ \E r \in Runs : SlowSend(r)
    \/ \E f \in Flushers : Step(f) \/ FlushFails(f)
    \/ \E w \in Workers : Notify(w)
    \/ BeginWait \/ WakeByPermit \/ WakeByTimer \/ WakeByReconciliation
    \/ CrashAndRestart \/ FenceRises

\* Threads run on, a send is answered, timers fire.  Nothing is assumed of the
\* permit, the due timer or the worker's notification: reconciliation alone
\* keeps the scheduler going.
Fairness ==
    /\ \A w \in Workers : WF_vars(Step(w))
    /\ WF_vars(Step(Scheduler) \/ BeginWait \/ WakeByReconciliation)
    /\ WF_vars(TimePasses)

Spec == Init /\ [][Next]_vars /\ Fairness
-----------------------------------------------------------------------------
(* Properties.                                                             *)

\* However the flushers interleave, the service accepts a reply once, and
\* once more for each fault: only a crash after the send, a claim that went
\* stale under a live sender, or a lost answer can cause a second copy.
\* (mark_runtime_final_outbox_sending is the only exclusion between them.)
CopiesExplained ==
    \A r \in Runs : accepted[r] <= 1 + faults

\* The retry limit works although the attempt count a flusher compares is the
\* one it listed: each other flusher may add one attempt with an older copy,
\* each fault one more, and then the row settles.
AttemptsBounded ==
    \A r \in Runs :
        row[r].count <= MaxAttempts + (Cardinality(Flushers) - 1) + faults

\* Both bounds together (with the type invariant).
SendsBounded == TypeOK /\ CopiesExplained /\ AttemptsBounded

\* Nothing is reported as sent that the service did not accept: a row is sent,
\* and a run finished, only after an accepted copy; and a run is finished only
\* if its row says sent.
SentIsHonest ==
    \A r \in Runs :
        /\ row[r].status = "sent" => accepted[r] >= 1
        /\ run[r] = "finished" => row[r].status = "sent"

\* No wake-up is lost between the drain that found nothing and the wait: while
\* the scheduler waits, a pending row has a timer, a stored permit, or a worker
\* that will still notify.
NoLostWakeup ==
    fl[Scheduler].pc = "wait" /\ (\E r \in Runs : row[r].status = "pending")
        => timer \/ permit \/ \E w \in Workers : fl[w].pc # "off"

\* What the task sees of a row.
FinalOf(status) ==
    CASE status = "none" -> "none"
      [] status \in {"pending", "sending"} -> "pending"
      [] status = "sent" -> "sent"
      [] status = "failed_terminal" -> "failed"

Final == [r \in Runs |-> FinalOf(row[r].status)]

D == INSTANCE ReplyDelivery WITH final <- Final

\* The outbox implements the promise made to the task: a queued reply settles
\* once, stays settled, and always settles in the end.
ImplementsDelivery == D!SpecFinal
=============================================================================
