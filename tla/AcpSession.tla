----------------------------- MODULE AcpSession -----------------------------
(***************************************************************************)
(* The durable session record of the daemon's ACP host (acp/store.rs) and  *)
(* the functions that change it.  A session runs one task at a time; a     *)
(* private session has one waiting slot besides.  What a session stores of *)
(* text, tools, models and history is left out: nothing here depends on it.*)
(***************************************************************************)
CONSTANTS
    Runs,   \* runs of tasks submitted to this session
    None    \* no run

SessionKinds == {"private", "group", "delegated"}

\* A question of the active run: "ended" stands for expired or closed.
QuestionStates == {"none", "open", "answered", "ended"}

SessionType ==
    [kind : SessionKinds, active : Runs \cup {None}, waiting : Runs \cup {None},
     paused : BOOLEAN, stopping : BOOLEAN, execAfter : BOOLEAN,
     lost : BOOLEAN, native : BOOLEAN, question : QuestionStates]

\* Session::new
NewSession(kind) ==
    [kind |-> kind, active |-> None, waiting |-> None, paused |-> FALSE,
     stopping |-> FALSE, execAfter |-> FALSE, lost |-> FALSE,
     native |-> FALSE, question |-> "none"]

Busy(s) == s.active # None \/ s.waiting # None

\* Session::start
Start(s, r) ==
    [s EXCEPT !.active = r, !.stopping = FALSE, !.execAfter = FALSE,
              !.paused = FALSE, !.question = "none"]

\* Session::submit: when it refuses, and what it does otherwise.
SubmitRefused(s) ==
    s.lost \/ (Busy(s) /\ (s.kind # "private" \/ s.waiting # None))

Submitted(s, r) == IF Busy(s) THEN [s EXCEPT !.waiting = r] ELSE Start(s, r)

\* close_questions: pending questions end, answered ones keep their answer.
Closed(q) == IF q = "open" THEN "ended" ELSE q

\* Session::complete: whether the waiting task may follow, which one does,
\* and the session afterwards.
Proceed(s, outcome) ==
    \/ outcome = "finished" /\ ~s.stopping
    \/ outcome \in {"cancelled", "finished"} /\ s.execAfter

NextWork(s, outcome) ==
    IF Proceed(s, outcome) /\ ~s.lost THEN s.waiting ELSE None

Completed(s, outcome) ==
    LET ended == [s EXCEPT !.active = None, !.question = "none",
                           !.stopping = FALSE, !.execAfter = FALSE,
                           !.paused = ~Proceed(s, outcome) /\ s.waiting # None]
    IN  IF NextWork(s, outcome) = None
        THEN ended
        ELSE Start([ended EXCEPT !.waiting = None], s.waiting)

\* Session::command, one operator per accepted command.
StopAsked(s) ==
    [s EXCEPT !.stopping = TRUE, !.question = Closed(@), !.paused = s.waiting # None]

\* Mutant: the waiting slot keeps the cancelled task.
WaitingCancelledKept(s) == [s EXCEPT !.paused = FALSE, !.execAfter = FALSE]

WaitingCancelled(s) ==
    [s EXCEPT !.waiting = None, !.paused = FALSE, !.execAfter = FALSE]

ExecuteAfterStop(s) ==
    [s EXCEPT !.stopping = TRUE, !.question = Closed(@), !.execAfter = TRUE]

WaitingStarted(s) == Start([s EXCEPT !.waiting = None], s.waiting)

ContextReset(s) == [s EXCEPT !.native = FALSE, !.lost = FALSE]

\* Mutant: the interrupted task goes back to the waiting slot.
InterruptedRequeued(s) ==
    IF ~Busy(s) THEN s
    ELSE [s EXCEPT !.active = None, !.waiting = IF @ = None THEN s.active ELSE @,
                   !.paused = TRUE,
                   !.stopping = FALSE, !.execAfter = FALSE, !.question = "none"]

\* recover, for each session at the start of the daemon
Interrupted(s) ==
    IF ~Busy(s) THEN s
    ELSE [s EXCEPT !.active = None, !.paused = s.waiting # None,
                   !.stopping = FALSE, !.execAfter = FALSE, !.question = "none"]

\* request_shutdown, for each session
ShutDown(s) ==
    IF s.active = None THEN s
    ELSE [s EXCEPT !.stopping = TRUE, !.question = Closed(@),
                   !.execAfter = FALSE, !.paused = s.waiting # None]
-----------------------------------------------------------------------------
(* Task records (acp/task_records.rs).                                     *)

Terminal == {"finished", "cancelled", "failed", "interrupted"}
RecordStates == Terminal \cup {"none", "running", "stopping", "waiting", "paused"}

\* The records after save: the run that ended, if any, the active run and the
\* waiting run are captured; persist keeps a terminal record as it is.
SavedRecords(rec, s, ended, outcome) ==
    [r \in Runs |->
        CASE rec[r] \in Terminal -> rec[r]
          [] rec[r] \notin Terminal /\ r = ended -> outcome
          [] rec[r] \notin Terminal /\ r # ended /\ r = s.active ->
                IF s.stopping THEN "stopping" ELSE "running"
          [] rec[r] \notin Terminal /\ r # ended /\ r # s.active /\ r = s.waiting ->
                IF s.paused THEN "paused" ELSE "waiting"
          [] OTHER -> rec[r]]
=============================================================================
