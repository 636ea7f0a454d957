--------------------------- MODULE AcpHostProofs ---------------------------
(***************************************************************************)
(* Proofs about AcpHost, for every set of runs and all bounds.             *)
(*                                                                         *)
(* The invariant ties a run's thread to the session (only the thread of    *)
(* the active run executes, and a thread that has ended its task is the    *)
(* only one to hold the next one), the session to the records and replies, *)
(* and the row in runtime_run to both.  Most actions are steps of one      *)
(* thread that keep the active and the waiting task; these are shown to be *)
(* Local and handled together.  Six actions change the tasks themselves.   *)
(***************************************************************************)
EXTENDS AcpHost, TLAPS

-----------------------------------------------------------------------------
(* The session functions, field by field.                                    *)

\* The functions that keep the active and the waiting task.
Alike(s, t) == t \in SessionType /\ t.active = s.active /\ t.waiting = s.waiting

\* The fields of the session record that the other lemmas need.
LEMMA SessionFields ==
    ASSUME NEW s \in SessionType
    PROVE  /\ s.active \in Runs \cup {None} /\ s.waiting \in Runs \cup {None}
           /\ s.stopping \in BOOLEAN
PROOF BY DEF SessionType

\* Opening or losing the native session, a question and a reset of the context
\* (acp/store.rs) keep the tasks and the stop flag.
LEMMA FlagsKeep ==
    ASSUME NEW s \in SessionType
    PROVE  /\ Alike(s, [s EXCEPT !.native = TRUE]) /\ [s EXCEPT !.native = TRUE].stopping = s.stopping
           /\ Alike(s, [s EXCEPT !.lost = TRUE]) /\ [s EXCEPT !.lost = TRUE].stopping = s.stopping
           /\ \A q \in QuestionStates :
                /\ Alike(s, [s EXCEPT !.question = q])
                /\ [s EXCEPT !.question = q].stopping = s.stopping
           /\ Alike(s, ContextReset(s)) /\ ContextReset(s).stopping = s.stopping
PROOF BY DEF SessionType, Alike, ContextReset

\* The four ways to ask the active task to stop keep the tasks and set the
\* flag: the control check, the stop and execute commands, and
\* request_shutdown.
LEMMA StopsKeep ==
    ASSUME NEW s \in SessionType
    PROVE  /\ Alike(s, [s EXCEPT !.stopping = TRUE, !.execAfter = FALSE])
           /\ [s EXCEPT !.stopping = TRUE, !.execAfter = FALSE].stopping
           /\ Alike(s, StopAsked(s)) /\ StopAsked(s).stopping
           /\ Alike(s, ExecuteAfterStop(s)) /\ ExecuteAfterStop(s).stopping
           /\ Alike(s, ShutDown(s)) /\ (s.active # None => ShutDown(s).stopping)
           /\ s.active = None => ShutDown(s) = s
PROOF
  <1>1. Closed(s.question) \in QuestionStates
    BY DEF Closed, SessionType, QuestionStates
  <1>2. /\ Alike(s, [s EXCEPT !.stopping = TRUE, !.execAfter = FALSE])
        /\ [s EXCEPT !.stopping = TRUE, !.execAfter = FALSE].stopping
    BY DEF SessionType, Alike
  <1>3. Alike(s, StopAsked(s)) /\ StopAsked(s).stopping
    BY <1>1 DEF SessionType, Alike, StopAsked
  <1>4. Alike(s, ExecuteAfterStop(s)) /\ ExecuteAfterStop(s).stopping
    BY <1>1 DEF SessionType, Alike, ExecuteAfterStop
  <1>5. /\ Alike(s, ShutDown(s)) /\ (s.active # None => ShutDown(s).stopping)
        /\ s.active = None => ShutDown(s) = s
    <2>1. CASE s.active = None
      BY <2>1 DEF ShutDown, Alike
    <2>2. CASE s.active # None
      BY <1>1, <2>2 DEF SessionType, Alike, ShutDown
    <2> QED BY <2>1, <2>2
  <1> QED BY <1>2, <1>3, <1>4, <1>5

\* Session::start makes the run the active one, not stopping, and leaves the
\* waiting slot alone.
LEMMA StartFields ==
    ASSUME NEW s \in SessionType, NEW r \in Runs \cup {None}
    PROVE  /\ Start(s, r) \in SessionType /\ Start(s, r).active = r
           /\ Start(s, r).waiting = s.waiting /\ ~Start(s, r).stopping
PROOF BY DEF SessionType, Start, QuestionStates

\* Session::submit queues behind a busy session whose slot is free, and starts
\* the run in an idle one.
LEMMA SubmittedFields ==
    ASSUME NEW s \in SessionType, NEW r \in Runs, ~SubmitRefused(s)
    PROVE  /\ Submitted(s, r) \in SessionType
           /\ Busy(s) => /\ Submitted(s, r).active = s.active /\ Submitted(s, r).waiting = r
                         /\ Submitted(s, r).stopping = s.stopping /\ s.waiting = None
                         /\ s.active # None
           /\ ~Busy(s) => /\ Submitted(s, r).active = r /\ Submitted(s, r).waiting = None
                          /\ ~Submitted(s, r).stopping
PROOF
  <1>1. CASE Busy(s)
    BY <1>1 DEF Submitted, SubmitRefused, SessionType, Busy
  <1>2. CASE ~Busy(s)
    BY <1>2, StartFields DEF Submitted, Busy
  <1> QED BY <1>1, <1>2

\* The operations that take the waiting or the active task out of the session:
\* cancel, execute, and the recovery after a restart.
LEMMA MemberFields ==
    ASSUME NEW s \in SessionType
    PROVE  /\ WaitingCancelled(s) \in SessionType /\ WaitingCancelled(s).active = s.active
           /\ WaitingCancelled(s).waiting = None /\ WaitingCancelled(s).stopping = s.stopping
           /\ WaitingStarted(s) \in SessionType /\ WaitingStarted(s).active = s.waiting
           /\ WaitingStarted(s).waiting = None /\ ~WaitingStarted(s).stopping
           /\ Interrupted(s) \in SessionType /\ Interrupted(s).active = None
           /\ Interrupted(s).waiting = s.waiting
PROOF
  <1>1. /\ WaitingCancelled(s) \in SessionType /\ WaitingCancelled(s).active = s.active
        /\ WaitingCancelled(s).waiting = None /\ WaitingCancelled(s).stopping = s.stopping
    BY DEF WaitingCancelled, SessionType
  <1>2. /\ [s EXCEPT !.waiting = None] \in SessionType /\ s.waiting \in Runs \cup {None}
        /\ [s EXCEPT !.waiting = None].waiting = None
    BY DEF SessionType
  <1>3. /\ WaitingStarted(s) \in SessionType /\ WaitingStarted(s).active = s.waiting
        /\ WaitingStarted(s).waiting = None /\ ~WaitingStarted(s).stopping
    BY <1>2, StartFields DEF WaitingStarted
  <1>4. /\ Interrupted(s) \in SessionType /\ Interrupted(s).active = None
        /\ Interrupted(s).waiting = s.waiting
    <2>1. CASE Busy(s)
      BY <2>1 DEF Interrupted, SessionType, QuestionStates
    <2>2. CASE ~Busy(s)
      BY <2>2 DEF Interrupted, Busy
    <2> QED BY <2>1, <2>2
  <1> QED BY <1>1, <1>3, <1>4

\* Session::complete clears the active task, and the waiting one takes its
\* place exactly when it is the next work.
LEMMA CompletedFields ==
    ASSUME NEW s \in SessionType, NEW outcome
    PROVE  /\ Completed(s, outcome) \in SessionType /\ ~Completed(s, outcome).stopping
           /\ Completed(s, outcome).active = NextWork(s, outcome)
           /\ NextWork(s, outcome) \in {None, s.waiting}
           /\ Completed(s, outcome).waiting =
                IF NextWork(s, outcome) = None THEN s.waiting ELSE None
PROOF
  <1> DEFINE ended == [s EXCEPT !.active = None, !.question = "none",
                                !.stopping = FALSE, !.execAfter = FALSE,
                                !.paused = ~Proceed(s, outcome) /\ s.waiting # None]
  <1>1. Proceed(s, outcome) \in BOOLEAN
    BY DEF Proceed
  <1>2. /\ ended \in SessionType /\ ended.active = None /\ ended.waiting = s.waiting
        /\ ~ended.stopping /\ s.waiting \in Runs \cup {None}
    BY <1>1 DEF SessionType, QuestionStates
  <1>3. Completed(s, outcome) = IF NextWork(s, outcome) = None THEN ended
                                ELSE Start([ended EXCEPT !.waiting = None], s.waiting)
    BY DEF Completed
  <1>4. NextWork(s, outcome) \in {None, s.waiting}
    BY DEF NextWork
  <1> HIDE DEF ended
  <1>5. ASSUME NEW t \in SessionType
        PROVE  /\ [t EXCEPT !.waiting = None] \in SessionType
               /\ [t EXCEPT !.waiting = None].waiting = None
    BY DEF SessionType
  <1>6. CASE NextWork(s, outcome) = None
    BY <1>2, <1>3, <1>4, <1>6
  <1>7. CASE NextWork(s, outcome) # None
    <2>1. Completed(s, outcome) = Start([ended EXCEPT !.waiting = None], s.waiting)
      BY <1>3, <1>7
    <2> DEFINE t == [ended EXCEPT !.waiting = None]
    <2>2. t \in SessionType /\ t.waiting = None
      BY <1>2, <1>5
    <2> HIDE DEF t
    <2>3. Completed(s, outcome) = Start(t, s.waiting)
      BY <2>1 DEF t
    <2> QED BY <1>2, <1>4, <1>7, <2>2, <2>3, StartFields
  <1> QED BY <1>6, <1>7

\* persist keeps the ended records, ends one, and refreshes the live ones.
LEMMA SavedFields ==
    ASSUME NEW R \in [Runs -> RecordStates], NEW s \in SessionType,
           NEW ended, NEW outcome \in Terminal \cup {"none"}, NEW r \in Runs
    PROVE  LET new == SavedRecords(R, s, ended, outcome)
           IN  /\ new \in [Runs -> RecordStates]
               /\ R[r] \in Terminal => new[r] = R[r]
               /\ R[r] \notin Terminal /\ r = ended => new[r] = outcome
               /\ R[r] \notin Terminal /\ r # ended => new[r] \notin Terminal
               /\ r \notin {ended, s.active, s.waiting} => new[r] = R[r]
PROOF
  <1> DEFINE new == SavedRecords(R, s, ended, outcome)
  <1>1. ASSUME NEW q \in Runs
        PROVE  /\ new[q] \in RecordStates
               /\ R[q] \in Terminal => new[q] = R[q]
               /\ R[q] \notin Terminal /\ q = ended => new[q] = outcome
               /\ R[q] \notin Terminal /\ q # ended => new[q] \notin Terminal
               /\ q \notin {ended, s.active, s.waiting} => new[q] = R[q]
    <2>1. CASE R[q] \in Terminal
      BY <2>1 DEF SavedRecords, RecordStates
    <2>2. CASE R[q] \notin Terminal /\ q = ended
      BY <2>2 DEF SavedRecords, RecordStates
    <2>3. CASE R[q] \notin Terminal /\ q # ended /\ q = s.active
      BY <2>3 DEF SavedRecords, RecordStates, Terminal
    <2>4. CASE R[q] \notin Terminal /\ q # ended /\ q # s.active /\ q = s.waiting
      BY <2>4 DEF SavedRecords, RecordStates, Terminal
    <2>5. CASE R[q] \notin Terminal /\ q # ended /\ q # s.active /\ q # s.waiting
      BY <2>5 DEF SavedRecords
    <2> QED BY <2>1, <2>2, <2>3, <2>4, <2>5
  <1>2. new = [q \in Runs |-> new[q]]
    BY DEF SavedRecords
  <1>3. new \in [Runs -> RecordStates]
    BY <1>1, <1>2
  <1> QED BY <1>1, <1>3

-----------------------------------------------------------------------------
(* The type invariant.                                                       *)

\* The records stay records.
LEMMA SavedTypes ==
    ASSUME NEW R \in [Runs -> RecordStates], NEW s \in SessionType,
           NEW ended, NEW outcome \in Terminal \cup {"none"}
    PROVE  SavedRecords(R, s, ended, outcome) \in [Runs -> RecordStates]
PROOF
  <1> DEFINE new == SavedRecords(R, s, ended, outcome)
  <1>1. new = [r \in Runs |-> new[r]]
    BY DEF SavedRecords
  <1>2. \A r \in Runs : new[r] \in RecordStates
    BY SavedFields
  <1> QED BY <1>1, <1>2

\* A save keeps the types of what it writes.
LEMMA SaveTypes ==
    ASSUME TypeOK, NEW s \in SessionType, NEW ended, NEW outcome \in Terminal \cup {"none"},
           SaveEnding(s, ended, outcome)
    PROVE  sess' \in SessionType /\ rec' \in [Runs -> RecordStates] /\ probe' \in ProbeType
PROOF
  <1>1. sess' = s /\ rec' = SavedRecords(rec, s, ended, outcome)
    BY DEF SaveEnding
  <1>2. probe' \in ProbeType
    BY DEF TypeOK, SaveEnding, ProbeType
  <1>3. rec' \in [Runs -> RecordStates]
    BY <1>1, SavedTypes DEF TypeOK
  <1> QED BY <1>1, <1>2, <1>3

\* A thread goes on to another place, or starts the next task.
LEMMA ThreadTypes ==
    ASSUME TypeOK, NEW r \in Runs
    PROVE  /\ \A pc \in Pcs : Go(r, pc) => th' \in [Runs -> ThreadType]
           /\ \A next \in Runs \cup {None} : GoOn(r, next) => th' \in [Runs -> ThreadType]
           /\ \A pc \in Pcs, next \in Runs \cup {None} :
                [th EXCEPT ![r] = [pc |-> pc, next |-> next]] \in [Runs -> ThreadType]
           /\ th[r] \in ThreadType /\ th[r].next \in Runs \cup {None}
           /\ [q \in Runs |-> Idle] \in [Runs -> ThreadType]
PROOF
  <1>1. /\ th \in [Runs -> ThreadType] /\ th[r] \in ThreadType
        /\ \A pc \in Pcs, next \in Runs \cup {None} : [pc |-> pc, next |-> next] \in ThreadType
    BY DEF TypeOK, ThreadType
  <1>2. Idle \in ThreadType /\ Pc("start") \in ThreadType /\ \A pc \in Pcs : Pc(pc) \in ThreadType
    BY DEF Idle, Pc, Pcs, Executing, ThreadType
  <1>3. \A pc \in Pcs : Go(r, pc) => th' \in [Runs -> ThreadType]
    BY <1>1, <1>2 DEF Go
  <1>4. \A next \in Runs \cup {None} : GoOn(r, next) => th' \in [Runs -> ThreadType]
    BY <1>1, <1>2 DEF GoOn
  <1>5. th[r].next \in Runs \cup {None}
    BY <1>1 DEF ThreadType
  <1> QED BY <1>1, <1>2, <1>3, <1>4, <1>5

\* Every action keeps the types.
LEMMA TypeStep ==
    ASSUME TypeOK, [Next]_vars
    PROVE  TypeOK'
PROOF
  <1> USE AcpHostAssumption
  <1>a. /\ sess \in SessionType /\ "none" \in Terminal \cup {"none"}
        /\ sess.active \in Runs \cup {None} /\ sess.waiting \in Runs \cup {None}
        /\ NoProbe \in ProbeType /\ NoPoll \in [saw : BOOLEAN, late : BOOLEAN]
        /\ \A q \in {"open", "answered", "ended"} : q \in QuestionStates
    BY SessionFields DEF TypeOK, NoProbe, NoPoll, ProbeType, NewSession, SessionType, SessionKinds,
          QuestionStates
  <1>b. \A pc \in {"idle", "gate", "admit", "rejected", "start", "turn", "failing", "fenced", "text",
                   "cancelled", "error", "endCancelled", "endFailed", "flush", "failAfter"} : pc \in Pcs
    BY DEF Pcs, Executing, Connected
  <1>c. \A b, c \in BOOLEAN : /\ [probe EXCEPT !.cancel = b] \in ProbeType
                           /\ [probe EXCEPT !.fresh = c] \in ProbeType
    BY DEF TypeOK, ProbeType
  <1>1. ASSUME NEW r \in Runs, Route(r) PROVE TypeOK'
    BY <1>1, <1>b, ThreadTypes, <1>c DEF Route, TypeOK, durable, memory, history
  <1>2. ASSUME NEW r \in Runs, AdmitExisting(r) PROVE TypeOK'
    BY <1>2, <1>b, ThreadTypes DEF AdmitExisting, TypeOK, durable, memory, history
  <1>3. ASSUME NEW r \in Runs, AdmitBusy(r) PROVE TypeOK'
    BY <1>3, <1>b, ThreadTypes DEF AdmitBusy, TypeOK, durable, memory, history
  <1>4. ASSUME NEW r \in Runs, AdmitInsert(r) PROVE TypeOK'
    BY <1>4, <1>b, ThreadTypes DEF AdmitInsert, TypeOK, durable, memory, history
  <1>5. ASSUME NEW r \in Runs, AdmitSubmit(r) PROVE TypeOK'
    <2>1. th' \in [Runs -> ThreadType]
      BY <1>5, <1>b, ThreadTypes DEF AdmitSubmit
    <2>2. sess' \in SessionType /\ rec' \in [Runs -> RecordStates] /\ probe' \in ProbeType
      <3>1. CASE SubmitRefused(sess)
        BY <1>5, <3>1 DEF AdmitSubmit, TypeOK
      <3>2. CASE ~SubmitRefused(sess)
        BY <1>5, <1>a, <3>2, SubmittedFields, SaveTypes DEF AdmitSubmit, Save
      <3> QED BY <3>1, <3>2
    <2> QED BY <1>5, <2>1, <2>2 DEF AdmitSubmit, TypeOK, history
  <1>6. ASSUME NEW r \in Runs, Reject(r) PROVE TypeOK'
    BY <1>6, <1>b, ThreadTypes DEF Reject, TypeOK, durable, memory, history, FailActive
  <1>7. ASSUME NEW r \in Runs, TurnStart(r) PROVE TypeOK'
    BY <1>7, <1>b, ThreadTypes, <1>a DEF TurnStart, TypeOK, durable, memory, history
  <1>8. ASSUME NEW r \in Runs, TurnUnavailable(r) PROVE TypeOK'
    BY <1>8, <1>b, ThreadTypes DEF TurnUnavailable, TypeOK, durable, memory, history
  <1>9. ASSUME NEW r \in Runs, OpenNative(r) PROVE TypeOK'
    <2>1. [sess EXCEPT !.native = TRUE] \in SessionType
      BY <1>a, FlagsKeep DEF Alike
    <2>2. SaveEnding([sess EXCEPT !.native = TRUE], None, "none")
      BY <1>9 DEF OpenNative, Save
    <2>3. sess' \in SessionType /\ rec' \in [Runs -> RecordStates] /\ probe' \in ProbeType
      BY <1>a, <2>1, <2>2, SaveTypes
    <2> QED BY <1>9, <1>a, <2>3 DEF OpenNative, TypeOK, durable, memory, history
  <1>10. ASSUME NEW r \in Runs, LoseContext(r) PROVE TypeOK'
    <2>1. [sess EXCEPT !.lost = TRUE] \in SessionType
      BY <1>a, FlagsKeep DEF Alike
    <2>2. SaveEnding([sess EXCEPT !.lost = TRUE], None, "none")
      BY <1>10 DEF LoseContext, Save
    <2>3. sess' \in SessionType /\ rec' \in [Runs -> RecordStates] /\ probe' \in ProbeType
      BY <1>a, <2>1, <2>2, SaveTypes
    <2> QED BY <1>10, <1>a, <2>3, <1>b, ThreadTypes DEF LoseContext, TypeOK, durable, memory, history
  <1>11. ASSUME NEW r \in Runs, Ask(r) PROVE TypeOK'
    <2>1. [sess EXCEPT !.question = "open"] \in SessionType
      BY <1>a, FlagsKeep DEF Alike
    <2>2. SaveEnding([sess EXCEPT !.question = "open"], None, "none")
      BY <1>11 DEF Ask, Save
    <2>3. sess' \in SessionType /\ rec' \in [Runs -> RecordStates] /\ probe' \in ProbeType
      BY <1>a, <2>1, <2>2, SaveTypes
    <2> QED BY <1>11, <1>a, <2>3 DEF Ask, TypeOK, durable, memory, history
  <1>12. ASSUME NEW r \in Runs, Poll(r) PROVE TypeOK'
    BY <1>12 DEF Poll, TypeOK, durable, memory, history
  <1>13. CASE ExpiryPasses
    BY <1>13 DEF ExpiryPasses, TypeOK, durable, memory, history
  <1>14. ASSUME NEW r \in Runs, ExpireOrAnswer(r) PROVE TypeOK'
    <2>1. CASE sess.question = "open"
      <3>1. [sess EXCEPT !.question = "ended"] \in SessionType
        BY <1>a, FlagsKeep DEF Alike
      <3>2. SaveEnding([sess EXCEPT !.question = "ended"], None, "none")
        BY <1>14, <2>1 DEF ExpireOrAnswer, Save
      <3>3. sess' \in SessionType /\ rec' \in [Runs -> RecordStates] /\ probe' \in ProbeType
        BY <1>a, <3>1, <3>2, SaveTypes
      <3>4. th' \in [Runs -> ThreadType]
        BY <1>14, <2>1, <1>b, ThreadTypes DEF ExpireOrAnswer
      <3> QED BY <1>14, <3>3, <3>4 DEF ExpireOrAnswer, TypeOK, history
    <2>2. CASE sess.question # "open"
      BY <1>14, <2>2 DEF ExpireOrAnswer, TypeOK, history
    <2> QED BY <2>1, <2>2
  <1>15. ASSUME NEW r \in Runs, ControlCheck(r) PROVE TypeOK'
    <2>1. [sess EXCEPT !.stopping = TRUE, !.execAfter = FALSE] \in SessionType
      BY <1>a, StopsKeep DEF Alike
    <2>2. SaveEnding([sess EXCEPT !.stopping = TRUE, !.execAfter = FALSE], None, "none")
      BY <1>15 DEF ControlCheck, Save
    <2>3. sess' \in SessionType /\ rec' \in [Runs -> RecordStates] /\ probe' \in ProbeType
      BY <1>a, <2>1, <2>2, SaveTypes
    <2> QED BY <1>15, <1>a, <2>3, <1>b, ThreadTypes DEF ControlCheck, TypeOK, durable, memory, history
  <1>16. ASSUME NEW r \in Runs, TurnEnds(r) PROVE TypeOK'
    <2>1. \A outcome \in Outcomes(r) : outcome \in Pcs
      BY <1>16, <1>b DEF Outcomes, TurnEnds, Connected
    <2> QED BY <1>16, <2>1, ThreadTypes DEF TurnEnds, TypeOK, durable, memory, history
  <1>17. ASSUME NEW r \in Runs, FailRun(r) PROVE TypeOK'
    <2>1. probe' \in ProbeType
      BY <1>17 DEF FailRun, TypeOK, ProbeType
    <2> QED BY <1>17, <1>b, <2>1, ThreadTypes DEF FailRun, FailActive, TypeOK, history
  <1>18. ASSUME NEW r \in Runs, CompleteTask(r) PROVE TypeOK'
    <2> DEFINE outcome == IF th[r].pc = "endCancelled" THEN "cancelled" ELSE "failed"
    <2>1. outcome \in Terminal
      BY DEF Terminal
    <2>2. SaveEnding(Completed(sess, outcome), r, outcome) /\ GoOn(r, NextWork(sess, outcome))
      BY <1>18 DEF CompleteTask
    <2> HIDE DEF outcome
    <2>3. Completed(sess, outcome) \in SessionType /\ NextWork(sess, outcome) \in Runs \cup {None}
      BY <1>a, CompletedFields
    <2>4. sess' \in SessionType /\ rec' \in [Runs -> RecordStates] /\ probe' \in ProbeType
      BY <2>1, <2>2, <2>3, SaveTypes
    <2>5. th' \in [Runs -> ThreadType]
      BY <2>2, <2>3, ThreadTypes
    <2> QED BY <1>18, <1>a, <2>4, <2>5 DEF CompleteTask, TypeOK, history
  <1>19. ASSUME NEW r \in Runs, FinishTask(r) PROVE TypeOK'
    <2> DEFINE outcome == IF sess.stopping THEN "cancelled" ELSE "finished"
               pc == IF sess.stopping THEN "failAfter" ELSE "flush"
    <2>1. outcome \in Terminal /\ pc \in Pcs
      BY <1>b DEF Terminal
    <2>2. /\ SaveEnding(Completed(sess, outcome), r, outcome)
          /\ th' = [th EXCEPT ![r] = [pc |-> pc, next |-> NextWork(sess, outcome)]]
      BY <1>19 DEF FinishTask
    <2>3. final' \in [Runs -> ReplyDelivery!FinalStates]
      BY <1>19 DEF FinishTask, TypeOK, ReplyDelivery!QueueFinal, ReplyDelivery!FinalStates
    <2> HIDE DEF outcome, pc
    <2>4. Completed(sess, outcome) \in SessionType /\ NextWork(sess, outcome) \in Runs \cup {None}
      BY <1>a, CompletedFields
    <2>5. sess' \in SessionType /\ rec' \in [Runs -> RecordStates] /\ probe' \in ProbeType
      BY <2>1, <2>2, <2>4, SaveTypes
    <2>6. th' \in [Runs -> ThreadType]
      BY <2>1, <2>2, <2>4, ThreadTypes
    <2> QED BY <1>19, <1>a, <2>3, <2>5, <2>6 DEF FinishTask, TypeOK, history
  <1>20. ASSUME NEW r \in Runs, FinishFails(r) PROVE TypeOK'
    BY <1>20, <1>b, ThreadTypes DEF FinishFails, TypeOK, durable, memory, history
  <1>21. ASSUME NEW r \in Runs, AfterFinish(r) PROVE TypeOK'
    <2>1. th' \in [Runs -> ThreadType]
      BY <1>21, ThreadTypes DEF AfterFinish
    <2> QED BY <1>21, <2>1 DEF AfterFinish, FailActive, TypeOK, history
  <1>22. ASSUME NEW r \in Runs, WorkerLost(r) PROVE TypeOK'
    BY <1>22, <1>b, ThreadTypes DEF WorkerLost, TypeOK, durable, memory, history
  <1>23. ASSUME NEW r \in Runs, Deliver(r) PROVE TypeOK'
    <2>1. final' \in [Runs -> ReplyDelivery!FinalStates]
      BY <1>23 DEF Deliver, TypeOK, ReplyDelivery!Settle, ReplyDelivery!SettleFinal, ReplyDelivery!FinalStates
    <2> QED BY <1>23, <2>1 DEF Deliver, TypeOK, memory, history
  <1>24. ASSUME NEW r \in Runs, SettleRun(r) PROVE TypeOK'
    BY <1>24 DEF SettleRun, TypeOK, durable, memory, history
  <1>25. ASSUME NEW r \in Runs, Stop(r) PROVE TypeOK'
    <2>1. StopAsked(sess) \in SessionType
      BY <1>a, StopsKeep DEF Alike
    <2>2. SaveEnding(StopAsked(sess), None, "none")
      BY <1>25 DEF Stop, Save
    <2>3. sess' \in SessionType /\ rec' \in [Runs -> RecordStates] /\ probe' \in ProbeType
      BY <1>a, <2>1, <2>2, SaveTypes
    <2> QED BY <1>25, <1>a, <2>3 DEF Stop, TypeOK, durable, memory, history
  <1>26. ASSUME NEW r \in Runs, CancelWaiting(r) PROVE TypeOK'
    <2>1. WaitingCancelled(sess) \in SessionType
      BY <1>a, MemberFields DEF Alike
    <2>2. SaveEnding(WaitingCancelled(sess), r, "cancelled")
      BY <1>26 DEF CancelWaiting, Save
    <2>3. sess' \in SessionType /\ rec' \in [Runs -> RecordStates] /\ probe' \in ProbeType
      BY <1>a, <2>1, <2>2, SaveTypes DEF Terminal
    <2> QED BY <1>26, <1>a, <2>3 DEF CancelWaiting, TypeOK, durable, memory, history
  <1>27. ASSUME NEW r \in Runs, ExecuteWaiting(r) PROVE TypeOK'
    <2>1. CASE sess.active # None
      <3>1. /\ SaveEnding(ExecuteAfterStop(sess), None, "none") /\ th' = th
            /\ stopped' = stopped \cup {sess.active}
        BY <1>27, <2>1 DEF ExecuteWaiting, Save
      <3>2. ExecuteAfterStop(sess) \in SessionType
        BY <1>a, StopsKeep DEF Alike
      <3>3. sess' \in SessionType /\ rec' \in [Runs -> RecordStates] /\ probe' \in ProbeType
        BY <1>a, <3>1, <3>2, SaveTypes
      <3> QED BY <1>27, <1>a, <2>1, <3>1, <3>3 DEF ExecuteWaiting, TypeOK
    <2>2. CASE sess.active = None
      <3>1. SaveEnding(WaitingStarted(sess), None, "none") /\ Go(r, "start") /\ stopped' = stopped
        BY <1>27, <2>2 DEF ExecuteWaiting, Save
      <3>2. WaitingStarted(sess) \in SessionType
        BY <1>a, MemberFields
      <3>3. sess' \in SessionType /\ rec' \in [Runs -> RecordStates] /\ probe' \in ProbeType
        BY <1>a, <3>1, <3>2, SaveTypes
      <3>4. th' \in [Runs -> ThreadType]
        BY <1>b, <3>1, ThreadTypes
      <3> QED BY <1>27, <3>1, <3>3, <3>4 DEF ExecuteWaiting, TypeOK
    <2> QED BY <2>1, <2>2
  <1>28. CASE Answer
    <2>1. [sess EXCEPT !.question = "answered"] \in SessionType
      BY <1>a, FlagsKeep DEF Alike
    <2>2. SaveEnding([sess EXCEPT !.question = "answered"], None, "none")
      BY <1>28 DEF Answer, Save
    <2>3. sess' \in SessionType /\ rec' \in [Runs -> RecordStates] /\ probe' \in ProbeType
      BY <1>a, <2>1, <2>2, SaveTypes
    <2> QED BY <1>28, <1>a, <2>3 DEF Answer, TypeOK, durable, memory, history
  <1>29. CASE ResetContext
    <2>1. ContextReset(sess) \in SessionType
      BY <1>a, FlagsKeep DEF Alike
    <2>2. SaveEnding(ContextReset(sess), None, "none")
      BY <1>29 DEF ResetContext, Save
    <2>3. sess' \in SessionType /\ rec' \in [Runs -> RecordStates] /\ probe' \in ProbeType
      BY <1>a, <2>1, <2>2, SaveTypes
    <2> QED BY <1>29, <1>a, <2>3 DEF ResetContext, TypeOK, durable, memory, history
  <1>30. ASSUME NEW op \in {"config", "refresh"}, BeginProbe(op) PROVE TypeOK'
    BY <1>30 DEF BeginProbe, TypeOK, ProbeType, durable, history
  <1>31. CASE CommitProbe
    <2>1. probe.copy \in SessionType
      BY DEF TypeOK, ProbeType
    <2>2. rec' = SavedRecords(rec, probe.copy, None, "none") /\ rec \in [Runs -> RecordStates]
      BY <1>31 DEF CommitProbe, TypeOK
    <2>3. rec' \in [Runs -> RecordStates]
      BY <1>a, <2>1, <2>2, SavedTypes
    <2> QED BY <1>31, <1>a, <2>1, <2>3 DEF CommitProbe, TypeOK, history
  <1>32. CASE AbandonProbe
    <2>1. CASE UNCHANGED <<sess, rec>>
      BY <1>32, <1>a, <2>1 DEF AbandonProbe, TypeOK, history
    <2>2. CASE sess' = [sess EXCEPT !.lost = TRUE] /\ rec' = SavedRecords(rec, sess', None, "none")
      <3>1. sess' \in SessionType
        BY <1>a, <2>2, FlagsKeep DEF Alike
      <3>2. rec \in [Runs -> RecordStates]
        BY DEF TypeOK
      <3>3. rec' \in [Runs -> RecordStates]
        BY <1>a, <2>2, <3>1, <3>2, SavedTypes
      <3> QED BY <1>32, <1>a, <3>1, <3>3 DEF AbandonProbe, TypeOK, history
    <2> QED BY <1>32, <2>1, <2>2 DEF AbandonProbe
  <1>33. CASE RequestShutdown
    <2>1. ShutDown(sess) \in SessionType
      BY <1>a, StopsKeep DEF Alike
    <2>2. SaveEnding(ShutDown(sess), None, "none")
      BY <1>33 DEF RequestShutdown, Save
    <2>3. sess' \in SessionType /\ rec' \in [Runs -> RecordStates] /\ probe' \in ProbeType
      BY <1>a, <2>1, <2>2, SaveTypes
    <2> QED BY <1>33, <1>a, <2>3 DEF RequestShutdown, TypeOK, durable, memory, history
  <1>34. CASE Exit
    BY <1>34, <1>a, ThreadTypes DEF Exit, MemoryLost, TypeOK, durable, history, ThreadType, Idle, Pcs, Executing
  <1>35. CASE Crash
    BY <1>35, <1>a, ThreadTypes DEF Crash, MemoryLost, TypeOK, durable, history, ThreadType, Idle, Pcs, Executing
  <1>36. CASE RecoverRuns
    BY <1>36 DEF RecoverRuns, TypeOK, memory, history
  <1>37. CASE RecoverSessions
    <2>1. Interrupted(sess) \in SessionType
      BY <1>a, MemberFields DEF Alike
    <2>2. SaveEnding(Interrupted(sess), sess.active, "interrupted")
      BY <1>37 DEF RecoverSessions, Save
    <2>3. sess' \in SessionType /\ rec' \in [Runs -> RecordStates] /\ probe' \in ProbeType
      BY <1>a, <2>1, <2>2, SaveTypes DEF Terminal
    <2> QED BY <1>37, <1>a, <2>3 DEF RecoverSessions, TypeOK, durable, memory, history
  <1>38. CASE UNCHANGED vars
    BY <1>38 DEF vars, TypeOK
  <1> QED
    BY <1>1, <1>2, <1>3, <1>4, <1>5, <1>6, <1>7, <1>8, <1>9, <1>10, <1>11, <1>12, <1>13,
       <1>14, <1>15, <1>16, <1>17, <1>18, <1>19, <1>20, <1>21, <1>22, <1>23, <1>24, <1>25,
       <1>26, <1>27, <1>28, <1>29, <1>30, <1>31, <1>32, <1>33, <1>34, <1>35, <1>36, <1>37,
       <1>38
    DEF Next, ThreadStep, ClientStep, Command

-----------------------------------------------------------------------------
(* The invariant.                                                            *)

Live == {sess.active, sess.waiting} \ {None}

\* Nothing has been done for the run.
Untried(r) == rec[r] = "none" /\ r \notin Live /\ turns[r] = 0 /\ r \notin stopped

\* Only the thread of the active run executes.  A thread that has ended its task
\* and holds the next one in hand is the only one to hold it.
ThreadOK(r) ==
    /\ th[r].pc \in Executing => sess.active = r
    /\ th[r].next # None =>
        /\ th[r].pc \in {"flush", "failAfter"} /\ th[r].next = sess.active
        /\ turns[sess.active] = 0 /\ th[sess.active].pc \notin Executing
    /\ th[r].pc \in {"flush", "failAfter"} => rec[r] \in Terminal
    /\ th[r].pc = "flush" => final[r] # "none"
    /\ th[r].pc = "admit" => gate = r /\ status[r] = "pending" /\ Untried(r)
    /\ th[r].pc \in {"endCancelled", "endFailed"} => ~Active(r)
    /\ th[r].pc = "start" => turns[r] = 0
    /\ turns[r] <= 1

NextUnique == \A q, r \in Runs : th[q].next # None /\ th[q].next = th[r].next => q = r

Threads == NextUnique /\ \A r \in Runs : ThreadOK(r)

\* The waiting task has not been started or stopped.
WaitingOK ==
    sess.waiting # None =>
        /\ sess.waiting # sess.active /\ turns[sess.waiting] = 0 /\ sess.waiting \notin stopped
        /\ status[sess.waiting] \in {"pending", "failed"}

\* A run without a row in runtime_run is unknown everywhere.
Fresh == \A r \in Runs : status[r] = "none" => Untried(r) /\ th[r].pc \in {"idle", "gate"}

\* An accepted stop is either still to be obeyed or has ended the task.
Stops ==
    \A r \in stopped : (sess.active = r /\ sess.stopping) \/ rec[r] \in Terminal \ {"finished"}

\* A live row of runtime_run: a thread that only asks for the gate does not count.
Dangling ==
    daemon = "up" /\ faults = 0 =>
        \A r \in Runs : Active(r) =>
            th[r].pc \notin {"idle", "gate"} \/ r \in Live \/ final[r] # "none"

Core ==
    /\ Threads /\ WaitingOK /\ Fresh /\ Stops /\ RecordsAgree
    /\ ActiveIsServed /\ Dangling

\* Nothing is in memory while the daemon is down, and no row is active when the
\* sessions are recovered.
Asleep ==
    daemon \in {"down", "recovering"} =>
        /\ gate = "free" /\ \A r \in Runs : th[r] = Idle
        /\ daemon = "recovering" => \A r \in Runs : ~Active(r)

\* A probe holds a copy of an idle session that nobody changes.
ProbeInv == gate \in {"config", "refresh"} => ~Busy(sess) /\ probe.copy = sess

IInv == TypeOK /\ Core /\ Asleep /\ ProbeInv

-----------------------------------------------------------------------------
(* Steps that keep the active and the waiting task.                          *)

SameSession ==
    /\ sess'.active = sess.active /\ sess'.waiting = sess.waiting
    /\ sess.stopping => sess'.stopping

RecordsKept ==
    \A q \in Runs :
        /\ rec[q] \in Terminal => rec'[q] = rec[q]
        /\ rec[q] \notin Terminal => rec'[q] \notin Terminal
        /\ q \notin Live => rec'[q] = rec[q]

FinalKept == \A q \in Runs : final'[q] = "none" <=> final[q] = "none"

StopsKept == \A q \in stopped' : q \in stopped \/ (q = sess.active /\ sess'.stopping)

Steady == SameSession /\ RecordsKept /\ FinalKept /\ StopsKept

\* The daemon does not come up, and no fault is forgotten.
Calm ==
    /\ AtWork' => AtWork
    /\ daemon' = "up" => daemon = "up"
    /\ faults' = 0 => faults = 0

SameRun(q) == th'[q] = th[q] /\ status'[q] = status[q] /\ turns'[q] = turns[q]
GateKept(q) == gate = q => gate' = q

\* What the thread of run r may do in such a step.
Stays(r) == SameRun(r) /\ GateKept(r)
Idles(r) ==
    /\ th[r].pc \in {"idle", "gate"} /\ th'[r].pc \in {"idle", "gate"} /\ th'[r].next = None
    /\ status'[r] = status[r] /\ turns'[r] = turns[r]
Enters(r) ==
    /\ th'[r] = Pc("admit") /\ gate' = r
    /\ status[r] = "none" /\ status'[r] = "pending" /\ turns'[r] = turns[r]
Refused(r) ==
    /\ turns'[r] = turns[r] /\ status'[r] # "none"
    /\ \/ th[r].pc = "admit" /\ th'[r] = Pc("rejected") /\ status'[r] = status[r]
       \/ /\ th[r].pc = "rejected" /\ th'[r] = Pc("idle")
          /\ status'[r] = IF Active(r) THEN "failed" ELSE status[r]
Proceeds(r) ==
    /\ th[r].pc \in Executing /\ th'[r].pc \in Executing \ {"start"} /\ th'[r].next = None
    /\ status'[r] # "none"
    /\ th'[r].pc \in {"endCancelled", "endFailed"} => ~Active(r)'
    /\ \/ turns'[r] = turns[r]
       \/ th[r].pc = "start" /\ turns'[r] = 1
Lost(r) ==
    /\ th[r].pc \in Executing \cup {"failAfter"} /\ th'[r] = Pc("idle") /\ faults' # 0
    /\ status'[r] = status[r] /\ turns'[r] = turns[r]
Settles(r) ==
    /\ th'[r] = th[r] /\ turns'[r] = turns[r] /\ GateKept(r)
    /\ final[r] # "none" /\ status'[r] # "none" /\ ~Active(r)'

Local(r) ==
    /\ Steady /\ Calm
    /\ \A q \in Runs \ {r} : SameRun(q) /\ GateKept(q)
    /\ Stays(r) \/ Idles(r) \/ Enters(r) \/ Refused(r) \/ Proceeds(r) \/ Lost(r) \/ Settles(r)

\* The parts of a thread's record, and the places at which a run is executed,
\* spelled out.
LEMMA PcFacts ==
    /\ \A pc : Pc(pc).pc = pc /\ Pc(pc).next = None
    /\ Idle.pc = "idle" /\ Idle.next = None
    /\ Executing = {"turn", "failing", "fenced", "start", "text", "cancelled", "error",
                    "endCancelled", "endFailed"}
PROOF BY DEF Pc, Idle, Executing, Connected

\* What every such step does to the session, the records and the stops.
LEMMA SteadyKeeps ==
    ASSUME TypeOK, Core, Steady
    PROVE  /\ Live' = Live /\ Stops' /\ RecordsAgree'
           /\ \A q \in Runs : Untried(q) /\ turns'[q] = turns[q] => Untried(q)'
PROOF
  <1>0. None \notin Runs /\ stopped \subseteq Runs
    BY AcpHostAssumption DEF TypeOK
  <1>1. Live' = Live
    BY DEF Steady, SameSession, Live
  <1>2. Stops'
    <2>1. ASSUME NEW q \in stopped'
          PROVE  (sess'.active = q /\ sess'.stopping) \/ rec'[q] \in Terminal \ {"finished"}
      <3>1. CASE q \in stopped
        BY <1>0, <3>1 DEF Core, Stops, Steady, SameSession, RecordsKept
      <3>2. CASE q = sess.active /\ sess'.stopping
        BY <3>2 DEF Steady, SameSession
      <3> QED BY <2>1, <3>1, <3>2 DEF Steady, StopsKept
    <2> QED BY <2>1 DEF Stops
  <1>3. FinalHasRecord'
    BY DEF Core, RecordsAgree, FinalHasRecord, Steady, RecordsKept, FinalKept, Terminal
  <1>4. LiveHasLiveRecord'
    BY <1>0, SessionFields DEF Core, RecordsAgree, LiveHasLiveRecord, Steady, RecordsKept, SameSession, TypeOK
  <1>5. ASSUME NEW q \in Runs, Untried(q), turns'[q] = turns[q] PROVE Untried(q)'
    <2>1. q \notin stopped'
      BY <1>0, <1>5 DEF Untried, Steady, StopsKept, Live
    <2> QED BY <1>1, <1>5, <2>1 DEF Untried, Steady, RecordsKept
  <1> QED BY <1>1, <1>2, <1>3, <1>4, <1>5 DEF RecordsAgree

\* A step of one thread that keeps the active and the waiting task keeps the
\* whole invariant.
LEMMA LocalKeeps ==
    ASSUME TypeOK, TypeOK', Core, NEW r \in Runs, Local(r)
    PROVE  Core'
PROOF
  <1>0. /\ None \notin Runs /\ sess.active \in Runs \cup {None} /\ sess.waiting \in Runs \cup {None}
        /\ sess'.active = sess.active /\ sess'.waiting = sess.waiting
        /\ \A q \in Runs : turns[q] \in Nat /\ turns'[q] \in Nat
    BY AcpHostAssumption, SessionFields DEF TypeOK, Local, Steady, SameSession
  <1>1. /\ Live' = Live /\ Stops' /\ RecordsAgree'
        /\ \A q \in Runs : Untried(q) /\ turns'[q] = turns[q] => Untried(q)'
    BY SteadyKeeps DEF Local
  <1>2. /\ NextUnique /\ \A q \in Runs : ThreadOK(q)
        /\ WaitingOK /\ Fresh /\ ActiveIsServed /\ Dangling
        /\ LiveHasLiveRecord /\ FinalHasRecord
    BY DEF Core, Threads, RecordsAgree
  <1>3. \A q \in Runs : (rec'[q] \in Terminal <=> rec[q] \in Terminal) /\ (final'[q] = "none" <=> final[q] = "none")
    BY DEF Local, Steady, RecordsKept, FinalKept
  <1>4. /\ \A q \in Runs \ {r} : th'[q] = th[q] /\ status'[q] = status[q] /\ turns'[q] = turns[q]
                                 /\ (gate = q => gate' = q) /\ (Active(q)' <=> Active(q))
        /\ AtWork' => AtWork
        /\ daemon' = "up" => daemon = "up"
        /\ faults' = 0 => faults = 0
    BY DEF Local, SameRun, GateKept, Calm, Active
  <1>5. \* what r does
        /\ th'[r].next \in {None, th[r].next}
        /\ th'[r].next # None => th'[r] = th[r]
        /\ th'[r].pc \in Executing => th[r].pc \in Executing
        /\ turns'[r] # turns[r] => th[r].pc = "start" /\ th'[r].pc \in Executing \ {"start"} /\ turns'[r] = 1
        /\ th'[r].pc \in {"flush", "failAfter"} => th'[r] = th[r]
        /\ th'[r].pc = "admit" => \/ th[r].pc = "admit" /\ (gate = r => gate' = r)
                                  \/ gate' = r /\ status[r] = "none"
        /\ th'[r].pc \in {"endCancelled", "endFailed"} =>
                ~Active(r)' \/ (th'[r] = th[r] /\ status'[r] = status[r])
        /\ th'[r].pc = "start" => th[r].pc = "start"
    BY PcFacts DEF Local, Stays, Idles, Enters, Refused, Proceeds, Lost, Settles, SameRun, GateKept
  <1>6. NextUnique'
    BY <1>2, <1>4, <1>5 DEF NextUnique
  <1>7. ASSUME NEW q \in Runs, q # r PROVE ThreadOK(q)'
    <2>1. th[q].next # None => turns'[sess.active] = 0 /\ th'[sess.active].pc \notin Executing
      <3>1. CASE sess.active = r
        BY <1>2, <1>5, <3>1, PcFacts DEF ThreadOK
      <3>2. CASE sess.active # r
        BY <1>0, <1>2, <1>4, <3>2 DEF ThreadOK
      <3> QED BY <3>1, <3>2
    <2>2. ThreadOK(q)
      BY <1>2
    <2> QED BY <1>0, <1>1, <1>3, <1>4, <1>7, <2>1, <2>2 DEF ThreadOK
  <1>8. ThreadOK(r)'
    <2>1. th'[r].next # None => /\ th'[r].pc \in {"flush", "failAfter"} /\ th'[r].next = sess.active
                                /\ turns'[sess.active] = 0 /\ th'[sess.active].pc \notin Executing
      <3> SUFFICES ASSUME th'[r].next # None
                   PROVE  /\ th'[r].pc \in {"flush", "failAfter"} /\ th'[r].next = sess.active
                          /\ turns'[sess.active] = 0 /\ th'[sess.active].pc \notin Executing
        OBVIOUS
      <3>1. th'[r] = th[r] /\ ThreadOK(r)
        BY <1>2, <1>5
      <3>2. CASE sess.active = r
        BY <1>5, <3>1, <3>2, PcFacts DEF ThreadOK
      <3>3. CASE sess.active # r
        BY <1>0, <1>4, <3>1, <3>3 DEF ThreadOK
      <3> QED BY <3>2, <3>3
    <2>2. ThreadOK(r)
      BY <1>2
    <2>3. th'[r].pc = "admit" => gate' = r /\ status'[r] = "pending" /\ Untried(r)'
      <3>1. th'[r].pc = "admit" => gate' = r /\ Untried(r)'
        BY <1>1, <1>2, <1>5, <2>2, PcFacts DEF ThreadOK, Fresh
      <3>2. th[r].pc = "admit" => final[r] = "none" /\ status[r] = "pending"
        BY <1>2, <2>2 DEF ThreadOK, Untried, FinalHasRecord, Terminal
      <3>3. th'[r].pc = "admit" => status'[r] = "pending"
        BY <3>2, PcFacts DEF Local, Stays, Idles, Enters, Refused, Proceeds, Lost, Settles, SameRun
      <3> QED BY <3>1, <3>3
    <2>4. turns'[r] <= 1 /\ (th'[r].pc = "start" => turns'[r] = 0)
      BY <1>0, <1>5, <2>2 DEF ThreadOK
    <2>5. th'[r].pc \in {"endCancelled", "endFailed"} => ~Active(r)'
      BY <1>5, <2>2 DEF ThreadOK, Active
    <2>6. th'[r].pc \in Executing => sess'.active = r
      BY <1>0, <1>5, <2>2 DEF ThreadOK
    <2>7. /\ th'[r].pc \in {"flush", "failAfter"} => rec'[r] \in Terminal
          /\ th'[r].pc = "flush" => final'[r] # "none"
      BY <1>3, <1>5, <2>2 DEF ThreadOK
    <2> QED BY <1>0, <2>1, <2>3, <2>4, <2>5, <2>6, <2>7 DEF ThreadOK
  <1>9. Threads'
    BY <1>6, <1>7, <1>8 DEF Threads
  <1>10. WaitingOK'
    <2> SUFFICES ASSUME sess.waiting # None PROVE WaitingOK'
      BY <1>0 DEF WaitingOK
    <2>1. /\ sess.waiting \in Runs /\ sess.waiting # sess.active /\ turns[sess.waiting] = 0
          /\ sess.waiting \notin stopped /\ status[sess.waiting] \in {"pending", "failed"}
          /\ rec[sess.waiting] \notin Terminal
      BY <1>0, <1>2 DEF WaitingOK, LiveHasLiveRecord
    <2>2. sess.waiting \notin stopped'
      BY <2>1 DEF Local, Steady, StopsKept
    <2>3. CASE sess.waiting # r
      BY <1>0, <1>4, <2>1, <2>2, <2>3 DEF WaitingOK
    <2>4. CASE sess.waiting = r
      <3>1. th[r].pc \notin Executing /\ th[r].pc # "admit" /\ final[r] = "none" /\ status[r] # "none"
        BY <1>2, <2>1, <2>4 DEF ThreadOK, Untried, Live, FinalHasRecord, Terminal
      <3>2. turns'[r] = turns[r] /\ status'[r] \in {status[r], "failed"}
        BY <3>1, PcFacts DEF Local, Stays, Idles, Enters, Refused, Proceeds, Lost, Settles, SameRun
      <3> QED BY <1>0, <2>1, <2>2, <2>4, <3>2 DEF WaitingOK
    <2> QED BY <2>3, <2>4
  <1>11. Fresh'
    <2>1. ASSUME NEW q \in Runs, status'[q] = "none"
          PROVE  Untried(q)' /\ th'[q].pc \in {"idle", "gate"}
      <3>1. CASE q # r
        BY <1>1, <1>2, <1>4, <2>1, <3>1 DEF Fresh
      <3>2. CASE q = r
        <4>1. status[r] = "none" /\ turns'[r] = turns[r] /\ (th'[r] = th[r] \/ th'[r].pc \in {"idle", "gate"})
          BY <2>1, <3>2, PcFacts
          DEF Local, Stays, Idles, Enters, Refused, Proceeds, Lost, Settles, SameRun
        <4> QED BY <1>1, <1>2, <3>2, <4>1 DEF Fresh
      <3> QED BY <3>1, <3>2
    <2> QED BY <2>1 DEF Fresh
  <1>12. ActiveIsServed'
    <2> SUFFICES ASSUME AtWork', faults' = 0, sess'.active # None
                 PROVE  \/ th'[sess'.active].pc \in Executing
                        \/ \E q \in Runs : th'[q].pc \in {"flush", "failAfter"} /\ th'[q].next = sess'.active
      BY DEF ActiveIsServed
    <2>1. \/ th[sess.active].pc \in Executing
          \/ \E q \in Runs : th[q].pc \in {"flush", "failAfter"} /\ th[q].next = sess.active
      BY <1>0, <1>2, <1>4 DEF ActiveIsServed
    <2>2. ~Lost(r)
      BY DEF Lost
    <2>3. CASE th[sess.active].pc \in Executing
      <3>1. CASE sess.active = r
        <4>1. th'[r].pc \in Executing
          BY <2>2, <2>3, <3>1, <1>2, PcFacts
          DEF Local, Stays, Idles, Enters, Refused, Proceeds, Settles, SameRun, Fresh
        <4> QED BY <1>0, <3>1, <4>1
      <3>2. CASE sess.active # r
        BY <1>0, <1>4, <2>3, <3>2
      <3> QED BY <3>1, <3>2
    <2>4. ASSUME NEW q \in Runs, th[q].pc \in {"flush", "failAfter"}, th[q].next = sess.active
          PROVE  th'[q] = th[q]
      <3>1. CASE q = r
        BY <2>2, <2>4, <3>1, <1>2, PcFacts
        DEF Local, Stays, Idles, Enters, Refused, Proceeds, Settles, SameRun, Fresh
      <3>2. CASE q # r
        BY <1>4, <3>2
      <3> QED BY <3>1, <3>2
    <2> QED BY <1>0, <2>1, <2>3, <2>4
  <1>13. Dangling'
    <2> SUFFICES ASSUME daemon' = "up", faults' = 0, NEW q \in Runs, Active(q)'
                 PROVE  th'[q].pc \notin {"idle", "gate"} \/ q \in Live' \/ final'[q] # "none"
      BY DEF Dangling
    <2>1. CASE q # r
      BY <1>1, <1>2, <1>3, <1>4, <2>1 DEF Dangling
    <2>2. CASE q = r
      <3>1. ~Lost(r)
        BY DEF Lost
      <3>2. th'[r].pc \in {"idle", "gate"} =>
                Active(r) /\ (th[r].pc \in {"idle", "gate"})
        BY <3>1, <2>2, PcFacts
        DEF Local, Stays, Idles, Enters, Refused, Proceeds, Settles, SameRun, Active
      <3> QED BY <1>1, <1>2, <1>3, <1>4, <2>2, <3>2 DEF Dangling
    <2> QED BY <2>1, <2>2
  <1> QED BY <1>1, <1>9, <1>10, <1>11, <1>12, <1>13 DEF Core

-----------------------------------------------------------------------------
(* The end of a call, of the daemon, and of the outage.                     *)

\* The thread that ended its task, in finish_with_final, goes on with the work
\* in hand: the task it starts was promoted by the transaction, belongs to it
\* alone, and has not been executed.
LEMMA AfterKeeps ==
    ASSUME TypeOK, TypeOK', Core, NEW r \in Runs, AfterFinish(r)
    PROVE  Core'
PROOF
  <1>0. /\ None \notin Runs /\ sess \in SessionType
        /\ sess.active \in Runs \cup {None} /\ sess.waiting \in Runs \cup {None}
    BY AcpHostAssumption, SessionFields DEF TypeOK
  <1>1. /\ NextUnique /\ \A q \in Runs : ThreadOK(q)
        /\ WaitingOK /\ Fresh /\ Stops /\ ActiveIsServed /\ Dangling
        /\ LiveHasLiveRecord /\ FinalHasRecord
    BY DEF Core, Threads, RecordsAgree
  <1> DEFINE n == th[r].next
  <1>2. /\ th[r].pc \in {"flush", "failAfter"}
        /\ UNCHANGED <<sess, rec, final, stopped, turns, gate, daemon, faults>>
        /\ GoOn(r, n)
        /\ th[r].pc = "failAfter" => FailActive(r)
        /\ th[r].pc = "flush" => status' = status
    BY DEF AfterFinish, history
  <1>3. Steady
    BY <1>2 DEF Steady, SameSession, RecordsKept, FinalKept, StopsKept
  <1>4. /\ Live' = Live /\ Stops' /\ RecordsAgree'
        /\ \A q \in Runs : Untried(q) /\ turns'[q] = turns[q] => Untried(q)'
    BY <1>3, SteadyKeeps
  <1>5. /\ n \in Runs \cup {None} /\ (n # None => n = sess.active)
        /\ rec[r] \in Terminal /\ r # sess.active /\ r # sess.waiting
        /\ th[r].pc = "flush" => final[r] # "none"
    <2>1. n \in Runs \cup {None}
      BY ThreadTypes
    <2> QED BY <1>0, <1>1, <1>2, <2>1 DEF ThreadOK, LiveHasLiveRecord
  <1>6. /\ th'[r] = Idle
        /\ n # None => th'[n] = Pc("start")
        /\ \A q \in Runs \ {r} : q # n => th'[q] = th[q]
    BY <1>2, <1>5 DEF GoOn, TypeOK
  <1>7. /\ \A q \in Runs \ {r} : status'[q] = status[q]
        /\ status'[r] = "none" => status[r] = "none"
        /\ Active(r)' => final[r] # "none" /\ Active(r)
    BY <1>2, <1>5 DEF FailActive, Active, TypeOK
  <1>8. ASSUME NEW q \in Runs, q # r, th[q].next # None PROVE n = None
    <2>1. ThreadOK(q) /\ ThreadOK(r)
      BY <1>1
    <2> QED BY <1>1, <1>8, <2>1 DEF ThreadOK, NextUnique
  <1>9. Threads'
    <2>0. ASSUME NEW q \in Runs, th'[q].next # None PROVE th'[q] = th[q]
      <3>1. q # r
        BY <1>6, <2>0, PcFacts
      <3>2. q # n
        BY <1>0, <1>6, <2>0, PcFacts
      <3> QED BY <1>6, <3>1, <3>2
    <2>1. NextUnique'
      BY <1>1, <2>0 DEF NextUnique
    <2>2. ThreadOK(r)'
      BY <1>1, <1>2, <1>6, PcFacts DEF ThreadOK
    <2>3. ASSUME NEW q \in Runs, q = n PROVE ThreadOK(q)'
      <3>1. /\ sess'.active = q /\ turns[q] = 0 /\ turns'[q] = turns[q]
            /\ th'[q].pc = "start" /\ th'[q].next = None
        BY <1>0, <1>1, <1>2, <1>5, <1>6, <2>3, PcFacts DEF ThreadOK
      <3> QED BY <3>1 DEF ThreadOK
    <2>4. ASSUME NEW q \in Runs, q # r, q # n PROVE ThreadOK(q)'
      <3>1. ThreadOK(q) /\ th'[q] = th[q] /\ status'[q] = status[q]
        BY <1>1, <1>6, <1>7, <2>4
      <3>2. th[q].next # None => th'[sess.active] = th[sess.active]
        BY <1>0, <1>1, <1>5, <1>6, <1>8, <2>4 DEF ThreadOK
      <3> QED BY <1>2, <1>4, <3>1, <3>2 DEF ThreadOK, Active
    <2>5. \A q \in Runs : ThreadOK(q)'
      BY <2>2, <2>3, <2>4
    <2> QED BY <2>1, <2>5 DEF Threads
  <1>10. WaitingOK'
    BY <1>0, <1>1, <1>2, <1>5, <1>7 DEF WaitingOK
  <1>11. Fresh'
    <2>1. ASSUME NEW q \in Runs, status'[q] = "none"
          PROVE  Untried(q)' /\ th'[q].pc \in {"idle", "gate"}
      <3>1. status[q] = "none" /\ Untried(q) /\ th[q].pc \in {"idle", "gate"}
        BY <1>1, <1>7, <2>1 DEF Fresh
      <3>2. q # r /\ q # n
        BY <1>0, <1>2, <1>5, <3>1 DEF Untried, Live
      <3> QED BY <1>2, <1>4, <1>6, <3>1, <3>2
    <2> QED BY <2>1 DEF Fresh
  <1>12. ActiveIsServed'
    <2>1. CASE n # None
      BY <1>2, <1>5, <1>6, <2>1, PcFacts DEF ActiveIsServed
    <2>2. CASE n = None
      <3>1. \A q \in Runs \ {r} : th'[q] = th[q]
        BY <1>0, <1>6, <2>2
      <3> QED BY <1>0, <1>1, <1>2, <1>5, <2>2, <3>1 DEF ActiveIsServed, AtWork
    <2> QED BY <2>1, <2>2
  <1>13. Dangling'
    <2> SUFFICES ASSUME daemon' = "up", faults' = 0, NEW q \in Runs, Active(q)'
                 PROVE  th'[q].pc \notin {"idle", "gate"} \/ q \in Live' \/ final'[q] # "none"
      BY DEF Dangling
    <2>1. CASE q = r
      BY <1>2, <1>7, <2>1
    <2>2. CASE q # r /\ q = n
      BY <1>0, <1>6, <2>2, PcFacts
    <2>3. CASE q # r /\ q # n
      BY <1>1, <1>2, <1>4, <1>6, <1>7, <2>3 DEF Dangling, Active
    <2> QED BY <2>1, <2>2, <2>3
  <1> QED BY <1>4, <1>9, <1>10, <1>11, <1>12, <1>13 DEF Core

\* A crash or an exit loses the threads and the gate, and nothing that is
\* stored.
LEMMA DownKeeps ==
    ASSUME TypeOK, TypeOK', Core, Crash \/ Exit
    PROVE  Core'
PROOF
  <1>0. /\ None \notin Runs /\ sess \in SessionType
        /\ sess.active \in Runs \cup {None} /\ sess.waiting \in Runs \cup {None}
    BY AcpHostAssumption, SessionFields DEF TypeOK
  <1>1. /\ NextUnique /\ \A q \in Runs : ThreadOK(q)
        /\ WaitingOK /\ Fresh /\ Stops /\ ActiveIsServed /\ Dangling
        /\ LiveHasLiveRecord /\ FinalHasRecord
    BY DEF Core, Threads, RecordsAgree
  <1>2. /\ UNCHANGED <<sess, rec, final, status, stopped, turns>> /\ daemon' = "down"
        /\ \A q \in Runs : th'[q] = Idle
    BY DEF Crash, Exit, MemoryLost, durable, history
  <1>3. Steady
    BY <1>2 DEF Steady, SameSession, RecordsKept, FinalKept, StopsKept
  <1>4. /\ Stops' /\ RecordsAgree'
        /\ \A q \in Runs : Untried(q) /\ turns'[q] = turns[q] => Untried(q)'
    BY <1>3, SteadyKeeps
  <1>5. Threads'
    BY <1>1, <1>2, PcFacts DEF Threads, NextUnique, ThreadOK
  <1>6. WaitingOK' /\ Fresh'
    BY <1>1, <1>2, <1>4, PcFacts DEF WaitingOK, Fresh
  <1>7. ActiveIsServed' /\ Dangling'
    BY <1>2 DEF ActiveIsServed, Dangling, AtWork
  <1> QED BY <1>4, <1>5, <1>6, <1>7 DEF Core

\* recover_stale_active_runtime_runs fails every active row, before the
\* sessions are looked at.
LEMMA RecoverRunsKeeps ==
    ASSUME TypeOK, TypeOK', Core, Asleep, RecoverRuns
    PROVE  Core' /\ \A r \in Runs : ~Active(r)'
PROOF
  <1>0. /\ None \notin Runs /\ sess \in SessionType
        /\ sess.active \in Runs \cup {None} /\ sess.waiting \in Runs \cup {None}
    BY AcpHostAssumption, SessionFields DEF TypeOK
  <1>1. /\ NextUnique /\ \A q \in Runs : ThreadOK(q)
        /\ WaitingOK /\ Fresh /\ Stops /\ ActiveIsServed /\ Dangling
        /\ LiveHasLiveRecord /\ FinalHasRecord
    BY DEF Core, Threads, RecordsAgree
  <1>2. /\ UNCHANGED <<sess, rec, final, stopped, turns, th>> /\ daemon' = "recovering"
        /\ \A q \in Runs : th[q] = Idle
        /\ \A q \in Runs : status'[q] = IF Active(q) THEN "failed" ELSE status[q]
    BY DEF RecoverRuns, Asleep, history, memory
  <1>3. Steady
    BY <1>2 DEF Steady, SameSession, RecordsKept, FinalKept, StopsKept
  <1>4. /\ Stops' /\ RecordsAgree'
        /\ \A q \in Runs : Untried(q) /\ turns'[q] = turns[q] => Untried(q)'
    BY <1>3, SteadyKeeps
  <1>5. \A q \in Runs : ~Active(q)' /\ (status'[q] = "none" => status[q] = "none")
    BY <1>2 DEF Active
  <1>6. Threads'
    BY <1>1, <1>2, PcFacts DEF Threads, NextUnique, ThreadOK
  <1>7. WaitingOK' /\ Fresh'
    BY <1>0, <1>1, <1>2, <1>4, <1>5, PcFacts DEF WaitingOK, Fresh, Active
  <1>8. ActiveIsServed' /\ Dangling'
    BY <1>2 DEF ActiveIsServed, Dangling, AtWork
  <1> QED BY <1>4, <1>5, <1>6, <1>7, <1>8 DEF Core

-----------------------------------------------------------------------------
(* Steps that change the active or the waiting task.                         *)

\* What a save does to the session and to each task record.
LEMMA SavedStep ==
    ASSUME TypeOK, NEW s \in SessionType, NEW ended, NEW outcome \in Terminal \cup {"none"},
           SaveEnding(s, ended, outcome)
    PROVE  /\ sess' = s
           /\ \A q \in Runs :
                /\ rec[q] \in Terminal => rec'[q] = rec[q]
                /\ rec[q] \notin Terminal /\ q = ended => rec'[q] = outcome
                /\ rec[q] \notin Terminal /\ q # ended => rec'[q] \notin Terminal
                /\ q \notin {ended, s.active, s.waiting} => rec'[q] = rec[q]
PROOF
  <1>1. sess' = s /\ rec' = SavedRecords(rec, s, ended, outcome) /\ rec \in [Runs -> RecordStates]
    BY DEF SaveEnding, TypeOK
  <1> QED BY <1>1, SavedFields

\* The submission of an admitted run: it takes the waiting slot of a busy
\* session, or becomes the active task and is executed by the thread that
\* admitted it.
LEMMA SubmitKeeps ==
    ASSUME TypeOK, TypeOK', Core, NEW r \in Runs, AdmitSubmit(r), ~SubmitRefused(sess)
    PROVE  Core'
PROOF
  <1>0. /\ None \notin Runs /\ sess \in SessionType /\ stopped \subseteq Runs
        /\ sess.active \in Runs \cup {None} /\ sess.waiting \in Runs \cup {None}
    BY AcpHostAssumption, SessionFields DEF TypeOK
  <1>1. /\ NextUnique /\ \A q \in Runs : ThreadOK(q)
        /\ WaitingOK /\ Fresh /\ Stops /\ ActiveIsServed /\ Dangling
        /\ LiveHasLiveRecord /\ FinalHasRecord
    BY DEF Core, Threads, RecordsAgree
  <1>2. /\ th[r].pc = "admit" /\ gate' = "free"
        /\ UNCHANGED <<status, final, daemon, faults, stopped, turns>>
        /\ SaveEnding(Submitted(sess, r), None, "none")
        /\ Go(r, IF Busy(sess) THEN "idle" ELSE "start")
    BY DEF AdmitSubmit, Save, history
  <1>3. /\ Submitted(sess, r) \in SessionType
        /\ Busy(sess) => /\ Submitted(sess, r).active = sess.active /\ Submitted(sess, r).waiting = r
                         /\ Submitted(sess, r).stopping = sess.stopping /\ sess.waiting = None
                         /\ sess.active # None
        /\ ~Busy(sess) => /\ Submitted(sess, r).active = r /\ Submitted(sess, r).waiting = None
                          /\ sess.active = None /\ sess.waiting = None
    BY <1>0, SubmittedFields DEF Busy
  <1>4. /\ sess' = Submitted(sess, r)
        /\ \A q \in Runs :
                /\ rec[q] \in Terminal => rec'[q] = rec[q]
                /\ rec[q] \notin Terminal => rec'[q] \notin Terminal
                /\ q \notin {sess'.active, sess'.waiting} => rec'[q] = rec[q]
    BY <1>0, <1>2, <1>3, SavedStep
  <1>5. /\ Busy(sess) => /\ sess'.active = sess.active /\ sess'.waiting = r /\ sess.waiting = None
                         /\ sess'.stopping = sess.stopping /\ sess.active # None
        /\ ~Busy(sess) => /\ sess'.active = r /\ sess'.waiting = None
                          /\ sess.active = None /\ sess.waiting = None
    BY <1>3, <1>4
  <1>6. /\ gate = r /\ status[r] = "pending" /\ rec[r] = "none" /\ turns[r] = 0 /\ r \notin stopped
        /\ r # sess.active /\ r # sess.waiting /\ th[r].next = None
        /\ \A q \in Runs \ {r} : th[q].pc # "admit"
        /\ \A q \in Runs : turns[q] <= 1
    BY <1>0, <1>1, <1>2 DEF ThreadOK, Untried, Live
  <1>7. /\ \A q \in Runs \ {r} : th'[q] = th[q]
        /\ th'[r].next = None
        /\ Busy(sess) => th'[r].pc = "idle"
        /\ ~Busy(sess) => th'[r].pc = "start"
    BY <1>2, PcFacts DEF Go, TypeOK
  <1>8. Live' = Live \cup {r}
    BY <1>0, <1>5 DEF Live
  <1>9. \A q \in Runs : Untried(q) /\ q # r => Untried(q)'
    BY <1>0, <1>2, <1>4, <1>5, <1>8 DEF Untried, Live
  <1>10. Threads'
    <2>1. NextUnique'
      BY <1>1, <1>7 DEF NextUnique
    <2>2. ASSUME NEW q \in Runs, q # r PROVE ThreadOK(q)'
      <3>1. ThreadOK(q) /\ th'[q] = th[q] /\ status'[q] = status[q] /\ turns'[q] = turns[q]
        BY <1>1, <1>2, <1>7, <2>2
      <3>2. CASE Busy(sess)
        <4>1. th'[sess.active] = th[sess.active] /\ turns'[sess.active] = turns[sess.active]
          BY <1>0, <1>2, <1>5, <1>6, <1>7, <3>2
        <4> QED BY <1>2, <1>4, <1>5, <1>6, <2>2, <3>1, <3>2, <4>1 DEF ThreadOK, Active
      <3>3. CASE ~Busy(sess)
        <4>1. th[q].pc \notin Executing /\ th[q].next = None
          BY <1>0, <1>5, <3>1, <3>3 DEF ThreadOK
        <4> QED BY <1>2, <1>4, <1>6, <2>2, <3>1, <4>1, PcFacts DEF ThreadOK, Active
      <3> QED BY <3>2, <3>3
    <2>3. ThreadOK(r)'
      BY <1>2, <1>5, <1>6, <1>7, PcFacts DEF ThreadOK
    <2> QED BY <2>1, <2>2, <2>3 DEF Threads
  <1>11. WaitingOK'
    BY <1>2, <1>5, <1>6 DEF WaitingOK
  <1>12. Fresh'
    BY <1>1, <1>2, <1>6, <1>7, <1>9 DEF Fresh
  <1>13. Stops'
    BY <1>0, <1>1, <1>2, <1>4, <1>5 DEF Stops
  <1>14. RecordsAgree'
    <2>1. FinalHasRecord'
      BY <1>1, <1>2, <1>4 DEF FinalHasRecord, Terminal
    <2>2. LiveHasLiveRecord'
      BY <1>0, <1>1, <1>4, <1>5, <1>6 DEF LiveHasLiveRecord, Terminal
    <2> QED BY <2>1, <2>2 DEF RecordsAgree
  <1>15. ActiveIsServed'
    <2>1. CASE Busy(sess)
      <3> SUFFICES ASSUME AtWork', faults' = 0
                   PROVE  \/ th'[sess'.active].pc \in Executing
                          \/ \E q \in Runs : th'[q].pc \in {"flush", "failAfter"} /\ th'[q].next = sess'.active
        BY DEF ActiveIsServed
      <3>1. \/ th[sess.active].pc \in Executing
            \/ \E q \in Runs : th[q].pc \in {"flush", "failAfter"} /\ th[q].next = sess.active
        BY <1>1, <1>2, <1>5, <2>1 DEF ActiveIsServed, AtWork
      <3>2. th'[sess.active] = th[sess.active]
        BY <1>0, <1>5, <1>6, <1>7, <2>1
      <3>3. \A q \in Runs : th[q].pc \in {"flush", "failAfter"} => th'[q] = th[q]
        BY <1>2, <1>7
      <3> QED BY <1>5, <2>1, <3>1, <3>2, <3>3
    <2>2. CASE ~Busy(sess)
      BY <1>5, <1>7, <2>2, PcFacts DEF ActiveIsServed
    <2> QED BY <2>1, <2>2
  <1>16. Dangling'
    BY <1>1, <1>2, <1>7, <1>8 DEF Dangling, Active
  <1> QED BY <1>10, <1>11, <1>12, <1>13, <1>14, <1>15, <1>16 DEF Core

\* The active task r ends with outcome o; n is the task that follows.
Ends(r, n, o) ==
    /\ sess.active = r /\ th[r].pc \in Executing
    /\ o \in Terminal /\ (o = "finished" => ~sess.stopping)
    /\ n = NextWork(sess, o) /\ SaveEnding(Completed(sess, o), r, o)
    /\ UNCHANGED <<status, turns, stopped, gate, daemon, faults>>
    /\ \A q \in Runs \ {r} : final'[q] = final[q]
    /\ final'[r] # "none" <=> o = "finished"
    /\ \A q \in Runs \ {r} : q # n => th'[q] = th[q]
    /\ \/ /\ th'[r] = Idle /\ ~Active(r)
          /\ n # None => th'[n] = Pc("start")
       \/ /\ th'[r].pc = IF o = "finished" THEN "flush" ELSE "failAfter"
          /\ th'[r].next = n
          /\ n # None => th'[n] = th[n]

\* The end of the active task, on any branch, keeps the invariant: the record
\* becomes terminal with the reply it belongs to, and the waiting task that
\* follows is in the hands of the same thread.
LEMMA EndKeeps ==
    ASSUME TypeOK, TypeOK', Core, NEW r \in Runs, NEW n, NEW o, Ends(r, n, o)
    PROVE  Core'
PROOF
  <1>0. /\ None \notin Runs /\ sess \in SessionType /\ stopped \subseteq Runs
        /\ sess.active \in Runs \cup {None} /\ sess.waiting \in Runs \cup {None}
    BY AcpHostAssumption, SessionFields DEF TypeOK
  <1>1. /\ NextUnique /\ \A q \in Runs : ThreadOK(q)
        /\ WaitingOK /\ Fresh /\ Stops /\ ActiveIsServed /\ Dangling
        /\ LiveHasLiveRecord /\ FinalHasRecord
    BY DEF Core, Threads, RecordsAgree
  <1>2. /\ sess.active = r /\ th[r].pc \in Executing /\ o \in Terminal
        /\ UNCHANGED <<status, turns, stopped, gate, daemon, faults>>
        /\ \A q \in Runs \ {r} : final'[q] = final[q]
        /\ final'[r] # "none" <=> o = "finished"
    BY DEF Ends
  <1>3. /\ Completed(sess, o) \in SessionType /\ Completed(sess, o).active = n
        /\ n \in {None, sess.waiting}
        /\ Completed(sess, o).waiting = IF n = None THEN sess.waiting ELSE None
    BY <1>0, CompletedFields DEF Ends
  <1>4. /\ sess' = Completed(sess, o)
        /\ \A q \in Runs :
                /\ rec[q] \in Terminal => rec'[q] = rec[q]
                /\ rec[q] \notin Terminal /\ q = r => rec'[q] = o
                /\ rec[q] \notin Terminal /\ q # r => rec'[q] \notin Terminal
                /\ q \notin {r, sess'.active, sess'.waiting} => rec'[q] = rec[q]
    BY <1>0, <1>2, <1>3, SavedStep DEF Ends
  <1>5. /\ sess'.active = n /\ n \in {None, sess.waiting}
        /\ sess'.waiting = IF n = None THEN sess.waiting ELSE None
    BY <1>3, <1>4
  <1>6. /\ rec[r] \notin Terminal /\ rec'[r] = o
        /\ sess.waiting # r
        /\ n # None => /\ n \in Runs /\ n = sess.waiting /\ n # r /\ turns[n] = 0
                       /\ rec[n] \notin Terminal
    BY <1>0, <1>1, <1>2, <1>4, <1>5 DEF LiveHasLiveRecord, WaitingOK
  <1>7. \A q \in Runs : q # r => th[q].pc \notin Executing /\ th[q].next = None
    BY <1>0, <1>1, <1>2 DEF ThreadOK
  <1>8. Live' = Live \ {r}
    BY <1>0, <1>2, <1>5, <1>6 DEF Live
  <1>9. \A q \in Runs : Untried(q) => q # r /\ q # n /\ Untried(q)'
    BY <1>0, <1>2, <1>4, <1>5, <1>6, <1>8 DEF Untried, Live
  <1>10. /\ \A q \in Runs \ {r} : q # n => th'[q] = th[q]
         /\ \/ /\ th'[r].pc = "idle" /\ th'[r].next = None /\ ~Active(r)
               /\ n # None => th'[n].pc = "start" /\ th'[n].next = None
            \/ /\ th'[r].pc = IF o = "finished" THEN "flush" ELSE "failAfter"
               /\ th'[r].next = n
               /\ n # None => th'[n] = th[n]
    BY PcFacts DEF Ends
  <1>11. Threads'
    <2>1. NextUnique'
      <3>1. ASSUME NEW q \in Runs, q # r PROVE th'[q].next = None
        <4>1. CASE q # n
          BY <1>7, <1>10, <3>1, <4>1
        <4>2. CASE q = n
          BY <1>0, <1>7, <1>10, <3>1, <4>2
        <4> QED BY <4>1, <4>2
      <3> QED BY <3>1 DEF NextUnique
    <2>2. ASSUME NEW q \in Runs, q # r, q # n PROVE ThreadOK(q)'
      <3>1. ThreadOK(q) /\ th'[q] = th[q] /\ th[q].pc \notin Executing /\ th[q].next = None
        BY <1>1, <1>7, <1>10, <2>2
      <3>2. th'[q].pc = "admit" => gate' = q /\ status'[q] = "pending" /\ Untried(q)'
        BY <1>2, <1>9, <3>1 DEF ThreadOK
      <3> QED BY <1>2, <1>4, <2>2, <3>1, <3>2, PcFacts DEF ThreadOK, Active
    <2>3. ASSUME NEW q \in Runs, q = n PROVE ThreadOK(q)'
      <3>1. /\ ThreadOK(q) /\ th[q].pc \notin Executing /\ th[q].next = None
            /\ q # r /\ turns'[q] = 0 /\ sess'.active = q
            /\ th[q].pc \notin {"admit", "flush", "failAfter"}
        BY <1>0, <1>1, <1>2, <1>5, <1>6, <1>7, <2>3 DEF ThreadOK, Untried, Live
      <3>2. CASE th'[q].pc = "start" /\ th'[q].next = None
        BY <3>1, <3>2 DEF ThreadOK
      <3>3. CASE th'[q] = th[q]
        BY <3>1, <3>3, PcFacts DEF ThreadOK
      <3> QED BY <1>0, <1>10, <2>3, <3>2, <3>3
    <2>4. ThreadOK(r)'
      <3>1. turns'[r] <= 1 /\ rec'[r] \in Terminal
        BY <1>1, <1>2, <1>6 DEF ThreadOK
      <3>2. CASE th'[r].pc = "idle" /\ th'[r].next = None
        BY <3>1, <3>2, PcFacts DEF ThreadOK
      <3>3. CASE /\ th'[r].pc = IF o = "finished" THEN "flush" ELSE "failAfter"
                 /\ th'[r].next = n
                 /\ n # None => th'[n] = th[n]
        <4>1. n # None => turns'[sess'.active] = 0 /\ th'[sess'.active].pc \notin Executing
          BY <1>2, <1>5, <1>6, <1>7, <3>3
        <4> QED BY <1>2, <1>5, <3>1, <3>3, <4>1, PcFacts DEF ThreadOK
      <3> QED BY <1>10, <3>2, <3>3
    <2>5. \A q \in Runs : ThreadOK(q)'
      BY <2>2, <2>3, <2>4
    <2> QED BY <2>1, <2>5 DEF Threads
  <1>12. WaitingOK'
    BY <1>0, <1>1, <1>2, <1>5 DEF WaitingOK
  <1>13. Fresh'
    BY <1>1, <1>2, <1>9, <1>10 DEF Fresh
  <1>14. Stops'
    <2>1. ASSUME NEW q \in stopped PROVE rec'[q] \in Terminal \ {"finished"}
      <3>1. CASE q = r
        BY <1>0, <1>1, <1>6, <2>1, <3>1 DEF Stops, Ends
      <3>2. CASE q # r
        BY <1>0, <1>1, <1>2, <1>4, <2>1, <3>2 DEF Stops
      <3> QED BY <3>1, <3>2
    <2> QED BY <1>2, <2>1 DEF Stops
  <1>15. RecordsAgree'
    <2>1. ASSUME NEW q \in Runs PROVE final'[q] # "none" <=> rec'[q] = "finished"
      <3>1. CASE q = r
        BY <1>2, <1>6, <3>1
      <3>2. CASE q # r
        <4>1. rec'[q] = "finished" <=> rec[q] = "finished"
          BY <1>4, <3>2 DEF Terminal
        <4> QED BY <1>1, <1>2, <3>2, <4>1 DEF FinalHasRecord
      <3> QED BY <3>1, <3>2
    <2>2. LiveHasLiveRecord'
      BY <1>0, <1>1, <1>4, <1>5, <1>6 DEF LiveHasLiveRecord
    <2> QED BY <2>1, <2>2 DEF RecordsAgree, FinalHasRecord
  <1>16. ActiveIsServed'
    <2>1. n # None => \/ th'[n].pc \in Executing
                      \/ th'[r].pc \in {"flush", "failAfter"} /\ th'[r].next = n
      BY <1>10, PcFacts
    <2> QED BY <1>5, <2>1 DEF ActiveIsServed
  <1>17. Dangling'
    <2> SUFFICES ASSUME daemon' = "up", faults' = 0, NEW q \in Runs, Active(q)'
                 PROVE  th'[q].pc \notin {"idle", "gate"} \/ q \in Live' \/ final'[q] # "none"
      BY DEF Dangling
    <2>1. CASE q = r
      BY <1>2, <1>10, <2>1 DEF Active
    <2>2. CASE q # r /\ q = n
      BY <1>0, <1>5, <2>2 DEF Live
    <2>3. CASE q # r /\ q # n
      BY <1>1, <1>2, <1>8, <1>10, <2>3 DEF Dangling, Active
    <2> QED BY <2>1, <2>2, <2>3
  <1> QED BY <1>11, <1>12, <1>13, <1>14, <1>15, <1>16, <1>17 DEF Core

\* complete, on the cancelled and the failed branch.
LEMMA CompleteKeeps ==
    ASSUME TypeOK, TypeOK', Core, NEW r \in Runs, CompleteTask(r)
    PROVE  Core'
PROOF
 <1>0. /\ None \notin Runs /\ sess \in SessionType /\ stopped \subseteq Runs
        /\ sess.active \in Runs \cup {None} /\ sess.waiting \in Runs \cup {None}
    BY AcpHostAssumption, SessionFields DEF TypeOK
  <1>1. /\ NextUnique /\ \A q \in Runs : ThreadOK(q)
        /\ WaitingOK /\ Fresh /\ Stops /\ ActiveIsServed /\ Dangling
        /\ LiveHasLiveRecord /\ FinalHasRecord
    BY DEF Core, Threads, RecordsAgree
  <1>2. PICK o : o = IF th[r].pc = "endCancelled" THEN "cancelled" ELSE "failed"
    OBVIOUS
  <1>3. PICK n : n = NextWork(sess, o)
    OBVIOUS
  <1>4. /\ th[r].pc \in {"endCancelled", "endFailed"} /\ sess.active = r
        /\ SaveEnding(Completed(sess, o), r, o) /\ GoOn(r, n)
        /\ UNCHANGED <<status, final, gate, daemon, faults, stopped, turns>>
    BY <1>2, <1>3 DEF CompleteTask, history
  <1>5. n \in {None, sess.waiting} /\ (n # None => n \in Runs /\ n # r)
    BY <1>0, <1>1, <1>3, <1>4, CompletedFields DEF WaitingOK
  <1>6. /\ \A q \in Runs \ {r} : q # n => th'[q] = th[q]
        /\ th'[r] = Idle /\ (n # None => th'[n] = Pc("start"))
    BY <1>4, <1>5 DEF GoOn, TypeOK
  <1>7. rec[r] # "finished" /\ final[r] = "none"
    BY <1>0, <1>1, <1>4 DEF LiveHasLiveRecord, FinalHasRecord, Terminal
  <1>8. o \in Terminal /\ o # "finished"
    BY <1>2 DEF Terminal
  <1>9. th[r].pc \in Executing /\ ~Active(r)
    BY <1>1, <1>4, PcFacts DEF ThreadOK
  <1>10. Ends(r, n, o)
    BY <1>3, <1>4, <1>6, <1>7, <1>8, <1>9 DEF Ends
  <1> QED BY <1>10, EndKeeps

\* finish_with_final, which decides between stop and reply.
LEMMA FinishKeeps ==
    ASSUME TypeOK, TypeOK', Core, NEW r \in Runs, FinishTask(r)
    PROVE  Core'
PROOF
 <1>0. /\ None \notin Runs /\ sess \in SessionType /\ stopped \subseteq Runs
        /\ sess.active \in Runs \cup {None} /\ sess.waiting \in Runs \cup {None}
    BY AcpHostAssumption, SessionFields DEF TypeOK
  <1>1. /\ NextUnique /\ \A q \in Runs : ThreadOK(q)
        /\ WaitingOK /\ Fresh /\ Stops /\ ActiveIsServed /\ Dangling
        /\ LiveHasLiveRecord /\ FinalHasRecord
    BY DEF Core, Threads, RecordsAgree
  <1>2. PICK o : o = IF sess.stopping THEN "cancelled" ELSE "finished"
    OBVIOUS
  <1>3. PICK n : n = NextWork(sess, o)
    OBVIOUS
  <1>4. /\ th[r].pc = "text" /\ sess.active = r
        /\ SaveEnding(Completed(sess, o), r, o)
        /\ IF sess.stopping THEN UNCHANGED final ELSE ReplyDelivery!QueueFinal(r)
        /\ th' = [th EXCEPT ![r] = [pc |-> IF sess.stopping THEN "failAfter" ELSE "flush", next |-> n]]
        /\ UNCHANGED <<status, gate, daemon, faults, stopped, turns>>
    BY <1>2, <1>3 DEF FinishTask, history
  <1>5. n \in {None, sess.waiting} /\ (n # None => n \in Runs /\ n # r)
    BY <1>0, <1>1, <1>3, <1>4, CompletedFields DEF WaitingOK
  <1>6. /\ \A q \in Runs \ {r} : th'[q] = th[q]
        /\ th'[r] = [pc |-> IF sess.stopping THEN "failAfter" ELSE "flush", next |-> n]
    BY <1>4 DEF TypeOK
  <1>7. rec[r] # "finished" /\ final[r] = "none"
    BY <1>0, <1>1, <1>4 DEF LiveHasLiveRecord, FinalHasRecord, Terminal
  <1>8. o \in Terminal /\ (o = "finished" <=> ~sess.stopping)
    BY <1>2 DEF Terminal
  <1>9. /\ \A q \in Runs \ {r} : final'[q] = final[q]
        /\ final'[r] # "none" <=> o = "finished"
    <2>1. CASE sess.stopping
      BY <1>4, <1>7, <1>8, <2>1
    <2>2. CASE ~sess.stopping
      BY <1>4, <1>7, <1>8, <2>2 DEF ReplyDelivery!QueueFinal, TypeOK
    <2> QED BY <2>1, <2>2
  <1>10. /\ th'[r].pc = IF o = "finished" THEN "flush" ELSE "failAfter"
         /\ th'[r].next = n
    BY <1>6, <1>8
  <1>11. Ends(r, n, o)
    BY <1>3, <1>4, <1>5, <1>6, <1>8, <1>9, <1>10, PcFacts DEF Ends
  <1> QED BY <1>11, EndKeeps

\* cancel_waiting ends a task that no thread has and that was never stopped or
\* executed.
LEMMA CancelKeeps ==
    ASSUME TypeOK, TypeOK', Core, NEW r \in Runs, CancelWaiting(r)
    PROVE  Core'
PROOF
 <1>0. /\ None \notin Runs /\ sess \in SessionType /\ stopped \subseteq Runs
        /\ sess.active \in Runs \cup {None} /\ sess.waiting \in Runs \cup {None}
    BY AcpHostAssumption, SessionFields DEF TypeOK
  <1>1. /\ NextUnique /\ \A q \in Runs : ThreadOK(q)
        /\ WaitingOK /\ Fresh /\ Stops /\ ActiveIsServed /\ Dangling
        /\ LiveHasLiveRecord /\ FinalHasRecord
    BY DEF Core, Threads, RecordsAgree
  <1>2. /\ sess.waiting = r /\ SaveEnding(WaitingCancelled(sess), r, "cancelled")
        /\ status' = [status EXCEPT ![r] = IF @ = "pending" THEN "failed" ELSE @]
        /\ UNCHANGED <<final, th, gate, daemon, faults, stopped, turns>>
    BY DEF CancelWaiting, history
  <1>3. /\ sess' = WaitingCancelled(sess)
        /\ \A q \in Runs :
                /\ rec[q] \in Terminal => rec'[q] = rec[q]
                /\ rec[q] \notin Terminal /\ q = r => rec'[q] = "cancelled"
                /\ rec[q] \notin Terminal /\ q # r => rec'[q] \notin Terminal
                /\ q \notin {r, WaitingCancelled(sess).active, WaitingCancelled(sess).waiting} => rec'[q] = rec[q]
    BY <1>0, <1>2, MemberFields, SavedStep DEF Terminal
  <1>4. sess'.active = sess.active /\ sess'.waiting = None /\ sess'.stopping = sess.stopping
    BY <1>0, <1>3, MemberFields
  <1>5. /\ r # sess.active /\ turns[r] = 0 /\ r \notin stopped /\ status[r] \in {"pending", "failed"}
        /\ rec[r] \notin Terminal /\ rec'[r] = "cancelled"
    BY <1>0, <1>1, <1>2, <1>3 DEF WaitingOK, LiveHasLiveRecord
  <1>6. status'[r] = "failed" /\ \A q \in Runs \ {r} : status'[q] = status[q]
    BY <1>2, <1>5 DEF TypeOK
  <1>7. Live' = Live \ {r}
    BY <1>0, <1>2, <1>4, <1>5 DEF Live
  <1>8. \A q \in Runs : Untried(q) => q # r /\ Untried(q)'
    BY <1>0, <1>2, <1>3, <1>4, <1>7 DEF Untried, Live
  <1>9. Threads'
    <2>1. NextUnique'
      BY <1>1, <1>2 DEF NextUnique
    <2>2. ASSUME NEW q \in Runs PROVE ThreadOK(q)'
      <3>1. ThreadOK(q) /\ th'[q] = th[q] /\ turns' = turns /\ th' = th
        BY <1>1, <1>2
      <3>2. rec[q] \in Terminal => rec'[q] \in Terminal
        BY <1>3
      <3>3. th[q].pc = "admit" => status'[q] = "pending" /\ Untried(q)'
        BY <1>6, <1>8, <3>1 DEF ThreadOK
      <3>4. ~Active(q) => ~Active(q)'
        BY <1>6 DEF Active
      <3> QED BY <1>2, <1>4, <3>1, <3>2, <3>3, <3>4 DEF ThreadOK
    <2> QED BY <2>1, <2>2 DEF Threads
  <1>10. WaitingOK'
    BY <1>4 DEF WaitingOK
  <1>11. Fresh'
    BY <1>1, <1>2, <1>6, <1>8 DEF Fresh
  <1>12. Stops'
    BY <1>0, <1>1, <1>2, <1>3, <1>4 DEF Stops
  <1>13. RecordsAgree'
    <2>1. ASSUME NEW q \in Runs PROVE rec'[q] = "finished" <=> rec[q] = "finished"
      BY <1>3, <1>5 DEF Terminal
    <2>2. FinalHasRecord'
      BY <1>1, <1>2, <2>1 DEF FinalHasRecord
    <2>3. LiveHasLiveRecord'
      BY <1>0, <1>1, <1>3, <1>4, <1>5 DEF LiveHasLiveRecord
    <2> QED BY <2>2, <2>3 DEF RecordsAgree
  <1>14. ActiveIsServed'
    BY <1>1, <1>2, <1>4 DEF ActiveIsServed, AtWork
  <1>15. Dangling'
    BY <1>1, <1>2, <1>6, <1>7 DEF Dangling, Active
  <1> QED BY <1>9, <1>10, <1>11, <1>12, <1>13, <1>14, <1>15 DEF Core

\* execute_waiting with no task active: the thread of the command becomes the
\* only executor.
LEMMA ExecuteKeeps ==
    ASSUME TypeOK, TypeOK', Core, NEW r \in Runs, ExecuteWaiting(r), sess.active = None
    PROVE  Core'
PROOF
 <1>0. /\ None \notin Runs /\ sess \in SessionType /\ stopped \subseteq Runs
        /\ sess.active \in Runs \cup {None} /\ sess.waiting \in Runs \cup {None}
    BY AcpHostAssumption, SessionFields DEF TypeOK
  <1>1. /\ NextUnique /\ \A q \in Runs : ThreadOK(q)
        /\ WaitingOK /\ Fresh /\ Stops /\ ActiveIsServed /\ Dangling
        /\ LiveHasLiveRecord /\ FinalHasRecord
    BY DEF Core, Threads, RecordsAgree
  <1>2. /\ sess.waiting = r /\ SaveEnding(WaitingStarted(sess), None, "none") /\ Go(r, "start")
        /\ UNCHANGED <<status, final, gate, daemon, faults, stopped, turns>>
    BY DEF ExecuteWaiting, Save
  <1>3. /\ sess' = WaitingStarted(sess)
        /\ \A q \in Runs :
                /\ rec[q] \in Terminal => rec'[q] = rec[q]
                /\ rec[q] \notin Terminal => rec'[q] \notin Terminal
                /\ q \notin {WaitingStarted(sess).active, WaitingStarted(sess).waiting} => rec'[q] = rec[q]
    BY <1>0, <1>2, MemberFields, SavedStep
  <1>4. sess'.active = r /\ sess'.waiting = None
    BY <1>0, <1>2, <1>3, MemberFields
  <1>5. /\ turns[r] = 0 /\ status[r] \in {"pending", "failed"} /\ rec[r] \notin Terminal
    BY <1>0, <1>1, <1>2 DEF WaitingOK, LiveHasLiveRecord
  <1>6. \A q \in Runs \ {r} : th'[q] = th[q]
    BY <1>2 DEF Go
  <1>7. th'[r].pc = "start" /\ th'[r].next = None
    BY <1>2, PcFacts DEF Go, TypeOK
  <1>8. Live' = Live
    BY <1>0, <1>2, <1>4 DEF Live
  <1>9. \A q \in Runs : Untried(q) => q # r /\ Untried(q)'
    BY <1>0, <1>2, <1>3, <1>4, <1>8 DEF Untried, Live
  <1>10. \A q \in Runs : th[q].pc \notin Executing /\ th[q].next = None
    BY <1>0, <1>1 DEF ThreadOK
  <1>11. Threads'
    <2>1. NextUnique'
      BY <1>6, <1>7, <1>10 DEF NextUnique
    <2>2. ASSUME NEW q \in Runs, q # r PROVE ThreadOK(q)'
      <3>1. ThreadOK(q) /\ th'[q] = th[q] /\ th[q].pc \notin Executing /\ th[q].next = None
        BY <1>1, <1>6, <1>10, <2>2
      <3>2. th'[q].pc = "admit" => gate' = q /\ status'[q] = "pending" /\ Untried(q)'
        BY <1>2, <1>9, <3>1 DEF ThreadOK
      <3> QED BY <1>2, <1>3, <3>1, <3>2, PcFacts DEF ThreadOK
    <2>3. ThreadOK(r)'
      BY <1>2, <1>4, <1>5, <1>7 DEF ThreadOK
    <2> QED BY <2>1, <2>2, <2>3 DEF Threads
  <1>12. WaitingOK'
    BY <1>4 DEF WaitingOK
  <1>13. Fresh'
    BY <1>1, <1>2, <1>6, <1>9 DEF Fresh
  <1>14. Stops'
    BY <1>0, <1>1, <1>2, <1>3 DEF Stops
  <1>15. RecordsAgree'
    <2>1. FinalHasRecord'
      BY <1>1, <1>2, <1>3 DEF FinalHasRecord, Terminal
    <2>2. LiveHasLiveRecord'
      BY <1>3, <1>4, <1>5 DEF LiveHasLiveRecord
    <2> QED BY <2>1, <2>2 DEF RecordsAgree
  <1>16. ActiveIsServed'
    BY <1>4, <1>7, PcFacts DEF ActiveIsServed
  <1>17. Dangling'
    BY <1>1, <1>2, <1>6, <1>7, <1>8 DEF Dangling, Active
  <1> QED BY <1>11, <1>12, <1>13, <1>14, <1>15, <1>16, <1>17 DEF Core

\* acp recover ends the task that was active at the crash as interrupted and
\* keeps the waiting one.
LEMMA RecoverSessionsKeeps ==
    ASSUME TypeOK, TypeOK', Core, Asleep, RecoverSessions
    PROVE  Core'
PROOF
 <1>0. /\ None \notin Runs /\ sess \in SessionType /\ stopped \subseteq Runs
        /\ sess.active \in Runs \cup {None} /\ sess.waiting \in Runs \cup {None}
    BY AcpHostAssumption, SessionFields DEF TypeOK
  <1>1. /\ NextUnique /\ \A q \in Runs : ThreadOK(q)
        /\ WaitingOK /\ Fresh /\ Stops /\ ActiveIsServed /\ Dangling
        /\ LiveHasLiveRecord /\ FinalHasRecord
    BY DEF Core, Threads, RecordsAgree
  <1>2. /\ SaveEnding(Interrupted(sess), sess.active, "interrupted")
        /\ UNCHANGED <<status, final, th, stopped, turns>>
        /\ \A q \in Runs : th[q] = Idle /\ ~Active(q)
    BY DEF RecoverSessions, history, Asleep
  <1>3. /\ sess' = Interrupted(sess)
        /\ \A q \in Runs :
                /\ rec[q] \in Terminal => rec'[q] = rec[q]
                /\ rec[q] \notin Terminal /\ q = sess.active => rec'[q] = "interrupted"
                /\ rec[q] \notin Terminal /\ q # sess.active => rec'[q] \notin Terminal
                /\ q \notin {sess.active, Interrupted(sess).active, Interrupted(sess).waiting} => rec'[q] = rec[q]
    BY <1>0, <1>2, MemberFields, SavedStep DEF Terminal
  <1>4. sess'.active = None /\ sess'.waiting = sess.waiting
    BY <1>0, <1>3, MemberFields
  <1>5. \A q \in Runs : th'[q].pc = "idle" /\ th'[q].next = None /\ ~Active(q)'
    BY <1>2, PcFacts DEF Active
  <1>6. \A q \in Runs : Untried(q) => Untried(q)'
    BY <1>0, <1>2, <1>3, <1>4 DEF Untried, Live
  <1>7. Threads'
    <2>1. \A q \in Runs : turns'[q] <= 1
      BY <1>1, <1>2 DEF ThreadOK
    <2> QED BY <1>5, <2>1, PcFacts DEF Threads, NextUnique, ThreadOK
  <1>8. WaitingOK'
    BY <1>0, <1>1, <1>2, <1>4 DEF WaitingOK
  <1>9. Fresh'
    BY <1>1, <1>2, <1>5, <1>6 DEF Fresh
  <1>10. Stops'
    <2>1. ASSUME NEW q \in stopped PROVE rec'[q] \in Terminal \ {"finished"}
      <3>1. CASE rec[q] \in Terminal
        <4>1. q \in Runs /\ rec'[q] = rec[q]
          BY <1>0, <1>3, <2>1, <3>1
        <4>2. rec[q] # "finished"
          BY <1>0, <1>1, <2>1, <4>1 DEF Stops, LiveHasLiveRecord, Terminal
        <4> QED BY <3>1, <4>1, <4>2
      <3>2. CASE rec[q] \notin Terminal
        BY <1>0, <1>1, <1>3, <2>1, <3>2 DEF Stops, Terminal
      <3> QED BY <3>1, <3>2
    <2> QED BY <1>2, <2>1 DEF Stops
  <1>11. RecordsAgree'
    <2>1. ASSUME NEW q \in Runs PROVE rec'[q] = "finished" <=> rec[q] = "finished"
      BY <1>3 DEF Terminal
    <2>2. FinalHasRecord'
      BY <1>1, <1>2, <2>1 DEF FinalHasRecord
    <2>3. LiveHasLiveRecord'
      BY <1>0, <1>1, <1>3, <1>4 DEF LiveHasLiveRecord, WaitingOK
    <2> QED BY <2>2, <2>3 DEF RecordsAgree
  <1>12. ActiveIsServed' /\ Dangling'
    BY <1>4, <1>5 DEF ActiveIsServed, Dangling
  <1> QED BY <1>7, <1>8, <1>9, <1>10, <1>11, <1>12 DEF Core

-----------------------------------------------------------------------------
(* Every other action is such a step of one thread, or of none.               *)

Frame(r) ==
    /\ \A q \in Runs \ {r} : th'[q] = th[q] /\ status'[q] = status[q] /\ turns'[q] = turns[q]
    /\ \A q \in Runs \ {r} : gate = q => gate' = q

\* A step that leaves the session, the records, the replies and the stops alone
\* is steady.
LEMMA Unmoved ==
    /\ UNCHANGED <<sess, rec, final, stopped>> => Steady
    /\ UNCHANGED <<daemon, faults>> => Calm
PROOF BY DEF Steady, SameSession, RecordsKept, FinalKept, StopsKept, Calm, AtWork

\* A save that keeps the tasks and does not take back a stop is steady.
LEMMA SaveIsSteady ==
    ASSUME TypeOK, NEW s, Alike(sess, s), sess.stopping => s.stopping,
           SaveEnding(s, None, "none"), FinalKept, StopsKept
    PROVE  Steady /\ sess' = s
PROOF
  <1>1. None \notin Runs /\ s \in SessionType /\ s.active = sess.active /\ s.waiting = sess.waiting
    BY AcpHostAssumption DEF Alike
  <1>2. /\ sess' = s
        /\ \A q \in Runs :
                /\ rec[q] \in Terminal => rec'[q] = rec[q]
                /\ rec[q] \notin Terminal => rec'[q] \notin Terminal
                /\ q \notin {s.active, s.waiting} => rec'[q] = rec[q]
    BY <1>1, SavedStep
  <1>3. SameSession
    BY <1>1, <1>2 DEF SameSession
  <1>4. RecordsKept
    BY <1>1, <1>2 DEF RecordsKept, Live
  <1> QED BY <1>2, <1>3, <1>4 DEF Steady

\* The admission of a message.
LEMMA AdmissionIsLocal ==
    ASSUME TypeOK, Core, NEW r \in Runs,
           \/ Route(r) \/ AdmitExisting(r) \/ AdmitBusy(r) \/ AdmitInsert(r) \/ Reject(r)
           \/ AdmitSubmit(r) /\ SubmitRefused(sess)
    PROVE  Local(r)
PROOF
  <1>0. /\ th \in [Runs -> ThreadType] /\ status \in [Runs -> {"none", "pending", "running", "finished", "failed"}]
        /\ Fresh /\ ThreadOK(r) /\ Runs \cap {"free", "config", "refresh"} = {}
    BY AcpHostAssumption DEF TypeOK, Core, Threads
  <1>1. CASE Route(r) \/ AdmitExisting(r) \/ AdmitBusy(r)
    <2>1. UNCHANGED <<sess, rec, final, stopped, daemon, faults, status, turns, gate>>
      BY <1>1 DEF Route, AdmitExisting, AdmitBusy, durable, history
    <2>2. th[r].pc \in {"idle", "gate"} /\ (Go(r, "idle") \/ Go(r, "gate"))
      BY <1>1, PcFacts DEF Route, AdmitExisting, AdmitBusy, GateFree
    <2>3. Idles(r)
      BY <1>0, <2>1, <2>2, PcFacts DEF Idles, Go
    <2>4. Frame(r)
      BY <1>0, <2>1, <2>2 DEF Frame, Go
    <2> QED BY <2>1, <2>3, <2>4, Unmoved DEF Local, Frame, SameRun, GateKept
  <1>2. CASE AdmitInsert(r)
    <2>1. /\ UNCHANGED <<sess, rec, final, stopped, daemon, faults, turns>>
          /\ gate = "free" /\ gate' = r /\ Go(r, "admit")
          /\ status[r] = "none" /\ status' = [status EXCEPT ![r] = "pending"]
      BY <1>2 DEF AdmitInsert, GateFree, history
    <2>2. Enters(r)
      BY <1>0, <2>1 DEF Enters, Go
    <2>3. Frame(r)
      BY <1>0, <2>1 DEF Frame, Go
    <2> QED BY <2>1, <2>2, <2>3, Unmoved DEF Local, Frame, SameRun, GateKept
  <1>3. CASE Reject(r)
    <2>1. /\ UNCHANGED <<sess, rec, final, stopped, daemon, faults, turns, gate>>
          /\ th[r].pc = "rejected" /\ Go(r, "idle") /\ FailActive(r)
      BY <1>3 DEF Reject, history
    <2>2. status[r] # "none" /\ status'[r] = IF Active(r) THEN "failed" ELSE status[r]
      BY <1>0, <2>1 DEF FailActive, Fresh
    <2>3. Refused(r)
      BY <1>0, <2>1, <2>2 DEF Refused, Go
    <2>4. Frame(r)
      BY <1>0, <2>1 DEF Frame, Go, FailActive
    <2> QED BY <2>1, <2>3, <2>4, Unmoved DEF Local, Frame, SameRun, GateKept
  <1>4. CASE AdmitSubmit(r) /\ SubmitRefused(sess)
    <2>1. /\ UNCHANGED <<sess, rec, final, stopped, daemon, faults, turns, status>>
          /\ th[r].pc = "admit" /\ Go(r, "rejected")
      BY <1>4 DEF AdmitSubmit, history
    <2>2. status[r] = "pending" /\ gate = r
      BY <1>0, <2>1 DEF ThreadOK
    <2>3. Refused(r)
      BY <1>0, <2>1, <2>2 DEF Refused, Go
    <2>4. Frame(r)
      BY <1>0, <2>1, <2>2 DEF Frame, Go
    <2> QED BY <2>1, <2>3, <2>4, Unmoved DEF Local, Frame, SameRun, GateKept
  <1> QED BY <1>1, <1>2, <1>3, <1>4

\* A step of the thread that executes r, with the session left alone.
LEMMA TurnIsLocal ==
    ASSUME TypeOK, Core, NEW r \in Runs,
           \/ TurnStart(r) \/ TurnUnavailable(r) \/ TurnEnds(r) \/ FailRun(r) \/ FinishFails(r)
    PROVE  Local(r)
PROOF
  <1>0. /\ th \in [Runs -> ThreadType] /\ status \in [Runs -> {"none", "pending", "running", "finished", "failed"}]
        /\ turns \in [Runs -> Nat] /\ Fresh /\ ThreadOK(r)
    BY DEF TypeOK, Core, Threads
  <1>1. UNCHANGED <<sess, rec, final, stopped, daemon, faults, gate>>
    BY DEF TurnStart, TurnUnavailable, TurnEnds, FailRun, FinishFails, durable, history
  <1>2. th[r].pc \in Executing
    BY PcFacts DEF TurnStart, TurnUnavailable, TurnEnds, FailRun, FinishFails, Connected
  <1>3. status[r] # "none"
    BY <1>0, <1>2, PcFacts DEF Fresh
  <1>4. CASE TurnStart(r)
    <2>1. /\ th[r].pc = "start" /\ turns[r] = 0
          /\ IF sess.stopping
             THEN Go(r, "cancelled") /\ UNCHANGED <<status, turns>>
             ELSE /\ Go(r, "turn")
                  /\ status' = [status EXCEPT ![r] = "running"]
                  /\ turns' = [turns EXCEPT ![r] = @ + 1]
      BY <1>0, <1>4 DEF TurnStart, ThreadOK
    <2>2. CASE sess.stopping
      <3>1. Proceeds(r) /\ Frame(r)
        BY <1>0, <1>1, <1>2, <1>3, <2>1, <2>2, PcFacts DEF Proceeds, Frame, Go
      <3> QED BY <1>1, <3>1, Unmoved DEF Local, Frame, SameRun, GateKept
    <2>3. CASE ~sess.stopping
      <3>1. turns'[r] = 1
        BY <1>0, <2>1, <2>3
      <3>2. Proceeds(r)
        BY <1>0, <1>1, <1>2, <1>3, <2>1, <2>3, <3>1, PcFacts DEF Proceeds, Go
      <3>3. Frame(r)
        BY <1>0, <1>1, <2>1, <2>3 DEF Frame, Go
      <3> QED BY <1>1, <3>2, <3>3, Unmoved DEF Local, Frame, SameRun, GateKept
    <2> QED BY <2>2, <2>3
  <1>5. CASE TurnUnavailable(r) \/ TurnEnds(r) \/ FinishFails(r)
    <2>1. UNCHANGED <<status, turns>>
      BY <1>5 DEF TurnUnavailable, TurnEnds, FinishFails, durable, history
    <2>2. PICK pc \in {"error", "cancelled", "text"} : Go(r, pc)
      <3>1. Outcomes(r) \subseteq {"error", "cancelled", "text"} \/ ~TurnEnds(r)
        <4> SUFFICES ASSUME TurnEnds(r) PROVE Outcomes(r) \subseteq {"error", "cancelled", "text"}
          OBVIOUS
        <4>1. th[r].pc \in {"turn", "failing", "fenced"}
          BY DEF TurnEnds, Connected
        <4> QED BY <4>1 DEF Outcomes
      <3> QED BY <1>5, <3>1 DEF TurnUnavailable, TurnEnds, FinishFails
    <2>3. Proceeds(r) /\ Frame(r)
      BY <1>0, <1>1, <1>2, <1>3, <2>1, <2>2, PcFacts DEF Proceeds, Frame, Go
    <2> QED BY <1>1, <2>3, Unmoved DEF Local, Frame, SameRun, GateKept
  <1>6. CASE FailRun(r)
    <2>1. FailActive(r) /\ turns' = turns /\ (Go(r, "endCancelled") \/ Go(r, "endFailed"))
      BY <1>6 DEF FailRun, history
    <2>2. ~Active(r)' /\ status'[r] # "none"
      BY <1>0, <1>3, <2>1 DEF FailActive, Active
    <2>3. Proceeds(r)
      BY <1>0, <1>2, <2>1, <2>2, PcFacts DEF Proceeds, Go
    <2>4. Frame(r)
      BY <1>0, <1>1, <2>1 DEF Frame, Go, FailActive
    <2> QED BY <1>1, <2>3, <2>4, Unmoved DEF Local, Frame, SameRun, GateKept
  <1> QED BY <1>4, <1>5, <1>6

\* A step of the client connection or a stop, each of which saves the session.
LEMMA ClientIsLocal ==
    ASSUME TypeOK, Core, NEW r \in Runs,
           \/ OpenNative(r) \/ LoseContext(r) \/ Ask(r) \/ Poll(r) \/ ExpireOrAnswer(r)
           \/ ControlCheck(r)
    PROVE  Local(r)
PROOF
  <1>0. /\ th \in [Runs -> ThreadType] /\ sess \in SessionType
        /\ Fresh /\ ThreadOK(r) /\ "open" \in QuestionStates /\ "ended" \in QuestionStates
    BY DEF TypeOK, Core, Threads, QuestionStates
  <1>1. UNCHANGED <<final, status, turns, daemon, faults, gate>>
    BY DEF OpenNative, LoseContext, Ask, Poll, ExpireOrAnswer, ControlCheck, durable, history
  <1>2. th[r].pc \in Executing /\ sess.active = r
    <2>1. th[r].pc \in Executing
      BY PcFacts DEF OpenNative, LoseContext, Ask, Poll, ExpireOrAnswer, ControlCheck
    <2> QED BY <1>0, <2>1 DEF ThreadOK
  <1>3. status[r] # "none" /\ Calm
    BY <1>0, <1>1, <1>2, Unmoved, PcFacts DEF Fresh
  <1>4. \* the thread stays, or goes on to a place within the turn
        /\ Frame(r)
        /\ Stays(r) \/ Proceeds(r)
    <2>1. UNCHANGED th \/ Go(r, "failing") \/ Go(r, "fenced")
      BY DEF OpenNative, LoseContext, Ask, Poll, ExpireOrAnswer, ControlCheck
    <2>2. CASE UNCHANGED th
      BY <1>1, <2>2 DEF Frame, Stays, SameRun, GateKept
    <2>3. CASE Go(r, "failing") \/ Go(r, "fenced")
      BY <1>0, <1>1, <1>2, <1>3, <2>3, PcFacts DEF Frame, Proceeds, Go
    <2> QED BY <2>1, <2>2, <2>3
  <1>5. Steady
    <2>0. FinalKept
      BY <1>1 DEF FinalKept
    <2>1. CASE Poll(r)
      BY <2>1, Unmoved DEF Poll, durable, history
    <2>2. CASE ControlCheck(r)
      <3>1. SaveEnding([sess EXCEPT !.stopping = TRUE, !.execAfter = FALSE], None, "none") /\ stopped' = stopped \cup {r}
        BY <2>2 DEF ControlCheck, Save
      <3>2. sess' = [sess EXCEPT !.stopping = TRUE, !.execAfter = FALSE]
        BY <3>1 DEF SaveEnding
      <3>3. StopsKept
        BY <1>0, <1>2, <3>1, <3>2, StopsKeep DEF StopsKept
      <3> QED BY <1>0, <2>0, <3>1, <3>3, StopsKeep, SaveIsSteady
    <2>3. CASE ExpireOrAnswer(r) /\ sess.question # "open"
      BY <1>1, <2>3, Unmoved DEF ExpireOrAnswer, history
    <2>4. ASSUME NEW s, Alike(sess, s), s.stopping = sess.stopping,
                 SaveEnding(s, None, "none"), stopped' = stopped
          PROVE  Steady
      BY <2>0, <2>4, SaveIsSteady DEF StopsKept
    <2>5. CASE OpenNative(r)
      BY <1>0, <2>4, <2>5, FlagsKeep DEF OpenNative, Save, history
    <2>6. CASE LoseContext(r)
      BY <1>0, <2>4, <2>6, FlagsKeep DEF LoseContext, Save, history
    <2>7. CASE Ask(r)
      BY <1>0, <2>4, <2>7, FlagsKeep DEF Ask, Save, history
    <2>8. CASE ExpireOrAnswer(r) /\ sess.question = "open"
      BY <1>0, <2>4, <2>8, FlagsKeep DEF ExpireOrAnswer, Save, history
    <2> QED BY <2>1, <2>2, <2>3, <2>5, <2>6, <2>7, <2>8
  <1> QED BY <1>3, <1>4, <1>5 DEF Local, Frame, SameRun, GateKept

\* The steps of others on a run: the outbox, a lost worker, a stop.
LEMMA OutsideIsLocal ==
    ASSUME TypeOK, Core, NEW r \in Runs,
           WorkerLost(r) \/ Deliver(r) \/ SettleRun(r) \/ Stop(r)
    PROVE  Local(r)
PROOF
  <1>0. /\ th \in [Runs -> ThreadType] /\ sess \in SessionType
        /\ status \in [Runs -> {"none", "pending", "running", "finished", "failed"}]
        /\ faults \in Nat
    BY AcpHostAssumption DEF TypeOK
  <1>1. CASE WorkerLost(r)
    <2>1. /\ UNCHANGED <<sess, rec, final, stopped, daemon, status, turns, gate>>
          /\ th[r].pc \in Executing \cup {"failAfter"} /\ Go(r, "idle") /\ faults' = faults + 1
      BY <1>1, PcFacts DEF WorkerLost, durable, history
    <2>2. faults' # 0 /\ Calm
      BY <1>0, <2>1 DEF Calm, AtWork
    <2>3. Lost(r) /\ Frame(r)
      BY <1>0, <2>1, <2>2 DEF Lost, Frame, Go
    <2> QED BY <2>1, <2>2, <2>3, Unmoved DEF Local, Frame, SameRun, GateKept
  <1>2. CASE Deliver(r)
    <2>1. /\ UNCHANGED <<sess, rec, stopped, daemon, faults, status, turns, gate, th>>
          /\ ReplyDelivery!Settle(r)
      BY <1>2 DEF Deliver, memory, history
    <2>2. FinalKept
      BY <2>1 DEF ReplyDelivery!Settle, ReplyDelivery!SettleFinal, FinalKept, TypeOK
    <2>3. Steady /\ Calm
      BY <2>1, <2>2, Unmoved DEF Steady, SameSession, RecordsKept, StopsKept
    <2> QED BY <2>1, <2>3 DEF Local, Stays, SameRun, GateKept
  <1>3. CASE SettleRun(r)
    <2>1. /\ UNCHANGED <<sess, rec, final, stopped, daemon, faults, turns, gate, th>>
          /\ final[r] # "none"
          /\ status' = [status EXCEPT ![r] = IF final[r] = "sent" THEN "finished" ELSE "failed"]
      BY <1>3 DEF SettleRun, memory, history
    <2>2. Settles(r) /\ Frame(r)
      BY <1>0, <2>1 DEF Settles, Frame, GateKept, Active
    <2> QED BY <2>1, <2>2, Unmoved DEF Local, Frame, SameRun, GateKept
  <1>4. CASE Stop(r)
    <2>1. /\ UNCHANGED <<final, daemon, faults, turns, gate, th, status>> /\ sess.active = r
          /\ SaveEnding(StopAsked(sess), None, "none") /\ stopped' = stopped \cup {r}
      BY <1>4 DEF Stop, Save
    <2>2. sess' = StopAsked(sess) /\ FinalKept
      BY <2>1 DEF SaveEnding, FinalKept
    <2>3. StopsKept
      BY <1>0, <2>1, <2>2, StopsKeep DEF StopsKept
    <2>4. Steady
      BY <1>0, <2>1, <2>2, <2>3, StopsKeep, SaveIsSteady
    <2> QED BY <2>1, <2>4, Unmoved DEF Local, Stays, SameRun, GateKept
  <1> QED BY <1>1, <1>2, <1>3, <1>4

\* A step of no thread.
Quiet == Steady /\ Calm /\ \A q \in Runs : SameRun(q) /\ GateKept(q)

\* A step of no thread keeps the invariant.
LEMMA QuietKeeps ==
    ASSUME TypeOK, TypeOK', Core, Quiet
    PROVE  Core'
PROOF
  <1>1. CASE Runs = {}
    <2>1. sess'.active = None /\ sess'.waiting = None /\ stopped' = {}
      BY <1>1, SessionFields DEF TypeOK
    <2> QED BY <1>1, <2>1 DEF Core, Threads, NextUnique, WaitingOK, Fresh, Stops, Dangling, RecordsAgree,
                 FinalHasRecord, LiveHasLiveRecord, ActiveIsServed
  <1>2. CASE Runs # {}
    <2>1. PICK r \in Runs : TRUE
      BY <1>2
    <2>2. Local(r)
      BY DEF Local, Quiet, Stays
    <2> QED BY <2>2, LocalKeeps
  <1> QED BY <1>1, <1>2

\* Answers, resets, probes, shutdown and an execute command that stops the
\* active task first are steps of no thread; the probe writes back a copy that
\* is still the session.
LEMMA QuietSteps ==
    ASSUME TypeOK, Core, ProbeInv,
           \/ ExpiryPasses \/ Answer \/ ResetContext
           \/ BeginProbe("config") \/ BeginProbe("refresh") \/ CommitProbe \/ AbandonProbe
           \/ RequestShutdown \/ UNCHANGED vars
           \/ \E r \in Runs : ExecuteWaiting(r) /\ sess.active # None
    PROVE  Quiet
PROOF
  <1>0. /\ sess \in SessionType /\ sess.active \in Runs \cup {None}
        /\ Runs \cap {"free", "config", "refresh"} = {} /\ "answered" \in QuestionStates
    BY AcpHostAssumption, SessionFields DEF TypeOK, QuestionStates
  <1>1. UNCHANGED <<final, faults, turns, th, status>>
    BY DEF ExpiryPasses, Answer, ResetContext, BeginProbe, CommitProbe, AbandonProbe,
           RequestShutdown, vars, ExecuteWaiting, durable, history
  <1>2. FinalKept
    BY <1>1 DEF FinalKept
  <1>3. \A q \in Runs : SameRun(q) /\ GateKept(q)
    <2>1. gate' = gate \/ gate \in {"free", "config", "refresh"}
      BY DEF ExpiryPasses, Answer, ResetContext, BeginProbe, CommitProbe, AbandonProbe,
             RequestShutdown, vars, ExecuteWaiting, durable, history
    <2> QED BY <1>0, <1>1, <2>1 DEF SameRun, GateKept
  <1>4. Calm
    <2>1. daemon' = daemon \/ RequestShutdown
      BY DEF ExpiryPasses, Answer, ResetContext, BeginProbe, CommitProbe, AbandonProbe,
             RequestShutdown, vars, ExecuteWaiting, durable, history
    <2> QED BY <1>1, <2>1 DEF Calm, AtWork, RequestShutdown
  <1>5. Steady
    <2>1. CASE ExpiryPasses \/ BeginProbe("config") \/ BeginProbe("refresh") \/ UNCHANGED vars
      BY <2>1, Unmoved DEF ExpiryPasses, BeginProbe, vars, durable, history
    <2>2. ASSUME NEW s, Alike(sess, s), s.stopping = sess.stopping,
                 SaveEnding(s, None, "none"), stopped' = stopped
          PROVE  Steady
      BY <1>2, <2>2, SaveIsSteady DEF StopsKept
    <2>3. CASE Answer
      BY <1>0, <2>2, <2>3, FlagsKeep DEF Answer, Save, history
    <2>4. CASE ResetContext
      BY <1>0, <2>2, <2>4, FlagsKeep DEF ResetContext, Save, history
    <2>5. ASSUME NEW s, Alike(sess, s), s.stopping = sess.stopping,
                 sess' = s, rec' = SavedRecords(rec, s, None, "none"), stopped' = stopped
          PROVE  Steady
      <3>1. None \notin Runs /\ s \in SessionType /\ s.active = sess.active /\ s.waiting = sess.waiting
            /\ rec \in [Runs -> RecordStates]
        BY <2>5, AcpHostAssumption DEF Alike, TypeOK
      <3>2. RecordsKept
        BY <2>5, <3>1, SavedFields DEF RecordsKept, Live
      <3> QED BY <1>2, <2>5, <3>1, <3>2 DEF Steady, SameSession, StopsKept
    <2>6. CASE CommitProbe
      <3>1. probe.copy = sess /\ Alike(sess, sess)
        BY <1>0, <2>6 DEF ProbeInv, CommitProbe, Alike
      <3> QED BY <2>5, <2>6, <3>1 DEF CommitProbe, history
    <2>7. CASE AbandonProbe
      <3>1. CASE UNCHANGED <<sess, rec>>
        BY <1>1, <2>7, <3>1, Unmoved DEF AbandonProbe, history
      <3>2. CASE sess' = [sess EXCEPT !.lost = TRUE] /\ rec' = SavedRecords(rec, sess', None, "none")
        <4>1. rec' = SavedRecords(rec, [sess EXCEPT !.lost = TRUE], None, "none") /\ stopped' = stopped
          BY <2>7, <3>2 DEF AbandonProbe, history
        <4> QED BY <1>0, <2>5, <3>2, <4>1, FlagsKeep
      <3> QED BY <2>7, <3>1, <3>2 DEF AbandonProbe
    <2>8. CASE RequestShutdown
      <3>1. SaveEnding(ShutDown(sess), None, "none") /\ stopped' = stopped \cup ({sess.active} \ {None})
        BY <2>8 DEF RequestShutdown, Save
      <3>2. /\ Alike(sess, ShutDown(sess)) /\ (sess.stopping => ShutDown(sess).stopping)
            /\ sess' = ShutDown(sess)
        BY <1>0, <3>1, StopsKeep DEF SaveEnding
      <3>3. StopsKept
        BY <1>0, <3>1, <3>2, StopsKeep DEF StopsKept
      <3> QED BY <1>2, <3>1, <3>2, <3>3, SaveIsSteady
    <2>9. CASE \E r \in Runs : ExecuteWaiting(r) /\ sess.active # None
      <3>1. SaveEnding(ExecuteAfterStop(sess), None, "none") /\ stopped' = stopped \cup {sess.active}
        BY <2>9 DEF ExecuteWaiting, Save
      <3>2. /\ Alike(sess, ExecuteAfterStop(sess)) /\ ExecuteAfterStop(sess).stopping
            /\ sess' = ExecuteAfterStop(sess)
        BY <1>0, <3>1, StopsKeep DEF SaveEnding
      <3>3. StopsKept
        BY <3>1, <3>2 DEF StopsKept
      <3> QED BY <1>2, <3>1, <3>2, <3>3, SaveIsSteady
    <2> QED BY <2>1, <2>3, <2>4, <2>6, <2>7, <2>8, <2>9
  <1> QED BY <1>3, <1>4, <1>5 DEF Quiet

-----------------------------------------------------------------------------
(* The invariant holds.                                                     *)

\* What every step does to the variables of the two other parts.
RunStep(r) ==
    \/ Route(r) \/ ThreadStep(r) \/ ClientStep(r) \/ Command(r)
    \/ WorkerLost(r) \/ Deliver(r) \/ SettleRun(r)

\* Every action keeps the part of the invariant about runs, session and
\* records.
LEMMA CoreStep ==
    ASSUME IInv, TypeOK', [Next]_vars
    PROVE  Core'
PROOF
  <1>0. TypeOK /\ Core /\ Asleep /\ ProbeInv
    BY DEF IInv
  <1>1. ASSUME NEW r \in Runs, RunStep(r) PROVE Core'
    <2>1. CASE \/ Route(r) \/ AdmitExisting(r) \/ AdmitBusy(r) \/ AdmitInsert(r) \/ Reject(r)
               \/ AdmitSubmit(r) /\ SubmitRefused(sess)
      BY <1>0, <2>1, AdmissionIsLocal, LocalKeeps
    <2>2. CASE AdmitSubmit(r) /\ ~SubmitRefused(sess)
      BY <1>0, <2>2, SubmitKeeps
    <2>3. CASE TurnStart(r) \/ TurnUnavailable(r) \/ TurnEnds(r) \/ FailRun(r) \/ FinishFails(r)
      BY <1>0, <2>3, TurnIsLocal, LocalKeeps
    <2>4. CASE CompleteTask(r)
      BY <1>0, <2>4, CompleteKeeps
    <2>5. CASE FinishTask(r)
      BY <1>0, <2>5, FinishKeeps
    <2>6. CASE AfterFinish(r)
      BY <1>0, <2>6, AfterKeeps
    <2>7. CASE ClientStep(r)
      BY <1>0, <2>7, ClientIsLocal, LocalKeeps DEF ClientStep
    <2>8. CASE Stop(r) \/ WorkerLost(r) \/ Deliver(r) \/ SettleRun(r)
      BY <1>0, <2>8, OutsideIsLocal, LocalKeeps
    <2>9. CASE CancelWaiting(r)
      BY <1>0, <2>9, CancelKeeps
    <2>10. CASE ExecuteWaiting(r) /\ sess.active = None
      BY <1>0, <2>10, ExecuteKeeps
    <2>11. CASE ExecuteWaiting(r) /\ sess.active # None
      BY <1>0, <2>11, QuietSteps, QuietKeeps
    <2> QED BY <1>1, <2>1, <2>2, <2>3, <2>4, <2>5, <2>6, <2>7, <2>8, <2>9, <2>10, <2>11
            DEF RunStep, ThreadStep, Command
  <1>2. CASE \/ ExpiryPasses \/ Answer \/ ResetContext
             \/ BeginProbe("config") \/ BeginProbe("refresh") \/ CommitProbe \/ AbandonProbe
             \/ RequestShutdown \/ UNCHANGED vars
    BY <1>0, <1>2, QuietSteps, QuietKeeps
  <1>3. CASE Exit \/ Crash
    BY <1>0, <1>3, DownKeeps
  <1>4. CASE RecoverRuns
    BY <1>0, <1>4, RecoverRunsKeeps
  <1>5. CASE RecoverSessions
    BY <1>0, <1>5, RecoverSessionsKeeps
  <1> QED BY <1>1, <1>2, <1>3, <1>4, <1>5 DEF Next, RunStep

\* Nothing is in memory while the daemon is down: only threads at a place, a
\* gate holder or a working daemon can act.
LEMMA AsleepStep ==
    ASSUME IInv, [Next]_vars
    PROVE  Asleep'
PROOF
  <1>0. Asleep /\ TypeOK
    BY DEF IInv
  <1>1. ASSUME NEW r \in Runs, RunStep(r) PROVE Asleep'
    <2>1. daemon' = daemon
      BY <1>1 DEF RunStep, ThreadStep, ClientStep, Command, Route, AdmitExisting, AdmitBusy, AdmitInsert, AdmitSubmit, Reject, TurnStart, TurnUnavailable, TurnEnds, FailRun, CompleteTask, FinishTask, FinishFails, AfterFinish, OpenNative, LoseContext, Ask, Poll, ExpireOrAnswer, ControlCheck, Stop, CancelWaiting, ExecuteWaiting, WorkerLost, Deliver, SettleRun
    <2>2. AtWork \/ th[r].pc # "idle"
      BY <1>1, PcFacts DEF AtWork, RunStep, ThreadStep, ClientStep, Command, Connected, GateFree, Route, AdmitExisting, AdmitBusy, AdmitInsert, AdmitSubmit, Reject, TurnStart, TurnUnavailable, TurnEnds, FailRun, CompleteTask, FinishTask, FinishFails, AfterFinish, OpenNative, LoseContext, Ask, Poll, ExpireOrAnswer, ControlCheck, Stop, CancelWaiting, ExecuteWaiting, WorkerLost, Deliver, SettleRun
    <2> QED BY <1>0, <2>1, <2>2, PcFacts DEF Asleep, AtWork
  <1>2. CASE CommitProbe \/ AbandonProbe
    BY <1>0, <1>2 DEF Asleep, CommitProbe, AbandonProbe
  <1>3. CASE Answer \/ ResetContext \/ BeginProbe("config") \/ BeginProbe("refresh") \/ RequestShutdown \/ RecoverSessions
    BY <1>3 DEF Asleep, Answer, ResetContext, BeginProbe, RequestShutdown, RecoverSessions, AtWork
  <1>4. CASE ExpiryPasses \/ UNCHANGED vars
    BY <1>0, <1>4 DEF Asleep, ExpiryPasses, vars, durable, Active
  <1>5. CASE Exit \/ Crash
    BY <1>5 DEF Asleep, Exit, Crash, MemoryLost
  <1>6. CASE RecoverRuns
    BY <1>0, <1>6, RecoverRunsKeeps DEF Asleep, RecoverRuns, memory, Active
  <1> QED BY <1>1, <1>2, <1>3, <1>4, <1>5, <1>6 DEF Next, RunStep

\* Whoever changes the session while a probe holds the gate would need a task
\* in it, and a probed session has none.
LEMMA ProbeStep ==
    ASSUME IInv, [Next]_vars
    PROVE  ProbeInv'
PROOF
  <1>0. /\ Asleep /\ TypeOK /\ ProbeInv /\ None \notin Runs
        /\ Runs \cap {"free", "config", "refresh"} = {}
        /\ \A q \in Runs : ThreadOK(q)
    BY AcpHostAssumption DEF IInv, Core, Threads
  <1>1. CASE gate' \notin {"config", "refresh"}
    BY <1>1 DEF ProbeInv
  <1>2. CASE gate' = gate /\ sess' = sess /\ probe'.copy = probe.copy
    BY <1>0, <1>2 DEF ProbeInv, Busy
  <1>3. CASE gate' = gate /\ Busy(sess)
    BY <1>0, <1>3 DEF ProbeInv
  <1>p. \A b \in BOOLEAN : [probe EXCEPT !.fresh = b].copy = probe.copy
                           /\ [probe EXCEPT !.cancel = b].copy = probe.copy
    BY DEF IInv, TypeOK, ProbeType
  <1>q. probe.fresh \in BOOLEAN
    BY DEF IInv, TypeOK, ProbeType
  <1>4. ASSUME NEW r \in Runs, RunStep(r) PROVE ProbeInv'
    <2>1. CASE th[r].pc \in Executing
      <3>1. Busy(sess)
        BY <1>0, <2>1 DEF ThreadOK, Busy
      <3>2. gate' = gate
        BY <1>4, <2>1, PcFacts DEF RunStep, ThreadStep, ClientStep, Command, GateFree, durable, memory, Route, AdmitExisting, AdmitBusy, AdmitInsert, AdmitSubmit, Reject, TurnStart, TurnUnavailable, TurnEnds, FailRun, CompleteTask, FinishTask, FinishFails, AfterFinish, OpenNative, LoseContext, Ask, Poll, ExpireOrAnswer, ControlCheck, Stop, CancelWaiting, ExecuteWaiting, WorkerLost, Deliver, SettleRun
      <3> QED BY <1>3, <3>1, <3>2
    <2>2. CASE Stop(r) \/ CancelWaiting(r) \/ ExecuteWaiting(r)
      <3>1. Busy(sess) /\ gate' = gate
        BY <1>0, <2>2 DEF Stop, CancelWaiting, ExecuteWaiting, Busy
      <3> QED BY <1>3, <3>1
    <2>3. CASE AdmitInsert(r) \/ AdmitSubmit(r)
      BY <1>0, <1>1, <2>3 DEF AdmitInsert, AdmitSubmit
    <2>4. CASE Route(r)
      BY <1>2, <1>p, <2>4 DEF Route, durable
    <2>5. CASE \/ AdmitExisting(r) \/ AdmitBusy(r) \/ Reject(r) \/ AfterFinish(r) \/ WorkerLost(r)
               \/ Deliver(r) \/ SettleRun(r)
      BY <1>2, <2>5 DEF AdmitExisting, AdmitBusy, Reject, AfterFinish, WorkerLost, Deliver, SettleRun,
            durable, memory
    <2>6. CASE \/ TurnStart(r) \/ TurnUnavailable(r) \/ TurnEnds(r) \/ FailRun(r) \/ CompleteTask(r)
               \/ FinishTask(r) \/ FinishFails(r) \/ ClientStep(r)
      BY <2>1, <2>6, PcFacts DEF TurnStart, TurnUnavailable, TurnEnds, FailRun, CompleteTask, FinishTask,
            FinishFails, ClientStep, Connected, OpenNative, LoseContext, Ask, Poll, ExpireOrAnswer, ControlCheck
    <2> QED BY <1>4, <2>2, <2>3, <2>4, <2>5, <2>6 DEF RunStep, ThreadStep, Command
  <1>5. CASE CommitProbe \/ AbandonProbe \/ Exit \/ Crash
    BY <1>1, <1>5 DEF CommitProbe, AbandonProbe, Exit, Crash, MemoryLost
  <1>6. CASE ExpiryPasses \/ RecoverRuns \/ UNCHANGED vars
    BY <1>2, <1>6 DEF ExpiryPasses, RecoverRuns, vars, durable, memory
  <1>7. CASE Answer
    BY <1>3, <1>7 DEF Answer, Busy
  <1>8. CASE ResetContext \/ RecoverSessions
    BY <1>0, <1>1, <1>8 DEF ResetContext, RecoverSessions, Asleep
  <1>9. CASE BeginProbe("config") \/ BeginProbe("refresh")
    <2>1. probe' = [copy |-> sess, fresh |-> TRUE, cancel |-> FALSE] /\ sess' = sess /\ ~Busy(sess)
      BY <1>9 DEF BeginProbe, durable
    <2> QED BY <2>1 DEF ProbeInv, Busy
  <1>10. CASE RequestShutdown
    <2>1. gate' = gate /\ SaveEnding(ShutDown(sess), None, "none")
      BY <1>10 DEF RequestShutdown, Save
    <2>2. CASE sess.active = None
      BY <1>0, <1>2, <1>p, <2>1, <2>2, StopsKeep DEF SaveEnding, TypeOK
    <2>3. CASE sess.active # None
      BY <1>3, <2>1, <2>3 DEF Busy
    <2> QED BY <2>2, <2>3
  <1> QED BY <1>4, <1>5, <1>6, <1>7, <1>8, <1>9, <1>10 DEF Next, RunStep

\* The initial states satisfy the invariant.
LEMMA Initially ==
    ASSUME Init
    PROVE  IInv
PROOF
  <1>0. /\ None \notin Runs /\ Kinds \subseteq SessionKinds
        /\ MaxRestarts \in Nat /\ MaxFaults \in Nat
    BY AcpHostAssumption
  <1>1. PICK kind \in Kinds : sess = NewSession(kind)
    BY DEF Init
  <1>2. /\ sess \in SessionType /\ sess.active = None /\ sess.waiting = None
        /\ NoProbe \in ProbeType /\ NoPoll \in [saw : BOOLEAN, late : BOOLEAN]
    BY <1>0, <1>1 DEF NewSession, SessionType, SessionKinds, QuestionStates, NoProbe, NoPoll, ProbeType
  <1>3. /\ \A r \in Runs : th[r].pc = "idle" /\ th[r].next = None
        /\ \A r \in Runs : rec[r] = "none" /\ status[r] = "none" /\ final[r] = "none" /\ turns[r] = 0
        /\ gate = "free" /\ stopped = {} /\ daemon = "up"
    BY PcFacts DEF Init, ReplyDelivery!InitFinal
  <1>4. TypeOK
    <2>1. Idle \in ThreadType
      BY DEF Idle, ThreadType, Pcs
    <2>2. th \in [Runs -> ThreadType]
      BY <2>1 DEF Init
    <2> QED BY <1>0, <1>2, <2>2 DEF Init, TypeOK, ReplyDelivery!InitFinal, ReplyDelivery!FinalStates, RecordStates
  <1>5. Threads
    BY <1>3, PcFacts DEF Threads, NextUnique, ThreadOK
  <1>6. WaitingOK /\ Fresh /\ Stops /\ RecordsAgree
    BY <1>2, <1>3 DEF WaitingOK, Fresh, Stops, RecordsAgree, FinalHasRecord, LiveHasLiveRecord, Untried, Live
  <1>7. ActiveIsServed /\ Dangling
    BY <1>2, <1>3 DEF ActiveIsServed, Dangling, Active
  <1>8. Asleep /\ ProbeInv
    BY <1>3 DEF Asleep, ProbeInv
  <1> QED BY <1>4, <1>5, <1>6, <1>7, <1>8 DEF IInv, Core

\* The inductive invariant of the host, for any set of runs and any bounds.
THEOREM Invariant == Spec => []IInv
PROOF
  <1>1. Init => IInv
    BY Initially
  <1>2. IInv /\ [Next]_vars => IInv'
    <2> SUFFICES ASSUME IInv, [Next]_vars PROVE IInv'
      OBVIOUS
    <2>1. TypeOK'
      BY TypeStep DEF IInv
    <2>2. Core' /\ Asleep' /\ ProbeInv'
      BY <2>1, CoreStep, AsleepStep, ProbeStep
    <2> QED BY <2>1, <2>2 DEF IInv
  <1> QED BY <1>1, <1>2, PTL DEF Spec

-----------------------------------------------------------------------------
(* The properties.                                                           *)

\* A stop that was accepted before the task ended prevents its reply, for any
\* number of runs: finish_with_final looks at the flag in the transaction that
\* queues the reply.
THEOREM StopWins == Spec => []StopDiscardsFinal
PROOF
  <1>1. IInv => StopDiscardsFinal
    <2> SUFFICES ASSUME IInv, NEW r \in stopped PROVE final[r] = "none" /\ rec[r] # "finished"
      BY DEF StopDiscardsFinal
    <2>1. Stops /\ FinalHasRecord /\ LiveHasLiveRecord /\ r \in Runs /\ None \notin Runs
      BY AcpHostAssumption DEF IInv, TypeOK, Core, RecordsAgree
    <2>2. rec[r] # "finished"
      BY <2>1 DEF Stops, LiveHasLiveRecord, Terminal
    <2> QED BY <2>1, <2>2 DEF FinalHasRecord
  <1> QED BY <1>1, Invariant, PTL

\* No run is executed twice, whatever is routed again, recovered, promoted or
\* started by a command.
THEOREM ExecutedOnce == Spec => []NeverExecutedTwice
PROOF
  <1>1. IInv => NeverExecutedTwice
    BY DEF IInv, Core, Threads, ThreadOK, NeverExecutedTwice
  <1> QED BY <1>1, Invariant, PTL

\* The active task and the thread that executes it determine each other, so
\* complete and finish_with_final never meet another task.
THEOREM SingleExecutor == Spec => []OneExecutor
PROOF
  <1>1. IInv => OneExecutor
    BY DEF IInv, Core, Threads, ThreadOK, OneExecutor, ExecutedIsActive
  <1> QED BY <1>1, Invariant, PTL

\* A configuration probe is alone with the native session and writes back a
\* copy that is current.
THEOREM ProbeAlone == Spec => []ProbeIsAlone
PROOF
  <1>1. IInv => ProbeIsAlone
    <2> SUFFICES ASSUME IInv, gate \in {"config", "refresh"}
                 PROVE  (\A r \in Runs : th[r].pc \notin Executing) /\ probe.copy = sess
      BY DEF ProbeIsAlone
    <2>1. ~Busy(sess) /\ probe.copy = sess /\ None \notin Runs
      BY AcpHostAssumption DEF IInv, ProbeInv
    <2>2. \A r \in Runs : th[r].pc \notin Executing
      BY <2>1 DEF IInv, Core, Threads, ThreadOK, Busy
    <2> QED BY <2>1, <2>2
  <1> QED BY <1>1, Invariant, PTL

\* A reply is in the outbox exactly when the task record says finished, and a
\* live task has a live record.
THEOREM AgreeingRecords == Spec => []RecordsAgree
PROOF
  <1>1. IInv => RecordsAgree
    BY DEF IInv, Core
  <1> QED BY <1>1, Invariant, PTL

\* Without a lost worker no run stays pending or running that nobody holds.
THEOREM NothingDangles == Spec => []NoDanglingRun
PROOF
  <1>1. IInv => NoDanglingRun
    <2> SUFFICES ASSUME IInv, NEW r \in Runs, daemon = "up", faults = 0, Active(r)
                 PROVE  th[r].pc # "idle" \/ r \in {sess.active, sess.waiting} \/ final[r] # "none"
      BY DEF NoDanglingRun
    <2> QED BY DEF IInv, Core, Dangling, Live
  <1> QED BY <1>1, Invariant, PTL

\* An answer on its way from one session to the next.
Answered(s, t) == s.question = "answered" => t.question \in {"answered", "none"}

\* The session functions of one run keep an accepted answer or clear it with
\* its task.
LEMMA AnswersKept ==
    ASSUME NEW s \in SessionType, NEW r \in Runs, NEW outcome
    PROVE  /\ Answered(s, s) /\ Answered(s, Submitted(s, r)) /\ Answered(s, Completed(s, outcome))
           /\ Answered(s, StopAsked(s)) /\ Answered(s, WaitingCancelled(s))
           /\ Answered(s, ExecuteAfterStop(s)) /\ Answered(s, WaitingStarted(s))
           /\ Answered(s, [s EXCEPT !.native = TRUE]) /\ Answered(s, [s EXCEPT !.lost = TRUE])
           /\ Answered(s, [s EXCEPT !.stopping = TRUE, !.execAfter = FALSE])
PROOF
  <1>1. \A t \in SessionType, q \in Runs \cup {None} : Start(t, q).question = "none"
    BY DEF Start, SessionType
  <1>2. [s EXCEPT !.waiting = None] \in SessionType /\ s.waiting \in Runs \cup {None}
    BY DEF SessionType
  <1>3. Answered(s, Submitted(s, r)) /\ Answered(s, WaitingStarted(s))
    BY <1>1, <1>2 DEF Answered, Submitted, WaitingStarted, SessionType
  <1>4. Answered(s, Completed(s, outcome))
    <2> DEFINE ended == [s EXCEPT !.active = None, !.question = "none",
                                  !.stopping = FALSE, !.execAfter = FALSE,
                                  !.paused = ~Proceed(s, outcome) /\ s.waiting # None]
    <2>1. ended.question = "none" /\ [ended EXCEPT !.waiting = None] \in SessionType
      <3>1. Proceed(s, outcome) \in BOOLEAN
        BY DEF Proceed
      <3> QED BY <3>1 DEF SessionType, QuestionStates
    <2>2. Completed(s, outcome) = IF NextWork(s, outcome) = None THEN ended
                                  ELSE Start([ended EXCEPT !.waiting = None], s.waiting)
      BY DEF Completed
    <2> HIDE DEF ended
    <2> QED BY <1>1, <1>2, <2>1, <2>2 DEF Answered
  <1>5. Answered(s, StopAsked(s)) /\ Answered(s, ExecuteAfterStop(s))
    BY DEF Answered, StopAsked, ExecuteAfterStop, SessionType, Closed
  <1>6. /\ Answered(s, s) /\ Answered(s, WaitingCancelled(s))
        /\ Answered(s, [s EXCEPT !.native = TRUE]) /\ Answered(s, [s EXCEPT !.lost = TRUE])
        /\ Answered(s, [s EXCEPT !.stopping = TRUE, !.execAfter = FALSE])
    BY DEF Answered, WaitingCancelled, SessionType
  <1> QED BY <1>3, <1>4, <1>5, <1>6

\* So do reset, recovery and shutdown.
LEMMA QuietAnswersKept ==
    ASSUME NEW s \in SessionType
    PROVE  Answered(s, ContextReset(s)) /\ Answered(s, Interrupted(s)) /\ Answered(s, ShutDown(s))
PROOF BY DEF Answered, ContextReset, Interrupted, ShutDown, SessionType, Closed

\* So does every action: a question is asked where there is none, and expires
\* only while it is open in the transaction that expires it.
LEMMA AnswerStep ==
    ASSUME IInv, [Next]_vars
    PROVE  Answered(sess, sess')
PROOF
  <1>0. sess \in SessionType
    BY DEF IInv, TypeOK
  <1>1. CASE sess' = sess
    BY <1>1 DEF Answered
  <1>2. ASSUME NEW r \in Runs, RunStep(r) PROVE Answered(sess, sess')
    <2>1. CASE \/ Route(r) \/ AdmitExisting(r) \/ AdmitBusy(r) \/ AdmitInsert(r) \/ Reject(r)
               \/ TurnStart(r) \/ TurnUnavailable(r) \/ TurnEnds(r) \/ FailRun(r) \/ FinishFails(r)
               \/ AfterFinish(r) \/ Poll(r) \/ WorkerLost(r) \/ Deliver(r) \/ SettleRun(r)
      BY <1>1, <2>1 DEF Route, AdmitExisting, AdmitBusy, AdmitInsert, Reject, TurnStart, TurnUnavailable,
            TurnEnds, FailRun, FinishFails, AfterFinish, Poll, WorkerLost, Deliver, SettleRun, durable
    <2>2. CASE AdmitSubmit(r)
      BY <1>0, <1>1, <2>2, AnswersKept DEF AdmitSubmit, Save, SaveEnding
    <2>3. CASE CompleteTask(r) \/ FinishTask(r)
      <3>1. \E outcome : sess' = Completed(sess, outcome)
        BY <2>3 DEF CompleteTask, FinishTask, SaveEnding
      <3> QED BY <1>0, <3>1, AnswersKept
    <2>4. CASE OpenNative(r) \/ LoseContext(r) \/ ControlCheck(r)
      BY <1>0, <2>4, AnswersKept DEF OpenNative, LoseContext, ControlCheck, Save, SaveEnding
    <2>5. CASE Ask(r) \/ ExpireOrAnswer(r)
      BY <1>1, <2>5 DEF Ask, ExpireOrAnswer, Answered
    <2>6. CASE Stop(r) \/ CancelWaiting(r) \/ ExecuteWaiting(r)
      BY <1>0, <2>6, AnswersKept DEF Stop, CancelWaiting, ExecuteWaiting, Save, SaveEnding
    <2> QED BY <1>2, <2>1, <2>2, <2>3, <2>4, <2>5, <2>6 DEF RunStep, ThreadStep, ClientStep, Command
  <1>3. CASE \/ ExpiryPasses \/ BeginProbe("config") \/ BeginProbe("refresh") \/ Exit \/ Crash
             \/ RecoverRuns \/ UNCHANGED vars
    BY <1>1, <1>3 DEF ExpiryPasses, BeginProbe, Exit, Crash, RecoverRuns, vars, durable
  <1>4. CASE Answer
    BY <1>4 DEF Answer, Answered
  <1>5. CASE ResetContext \/ RequestShutdown \/ RecoverSessions
    BY <1>0, <1>5, QuietAnswersKept DEF ResetContext, RequestShutdown, RecoverSessions, Save, SaveEnding
  <1>6. CASE CommitProbe
    BY <1>1, <1>6 DEF CommitProbe, IInv, ProbeInv
  <1>7. CASE AbandonProbe
    <2>1. sess' = sess \/ sess' = [sess EXCEPT !.lost = TRUE]
      BY <1>7 DEF AbandonProbe
    <2>2. [sess EXCEPT !.lost = TRUE].question = sess.question
      BY <1>0 DEF SessionType
    <2> QED BY <1>1, <2>1, <2>2 DEF Answered
  <1> QED BY <1>2, <1>3, <1>4, <1>5, <1>6, <1>7 DEF Next, RunStep

\* An accepted answer is never taken back by the expiry of the question:
\* expire_or_answer looks again in its transaction.
THEOREM AnswerStays == Spec => AnswerKept
PROOF
  <1>1. IInv /\ [Next]_vars => [sess.question = "answered" => sess'.question \in {"answered", "none"}]_vars
    BY AnswerStep DEF Answered
  <1> QED BY <1>1, Invariant, PTL DEF Spec, AnswerKept

=============================================================================
