-------------------------- MODULE SyncReceiveProofs --------------------------
(* What SyncReceive promises, for every number of processes and every bound. *)
(*                                                                           *)
(* The argument: run generations are unique, so at most one run passes the   *)
(* generation fence at any time, and only that run moves the cursor.  What a *)
(* run learnt of the cursor when it asked the service therefore still holds  *)
(* when its transaction commits, if it is still the current run.             *)
EXTENDS SyncReceive, TLAPS

\* Steps at which a run holds a cursor, and at which it holds an answer.
Located == {"delta", "page", "recover", "download", "snapshot"}
Answered == {"tail", "page", "recover", "download", "snapshot"}

\* <<e, s>> lies within the stream of the service.
Within(e, s, sv) == e <= sv.epoch /\ (e = sv.epoch => s <= sv.tail)

\* What holds of one run, given the run generation g, the cursor c, the binding
\* b, the service sv and the newest settled generation st.
RunOK(r, g, c, b, sv, st) ==
    /\ r.gen <= g
    /\ r.pc \notin {"idle", "lock", "begin"} => r.gen > 0
    /\ r.pc \in Located => r.epoch > 0
    /\ r.pc \in Answered => r.toEpoch > 0 /\ Within(r.toEpoch, r.toSeq, sv)
    /\ r.pc = "page" => r.toEpoch = r.epoch
    /\ (r.pc \in Answered \ {"page"} /\ r.gen = g) =>
            c.epoch <= r.toEpoch /\ (c.epoch = r.toEpoch => c.seq <= r.toSeq)
    /\ (r.pc \in {"bootstrap", "tail"} /\ r.gen = g) => c.auth < b
    /\ (r.pc = "finish" /\ ~r.left) => r.gen <= st

RunsOK == \A p \in Processes : RunOK(run[p], gen, cursor, binding, server, settled)

Unique ==
    \A p, q \in Processes : p # q /\ run[p].gen = run[q].gen => run[p].gen = 0

CursorOK == cursor.auth <= binding /\ Within(cursor.epoch, cursor.seq, server)

SettledOK == settled <= gen /\ PendingHonest

Inv == TypeOK /\ RunsOK /\ Unique /\ CursorOK /\ SettledOK /\ NoGap

-----------------------------------------------------------------------------
(* One run.                                                                  *)

Servers == [epoch : Epochs, tail : Seqs, floor : Seqs]

Grows(sv, tv) == sv.epoch < tv.epoch \/ (sv.epoch = tv.epoch /\ sv.tail <= tv.tail)

\* A run that does nothing stays as it should be when others move on: the
\* cursor under it is moved by the current run only.
LEMMA RunStable ==
    ASSUME NEW r \in Runs, NEW g \in Gens, NEW g2 \in Gens,
           NEW c \in Cursors \cup {NoCursor}, NEW c2 \in Cursors \cup {NoCursor},
           NEW b \in Auths, NEW b2 \in Auths, NEW sv \in Servers, NEW tv \in Servers,
           NEW st \in Gens, NEW st2 \in Gens,
           RunOK(r, g, c, b, sv, st), g <= g2, b <= b2, st <= st2, Grows(sv, tv),
           r.gen = g2 => g2 = g /\ (c2 = c \/ g = 0)
    PROVE  RunOK(r, g2, c2, b2, tv, st2)
PROOF
  <1> USE BoundAssumption DEF Runs, Gens, Auths, Epochs, Seqs, Servers
  <1>1. r.gen <= g2 /\ (r.gen = g2 /\ r.pc \notin {"idle", "lock", "begin"} => g2 = g /\ c2 = c)
    BY DEF RunOK
  <1>2. Within(r.toEpoch, r.toSeq, sv) => Within(r.toEpoch, r.toSeq, tv)
    BY DEF Within, Grows
  <1>3. c.auth \in Int
    BY DEF Cursors, NoCursor
  <1> QED BY <1>1, <1>2, <1>3 DEF RunOK, Answered, Located

\* A run that was given up, or ended, holds nothing.
LEMMA IdleOK ==
    ASSUME NEW g \in Gens, NEW c, NEW b, NEW sv, NEW st
    PROVE  Idle \in Runs /\ RunOK(Idle, g, c, b, sv, st)
PROOF BY BoundAssumption DEF Idle, Runs, Steps, RunOK, Located, Answered, Gens, Auths, Epochs, Seqs

\* The state of a process without a run.
LEMMA IdleFacts == Idle \in Runs /\ Idle.gen = 0
PROOF BY BoundAssumption DEF Idle, Runs, Steps, Gens, Auths, Epochs, Seqs

\* A step of one run: what it leaves of the other runs.
LEMMA Move ==
    ASSUME Inv, NEW p \in Processes, NEW r \in Runs, run' = [run EXCEPT ![p] = r],
           RunOK(r, gen', cursor', binding', server', settled'),
           r.gen \in {0, run[p].gen} \/ r.gen = gen + 1,
           gen' \in Gens, cursor' \in Cursors \cup {NoCursor}, binding' \in Auths,
           settled' \in Gens, gen <= gen', binding <= binding', settled <= settled',
           server' = server,
           cursor' = cursor \/ (run[p].gen = gen /\ gen' = gen)
    PROVE  run' \in [Processes -> Runs] /\ RunsOK' /\ Unique'
PROOF
  <1> USE DEF Inv, TypeOK
  <1>1. run' \in [Processes -> Runs]
    OBVIOUS
  <1>2. ASSUME NEW q \in Processes PROVE RunOK(run'[q], gen', cursor', binding', server', settled')
    <2>1. CASE q = p
      BY <2>1
    <2>2. CASE q # p
      <3>1. run'[q] = run[q] /\ run[q] \in Runs
        BY <2>2
      <3>2. RunOK(run[q], gen, cursor, binding, server, settled)
        BY DEF RunsOK
      <3>3. run[q].gen = gen' => gen' = gen /\ (cursor' = cursor \/ gen = 0)
        BY <2>2, <3>1, <3>2 DEF Unique, RunOK, Runs, Gens
      <3>4. Grows(server, server')
        BY DEF Grows, Epochs, Seqs
      <3> QED BY <3>1, <3>2, <3>3, <3>4, RunStable DEF Servers
    <2> QED BY <2>1, <2>2
  <1>3. Unique'
    BY DEF Unique, RunsOK, RunOK, Runs, Gens
  <1> QED BY <1>1, <1>2, <1>3 DEF RunsOK

\* A step that moves one run and leaves the generation, the cursor and the
\* service alone.
LEMMA Quiet ==
    ASSUME Inv, NEW p \in Processes, NEW r \in Runs, run' = [run EXCEPT ![p] = r],
           r.gen \in {0, run[p].gen},
           UNCHANGED <<gen, cursor, server, covered>>,
           binding' \in Auths, binding <= binding',
           RunOK(r, gen, cursor, binding', server, settled'),
           lock' \in Processes \cup {NoProcess}, recovery' \in Recoveries \cup {NoRecovery},
           settled' \in Gens, settled <= settled', settled' <= gen,
           pending' \in BOOLEAN, ~pending' => settled' = gen
    PROVE  Inv'
PROOF
  <1>1. TypeOK /\ RunsOK /\ Unique /\ CursorOK /\ SettledOK /\ NoGap
    BY DEF Inv
  <1>2. run' \in [Processes -> Runs] /\ RunsOK' /\ Unique'
    <2>1. gen <= gen'
      BY <1>1 DEF TypeOK, Gens
    <2> QED BY <1>1, <2>1, Move DEF TypeOK
  <1>3. TypeOK'
    BY <1>1, <1>2 DEF TypeOK
  <1>4. CursorOK' /\ NoGap' /\ SettledOK'
    <2>1. cursor.auth \in Int
      BY <1>1 DEF TypeOK, Cursors, NoCursor, Auths
    <2> QED BY <1>1, <2>1 DEF TypeOK, Auths, CursorOK, NoGap, SettledOK, PendingHonest
  <1> QED BY <1>2, <1>3, <1>4 DEF Inv

\* The same for a step of a future that may have been dropped.
LEMMA QuietContinue ==
    ASSUME Inv, NEW p \in Processes, NEW r \in Runs, Continue(p, r),
           r.gen = run[p].gen,
           UNCHANGED <<gen, cursor, server, covered>>,
           binding' \in Auths, binding <= binding',
           run[p].live => RunOK(r, gen, cursor, binding', server, settled'),
           lock' \in Processes \cup {NoProcess}, recovery' \in Recoveries \cup {NoRecovery},
           settled' \in Gens, settled <= settled', settled' <= gen,
           pending' \in BOOLEAN, ~pending' => settled' = gen
    PROVE  Inv'
PROOF
  <1>1. CASE run[p].live
    BY <1>1, Quiet DEF Continue
  <1>2. CASE ~run[p].live
    <2>1. gen \in Gens
      BY DEF Inv, TypeOK
    <2>2. Idle \in Runs /\ RunOK(Idle, gen, cursor, binding', server, settled') /\ Idle.gen = 0
      BY <2>1, IdleOK DEF Idle
    <2>3. run' = [run EXCEPT ![p] = Idle]
      BY <1>2 DEF Continue
    <2> QED BY <2>2, <2>3, Quiet
  <1> QED BY <1>1, <1>2

\* The positions of a page or of a baseline are positions of the stream.
LEMMA SpanOK ==
    ASSUME NEW e \in Epochs, NEW lo \in Nat, NEW hi \in Seqs
    PROVE  {e} \X (lo .. hi) \subseteq Epochs \X Seqs
PROOF
  <1>1. lo .. hi \subseteq Seqs
    BY BoundAssumption DEF Seqs
  <1> QED BY <1>1

\* A completed recovery is a recovery.
LEMMA CompletedOK ==
    ASSUME NEW r \in Recoveries \cup {NoRecovery}, NEW a \in Seqs
    PROVE  Completed(r, a) \in Recoveries \cup {NoRecovery}
PROOF
  <1>1. CASE r \in Recoveries
    BY <1>1 DEF Completed, Recoveries
  <1>2. CASE r = NoRecovery
    BY <1>2 DEF Completed, NoRecovery
  <1> QED BY <1>1, <1>2

\* What the invariant says of the acting run.
LEMMA Actor ==
    ASSUME Inv, NEW p \in Processes
    PROVE  /\ run[p] \in Runs /\ RunOK(run[p], gen, cursor, binding, server, settled)
           /\ gen \in Gens /\ settled \in Gens /\ settled <= gen /\ binding \in Auths
           /\ server \in Servers /\ cursor \in Cursors \cup {NoCursor}
           /\ lock \in Processes \cup {NoProcess} /\ recovery \in Recoveries \cup {NoRecovery}
           /\ pending \in BOOLEAN /\ (~pending => settled = gen) /\ settled <= settled
           /\ binding <= binding
PROOF BY DEF Inv, TypeOK, RunsOK, SettledOK, PendingHonest, Servers, Gens, Auths

\* What the invariant says of the cursor.
LEMMA CursorFacts ==
    ASSUME Inv
    PROVE  /\ cursor.auth \in 0 .. MaxAuth /\ cursor.epoch \in 0 .. MaxEpoch /\ cursor.seq \in Seqs
           /\ cursor.auth <= binding /\ Within(cursor.epoch, cursor.seq, server)
           /\ cursor = NoCursor <=> cursor.epoch = 0
           /\ cursor = NoCursor => cursor.auth = 0
           /\ cursor # NoCursor => cursor \in Cursors
PROOF BY BoundAssumption DEF Inv, TypeOK, CursorOK, Cursors, NoCursor, Auths, Epochs, Seqs

\* A run that goes on to the next delta.
LEMMA NextDeltaOK ==
    ASSUME Inv, NEW p \in Processes, NEW e \in Epochs, NEW q \in Seqs, NEW retried \in BOOLEAN,
           run[p].pc \notin {"idle", "lock", "begin"}, NEW c, NEW b, NEW sv, NEW st
    PROVE  LET x == NextDelta(p, e, q)
               y == [x EXCEPT !.retried = retried]
           IN  /\ x \in Runs /\ x.gen = run[p].gen /\ RunOK(x, gen, c, b, sv, st)
               /\ y \in Runs /\ y.gen = run[p].gen /\ RunOK(y, gen, c, b, sv, st)
PROOF
  <1> DEFINE x == NextDelta(p, e, q)
  <1> DEFINE y == [x EXCEPT !.retried = retried]
  <1>1. x \in Runs /\ x.gen = run[p].gen /\ x.pc = "delta" /\ x.epoch = e
    <2>1. e \in 0 .. MaxEpoch /\ 0 \in 0 .. MaxEpoch /\ 0 \in Seqs
      BY BoundAssumption DEF Epochs, Seqs
    <2> QED BY <2>1, Actor DEF NextDelta, Runs, Steps
  <1> HIDE DEF x
  <1>2. y \in Runs /\ y.gen = run[p].gen /\ y.pc = "delta" /\ y.epoch = e
    BY <1>1 DEF Runs
  <1> HIDE DEF y
  <1>3. RunOK(x, gen, c, b, sv, st) /\ RunOK(y, gen, c, b, sv, st)
    BY <1>1, <1>2, Actor DEF RunOK, Located, Answered, Epochs, Runs, Gens
  <1> QED BY <1>1, <1>2, <1>3 DEF x, y

\* A run that comes to its result.
LEMMA EndsOK ==
    ASSUME Inv, NEW p \in Processes, NEW left \in BOOLEAN, Ends(p, left),
           run[p].pc \notin {"idle", "lock", "begin"},
           recovery' \in Recoveries \cup {NoRecovery},
           UNCHANGED <<lock, gen, pending, binding, cursor, server, covered>>
    PROVE  Inv'
PROOF
  <1> DEFINE x == [Idle EXCEPT !.pc = "finish", !.gen = run[p].gen, !.left = left]
  <1> USE Actor
  <1>0. Idle \in Runs
    BY IdleOK
  <1>1. x \in Runs /\ x.gen = run[p].gen /\ Continue(p, x)
    BY <1>0 DEF Ends, Runs, Steps
  <1>2. settled' \in Gens /\ settled <= settled' /\ settled' <= gen
    BY DEF Ends, Runs, Gens, RunOK
  <1>3. run[p].live => RunOK(x, gen, cursor, binding, server, settled')
    BY DEF Ends, Idle, RunOK, Located, Answered, Runs, Gens
  <1>4. ~pending' => settled' = gen
    BY <1>2 DEF Gens
  <1>5. lock' \in Processes \cup {NoProcess} /\ pending' \in BOOLEAN
    OBVIOUS
  <1> HIDE DEF x
  <1> QED BY <1>1, <1>2, <1>3, <1>4, <1>5, QuietContinue

\* A run that fails, or starts over after the refresh.
LEMMA FailOK ==
    ASSUME Inv, NEW p \in Processes, Fail(p),
           run[p].pc \notin {"idle", "lock", "begin"},
           recovery' \in Recoveries \cup {NoRecovery},
           UNCHANGED <<lock, gen, pending, binding, cursor, server, covered>>
    PROVE  Inv'
PROOF
  <1>1. CASE \E left \in BOOLEAN : Ends(p, left)
    BY <1>1, EndsOK
  <1>2. CASE ~(\E left \in BOOLEAN : Ends(p, left))
    <2> DEFINE x == [Idle EXCEPT !.pc = "bind", !.auth = run[p].auth, !.gen = run[p].gen,
                                 !.refreshed = TRUE]
    <2> USE Actor
    <2>1. Continue(p, x) /\ settled' = settled
      BY <1>2 DEF Fail
    <2>0. Idle \in Runs
      BY IdleOK
    <2>2. x \in Runs /\ x.gen = run[p].gen
      BY <2>0 DEF Runs, Steps
    <2>3. RunOK(x, gen, cursor, binding, server, settled')
      BY DEF Idle, RunOK, Located, Answered, Runs, Gens
    <2>4. lock' \in Processes \cup {NoProcess} /\ pending' \in BOOLEAN
          /\ (~pending' => settled' = gen) /\ settled' \in Gens /\ settled <= settled'
          /\ settled' <= gen
      BY <2>1
    <2> HIDE DEF x
    <2> QED BY <2>1, <2>2, <2>3, <2>4, QuietContinue
  <1> QED BY <1>1, <1>2

-----------------------------------------------------------------------------
(* Every step.                                                               *)

\* The invariant is preserved: one step per action.
LEMMA InvStep ==
    ASSUME Inv, [Next]_vars
    PROVE  Inv'
PROOF
  <1>1. ASSUME NEW p \in Processes, NEW auth \in Auths, StartRun(p, auth) PROVE Inv'
    <2> DEFINE x == [Idle EXCEPT !.pc = "lock", !.auth = auth]
    <2>1. run' = [run EXCEPT ![p] = x]
      BY <1>1 DEF StartRun
    <2>2. x \in Runs /\ x.gen \in {0, run[p].gen}
      BY IdleFacts DEF Runs, Steps
    <2>3. RunOK(x, gen, cursor, binding', server, settled')
      BY Actor, <1>1, CursorFacts DEF StartRun, RunOK, Located, Answered, At, Live, Runs, Gens, Servers, Auths, Epochs, Seqs, Idle
    <2>4. /\ lock' \in Processes \cup {NoProcess} /\ recovery' \in Recoveries \cup {NoRecovery}
          /\ settled' \in Gens /\ settled <= settled' /\ settled' <= gen
          /\ pending' \in BOOLEAN /\ (~pending' => settled' = gen)
          /\ binding' \in Auths /\ binding <= binding'
          /\ UNCHANGED <<gen, cursor, server, covered>>
      BY Actor, <1>1 DEF StartRun, Auths
    <2> HIDE DEF x
    <2> QED BY <2>1, <2>2, <2>3, <2>4, Quiet
  <1>2. ASSUME NEW p \in Processes, AcquireLock(p) PROVE Inv'
    <2> DEFINE x == [run[p] EXCEPT !.pc = "begin"]
    <2>1. run' = [run EXCEPT ![p] = x]
      BY <1>2 DEF AcquireLock
    <2>2. x \in Runs /\ x.gen \in {0, run[p].gen}
      BY Actor DEF Runs, Steps
    <2>3. RunOK(x, gen, cursor, binding', server, settled')
      BY Actor, <1>2, CursorFacts DEF AcquireLock, RunOK, Located, Answered, At, Live, Runs, Gens, Servers, Auths, Epochs, Seqs
    <2>4. /\ lock' \in Processes \cup {NoProcess} /\ recovery' \in Recoveries \cup {NoRecovery}
          /\ settled' \in Gens /\ settled <= settled' /\ settled' <= gen
          /\ pending' \in BOOLEAN /\ (~pending' => settled' = gen)
          /\ binding' \in Auths /\ binding <= binding'
          /\ UNCHANGED <<gen, cursor, server, covered>>
      BY Actor, <1>2 DEF AcquireLock
    <2> HIDE DEF x
    <2> QED BY <2>1, <2>2, <2>3, <2>4, Quiet
  <1>3. ASSUME NEW p \in Processes, LockTimeout(p) PROVE Inv'
    <2> DEFINE x == Idle
    <2>1. run' = [run EXCEPT ![p] = x]
      BY <1>3 DEF LockTimeout
    <2>2. x \in Runs /\ x.gen \in {0, run[p].gen}
      BY IdleFacts
    <2>3. RunOK(x, gen, cursor, binding', server, settled')
      BY Actor, <1>3, CursorFacts DEF LockTimeout, RunOK, Located, Answered, At, Live, Runs, Gens, Servers, Auths, Epochs, Seqs, Idle
    <2>4. /\ lock' \in Processes \cup {NoProcess} /\ recovery' \in Recoveries \cup {NoRecovery}
          /\ settled' \in Gens /\ settled <= settled' /\ settled' <= gen
          /\ pending' \in BOOLEAN /\ (~pending' => settled' = gen)
          /\ binding' \in Auths /\ binding <= binding'
          /\ UNCHANGED <<gen, cursor, server, covered>>
      BY Actor, <1>3 DEF LockTimeout
    <2> HIDE DEF x
    <2> QED BY <2>1, <2>2, <2>3, <2>4, Quiet
  <1>4. ASSUME NEW p \in Processes, FinishRun(p) PROVE Inv'
    <2> DEFINE x == Idle
    <2>1. run' = [run EXCEPT ![p] = x]
      BY <1>4 DEF FinishRun
    <2>2. x \in Runs /\ x.gen \in {0, run[p].gen}
      BY IdleFacts
    <2>3. RunOK(x, gen, cursor, binding', server, settled')
      BY Actor, <1>4, CursorFacts DEF FinishRun, RunOK, Located, Answered, At, Live, Runs, Gens, Servers, Auths, Epochs, Seqs, Idle
    <2>4. /\ lock' \in Processes \cup {NoProcess} /\ recovery' \in Recoveries \cup {NoRecovery}
          /\ settled' \in Gens /\ settled <= settled' /\ settled' <= gen
          /\ pending' \in BOOLEAN /\ (~pending' => settled' = gen)
          /\ binding' \in Auths /\ binding <= binding'
          /\ UNCHANGED <<gen, cursor, server, covered>>
      BY Actor, <1>4 DEF FinishRun, At, IsCurrent, RunOK, Runs, Gens
    <2> HIDE DEF x
    <2> QED BY <2>1, <2>2, <2>3, <2>4, Quiet
  <1>5. ASSUME NEW p \in Processes, Deadline(p) PROVE Inv'
    <2>1. run[p].pc \notin {"idle", "lock", "begin"} /\ recovery' \in Recoveries \cup {NoRecovery}
      BY Actor, <1>5 DEF Deadline, At, Live, Working
    <2> QED BY <1>5, <2>1, EndsOK DEF Deadline
  <1>6. ASSUME NEW p \in Processes, Drop(p) PROVE Inv'
    <2> DEFINE x == [run[p] EXCEPT !.live = FALSE]
    <2>1. run' = [run EXCEPT ![p] = x]
      BY <1>6 DEF Drop
    <2>2. x \in Runs /\ x.gen \in {0, run[p].gen}
      BY Actor DEF Runs, Steps
    <2>3. RunOK(x, gen, cursor, binding', server, settled')
      BY Actor, <1>6, CursorFacts DEF Drop, RunOK, Located, Answered, At, Live, Runs, Gens, Servers, Auths, Epochs, Seqs
    <2>4. /\ lock' \in Processes \cup {NoProcess} /\ recovery' \in Recoveries \cup {NoRecovery}
          /\ settled' \in Gens /\ settled <= settled' /\ settled' <= gen
          /\ pending' \in BOOLEAN /\ (~pending' => settled' = gen)
          /\ binding' \in Auths /\ binding <= binding'
          /\ UNCHANGED <<gen, cursor, server, covered>>
      BY Actor, <1>6 DEF Drop
    <2> HIDE DEF x
    <2> QED BY <2>1, <2>2, <2>3, <2>4, Quiet
  <1>7. ASSUME NEW p \in Processes, Die(p) PROVE Inv'
    <2> DEFINE x == Idle
    <2>1. run' = [run EXCEPT ![p] = x]
      BY <1>7 DEF Die
    <2>2. x \in Runs /\ x.gen \in {0, run[p].gen}
      BY IdleFacts
    <2>3. RunOK(x, gen, cursor, binding', server, settled')
      BY Actor, <1>7, CursorFacts DEF Die, RunOK, Located, Answered, At, Live, Runs, Gens, Servers, Auths, Epochs, Seqs, Idle
    <2>4. /\ lock' \in Processes \cup {NoProcess} /\ recovery' \in Recoveries \cup {NoRecovery}
          /\ settled' \in Gens /\ settled <= settled' /\ settled' <= gen
          /\ pending' \in BOOLEAN /\ (~pending' => settled' = gen)
          /\ binding' \in Auths /\ binding <= binding'
          /\ UNCHANGED <<gen, cursor, server, covered>>
      BY Actor, <1>7 DEF Die
    <2> HIDE DEF x
    <2> QED BY <2>1, <2>2, <2>3, <2>4, Quiet
  <1>8. ASSUME NEW p \in Processes, RequestFails(p) PROVE Inv'
    <2>1. run[p].pc \notin {"idle", "lock", "begin"} /\ recovery' \in Recoveries \cup {NoRecovery}
      BY Actor, <1>8 DEF RequestFails, At, Live, Working
    <2> QED BY <1>8, <2>1, FailOK DEF RequestFails
  <1>9. ASSUME NEW p \in Processes, Refused(p) PROVE Inv'
    <2>1. run[p].pc \notin {"idle", "lock", "begin"} /\ recovery' \in Recoveries \cup {NoRecovery}
      BY Actor, <1>9 DEF Refused, At, Live, Working
    <2> QED BY <1>9, <2>1, EndsOK DEF Refused
  <1>10. ASSUME NEW p \in Processes, Load(p) PROVE Inv'
    <2>0. /\ lock' \in Processes \cup {NoProcess} /\ recovery' \in Recoveries \cup {NoRecovery}
          /\ settled' \in Gens /\ settled <= settled' /\ settled' <= gen
          /\ pending' \in BOOLEAN /\ (~pending' => settled' = gen)
          /\ binding' = binding /\ binding \in Auths /\ binding <= binding'
          /\ UNCHANGED <<gen, cursor, server, covered>>
          /\ run[p].pc = "load"
      BY Actor, <1>10 DEF Load, Live, At
    <2>1. CASE Ready
      <3> DEFINE x == NextDelta(p, cursor.epoch, cursor.seq)
      <3>1. cursor.epoch \in Epochs /\ cursor.seq \in Seqs
        BY <2>1, CursorFacts DEF Ready, Cursors
      <3>2. x \in Runs /\ x.gen = run[p].gen /\ RunOK(x, gen, cursor, binding, server, settled')
        BY <2>0, <3>1, NextDeltaOK
      <3>3. run' = [run EXCEPT ![p] = x]
        BY <1>10, <2>1 DEF Load
      <3> HIDE DEF x
      <3> QED BY <2>0, <3>2, <3>3, Quiet
    <2>2. CASE ~Ready
      <3> DEFINE x == [run[p] EXCEPT !.pc = "bootstrap"]
      <3>1. run' = [run EXCEPT ![p] = x]
        BY <1>10, <2>2 DEF Load
      <3>2. x \in Runs /\ x.gen = run[p].gen /\ x.pc = "bootstrap"
        BY Actor DEF Runs, Steps
      <3>3. cursor.auth < binding
        BY <2>2, Actor, CursorFacts DEF Ready, Auths
      <3> HIDE DEF x
      <3>4. RunOK(x, gen, cursor, binding, server, settled')
        BY <2>0, <3>2, <3>3, Actor DEF RunOK, Located, Answered
      <3> QED BY <2>0, <3>1, <3>2, <3>4, Quiet
    <2> QED BY <2>1, <2>2
  <1>11. ASSUME NEW p \in Processes, Bind(p) PROVE Inv'
    <2>0. run[p].pc = "bind"
      BY <1>11 DEF Bind, At
    <2>1. CASE run[p].auth >= binding
      <3> DEFINE x == [run[p] EXCEPT !.pc = "load"]
      <3>1. Continue(p, x) /\ UNCHANGED settled /\ binding' = run[p].auth
        BY <1>11, <2>1, Actor DEF Bind, Runs, Auths
      <3>2. x \in Runs /\ x.gen = run[p].gen /\ x.pc = "load"
        BY Actor DEF Runs, Steps
      <3> HIDE DEF x
      <3>3. RunOK(x, gen, cursor, binding', server, settled')
        BY <2>0, <3>2, Actor DEF RunOK, Located, Answered
      <3>4. /\ lock' \in Processes \cup {NoProcess} /\ recovery' \in Recoveries \cup {NoRecovery}
          /\ settled' \in Gens /\ settled <= settled' /\ settled' <= gen
          /\ pending' \in BOOLEAN /\ (~pending' => settled' = gen)
          /\ binding' \in Auths /\ binding <= binding'
          /\ UNCHANGED <<gen, cursor, server, covered>>
        BY <1>11, <2>1, <3>1, Actor DEF Bind, Runs
      <3> QED BY <3>1, <3>2, <3>3, <3>4, QuietContinue
    <2>2. CASE ~(run[p].auth >= binding)
      <3>1. PICK left \in BOOLEAN : Ends(p, left)
        BY <1>11, <2>2 DEF Bind
      <3>2. recovery' \in Recoveries \cup {NoRecovery}
            /\ UNCHANGED <<lock, gen, pending, binding, cursor, server, covered>>
        BY <1>11, <2>2, Actor DEF Bind
      <3> QED BY <2>0, <3>1, <3>2, EndsOK
    <2> QED BY <2>1, <2>2
  <1>12. ASSUME NEW p \in Processes, RequestBootstrap(p) PROVE Inv'
    <2> DEFINE t == [run[p] EXCEPT !.pc = "tail", !.toEpoch = server.epoch, !.toSeq = server.tail]
    <2> DEFINE x == [run[p] EXCEPT !.pc = "recover", !.first = TRUE, !.epoch = server.epoch,
                                   !.seq = 0, !.toEpoch = server.epoch, !.toSeq = server.tail]
    <2>0. run[p].pc = "bootstrap"
      BY <1>12 DEF RequestBootstrap, At, Live
    <2>1. \/ run' = [run EXCEPT ![p] = t] /\ UNCHANGED binding
          \/ run' = [run EXCEPT ![p] = x] /\ run[p].auth >= binding /\ binding' = run[p].auth
      BY <1>12, Actor DEF RequestBootstrap, Runs
    <2>2. server.epoch \in 0 .. MaxEpoch /\ server.epoch > 0 /\ server.tail \in Seqs /\ 0 \in Seqs
      BY Actor, BoundAssumption DEF Servers, Epochs, Seqs
    <2>3. /\ t \in Runs /\ t.gen = run[p].gen /\ t.pc = "tail"
          /\ t.toEpoch = server.epoch /\ t.toSeq = server.tail
      BY <2>2, Actor DEF Runs, Steps
    <2>4. /\ x \in Runs /\ x.gen = run[p].gen /\ x.pc = "recover" /\ x.epoch = server.epoch
          /\ x.toEpoch = server.epoch /\ x.toSeq = server.tail
      BY <2>2, Actor DEF Runs, Steps
    <2>5. Within(server.epoch, server.tail, server)
      BY <2>2 DEF Within, Seqs
    <2> HIDE DEF t, x
    <2>6. RunOK(t, gen, cursor, binding, server, settled)
      BY <2>0, <2>2, <2>3, <2>5, Actor, CursorFacts DEF RunOK, Located, Answered, Within
    <2>7. RunOK(x, gen, cursor, binding', server, settled)
      BY <2>0, <2>2, <2>4, <2>5, Actor, CursorFacts DEF RunOK, Located, Answered, Within
    <2>8. /\ lock' \in Processes \cup {NoProcess} /\ recovery' \in Recoveries \cup {NoRecovery}
          /\ settled' \in Gens /\ settled <= settled' /\ settled' <= gen
          /\ pending' \in BOOLEAN /\ (~pending' => settled' = gen)
          /\ binding' \in Auths /\ binding <= binding'
          /\ UNCHANGED <<gen, cursor, server, covered>>
          /\ UNCHANGED settled
      BY <1>12, <2>1, Actor DEF RequestBootstrap, Runs
    <2> QED BY <2>1, <2>3, <2>4, <2>6, <2>7, <2>8, Quiet
  <1>13. ASSUME NEW p \in Processes, RequestDelta(p) PROVE Inv'
    <2>0. /\ lock' \in Processes \cup {NoProcess} /\ recovery' \in Recoveries \cup {NoRecovery}
          /\ settled' \in Gens /\ settled <= settled' /\ settled' <= gen
          /\ pending' \in BOOLEAN /\ (~pending' => settled' = gen)
          /\ binding' = binding /\ binding \in Auths /\ binding <= binding'
          /\ UNCHANGED <<gen, cursor, server, covered>>
          /\ UNCHANGED settled /\ run[p].pc = "delta"
      BY <1>13, Actor DEF RequestDelta, At, Live
    <2>1. server.epoch \in 0 .. MaxEpoch /\ server.epoch > 0 /\ server.tail \in Seqs
      BY Actor, BoundAssumption DEF Servers, Epochs, Seqs
    <2>2. CASE ~NeedsRecovery(p)
      <3>1. PICK next \in run[p].seq .. server.tail :
              run' = [run EXCEPT ![p].pc = "page", ![p].toEpoch = server.epoch,
                                 ![p].toSeq = next, ![p].last = next = server.tail]
        BY <1>13, <2>2 DEF RequestDelta
      <3> DEFINE x == [run[p] EXCEPT !.pc = "page", !.toEpoch = server.epoch, !.toSeq = next,
                                     !.last = (next = server.tail)]
      <3>2. run' = [run EXCEPT ![p] = x]
        BY <3>1, Actor DEF Runs
      <3>3. next \in Seqs /\ next <= server.tail
        BY <2>1, Actor, BoundAssumption DEF Runs, Seqs
      <3>4. /\ x \in Runs /\ x.gen = run[p].gen /\ x.pc = "page" /\ x.epoch = run[p].epoch
            /\ x.toEpoch = server.epoch /\ x.toSeq = next
        BY <2>1, <3>3, Actor DEF Runs, Steps
      <3>5. run[p].epoch = server.epoch
        BY <2>2 DEF NeedsRecovery
      <3> HIDE DEF x
      <3>6. RunOK(x, gen, cursor, binding', server, settled')
        BY <2>0, <2>1, <3>3, <3>4, <3>5, Actor DEF RunOK, Located, Answered, Within
      <3> QED BY <2>0, <3>2, <3>4, <3>6, Quiet
    <2>3. CASE NeedsRecovery(p)
      <3> DEFINE x == [run[p] EXCEPT !.pc = "recover", !.first = FALSE,
                                     !.toEpoch = server.epoch, !.toSeq = server.tail]
      <3>1. run' = [run EXCEPT ![p] = x]
        BY <1>13, <2>3, Actor DEF RequestDelta, Runs
      <3>2. /\ x \in Runs /\ x.gen = run[p].gen /\ x.pc = "recover" /\ x.epoch = run[p].epoch
            /\ x.toEpoch = server.epoch /\ x.toSeq = server.tail
        BY <2>1, Actor DEF Runs, Steps
      <3>3. Within(server.epoch, server.tail, server)
        BY <2>1 DEF Within, Seqs
      <3> HIDE DEF x
      <3>4. RunOK(x, gen, cursor, binding', server, settled')
        BY <2>0, <2>1, <3>2, <3>3, Actor, CursorFacts DEF RunOK, Located, Answered, Within
      <3> QED BY <2>0, <3>1, <3>2, <3>4, Quiet
    <2> QED BY <2>2, <2>3
  <1>14. ASSUME NEW p \in Processes, BeginRecovery(p) PROVE Inv'
    <2> DEFINE x == [run[p] EXCEPT !.pc = "download"]
    <2>0. run[p].pc = "recover" /\ Continue(p, x)
      BY <1>14 DEF BeginRecovery, At
    <2>1. x \in Runs /\ x.gen = run[p].gen /\ x.pc = "download" /\ x.epoch = run[p].epoch
          /\ x.toEpoch = run[p].toEpoch /\ x.toSeq = run[p].toSeq
      BY Actor DEF Runs, Steps
    <2>2. recovery' \in Recoveries
      BY <1>14, <2>0, Actor DEF BeginRecovery, RecoveryRow, Recoveries, RunOK, Located, Runs, Epochs
    <2>3. /\ lock' \in Processes \cup {NoProcess} /\ recovery' \in Recoveries \cup {NoRecovery}
          /\ settled' \in Gens /\ settled <= settled' /\ settled' <= gen
          /\ pending' \in BOOLEAN /\ (~pending' => settled' = gen)
          /\ binding' = binding /\ binding \in Auths /\ binding <= binding'
          /\ UNCHANGED <<gen, cursor, server, covered>>
          /\ UNCHANGED settled
      BY <1>14, <2>2, Actor DEF BeginRecovery
    <2> HIDE DEF x
    <2>4. RunOK(x, gen, cursor, binding', server, settled')
      BY <2>0, <2>1, <2>3, Actor DEF RunOK, Located, Answered
    <2> QED BY <2>0, <2>1, <2>3, <2>4, QuietContinue
  <1>15. ASSUME NEW p \in Processes, Downloaded(p) PROVE Inv'
    <2> DEFINE x == [run[p] EXCEPT !.pc = "snapshot"]
    <2>0. run[p].pc = "download" /\ Continue(p, x)
      BY <1>15 DEF Downloaded, At
    <2>1. x \in Runs /\ x.gen = run[p].gen /\ x.pc = "snapshot" /\ x.epoch = run[p].epoch
          /\ x.toEpoch = run[p].toEpoch /\ x.toSeq = run[p].toSeq
      BY Actor DEF Runs, Steps
    <2>2. recovery' \in Recoveries
      BY <1>15, <2>0, Actor DEF Downloaded, RecoveryRow, Recoveries, RunOK, Located, Runs, Epochs
    <2>3. /\ lock' \in Processes \cup {NoProcess} /\ recovery' \in Recoveries \cup {NoRecovery}
          /\ settled' \in Gens /\ settled <= settled' /\ settled' <= gen
          /\ pending' \in BOOLEAN /\ (~pending' => settled' = gen)
          /\ binding' = binding /\ binding \in Auths /\ binding <= binding'
          /\ UNCHANGED <<gen, cursor, server, covered>>
          /\ UNCHANGED settled
      BY <1>15, <2>2, Actor DEF Downloaded
    <2> HIDE DEF x
    <2>4. RunOK(x, gen, cursor, binding', server, settled')
      BY <2>0, <2>1, <2>3, Actor DEF RunOK, Located, Answered
    <2> QED BY <2>0, <2>1, <2>3, <2>4, QuietContinue
  <1>16. ASSUME NEW p \in Processes, RecoveryFails(p) PROVE Inv'
    <2>0. run[p].pc \in {"download", "snapshot"}
      BY <1>16 DEF RecoveryFails, At
    <2>1. run[p].epoch \in Epochs /\ run[p].seq \in Seqs
      BY <2>0, Actor DEF RunOK, Located, Runs, Epochs
    <2>2. recovery.anchor \in Seqs
      BY Actor, BoundAssumption DEF Recoveries, NoRecovery, Seqs
    <2>3. recovery' \in Recoveries \cup {NoRecovery}
      BY <1>16, <2>1, <2>2, Actor DEF RecoveryFails, RecoveryRow, Recoveries
    <2>4. UNCHANGED <<lock, gen, pending, binding, cursor, server, covered>>
      BY <1>16 DEF RecoveryFails
    <2>5. CASE Fail(p)
      BY <2>0, <2>3, <2>4, <2>5, FailOK
    <2>6. CASE ~Fail(p)
      <3> DEFINE x == [NextDelta(p, run[p].epoch, run[p].seq) EXCEPT !.retried = TRUE]
      <3>1. Continue(p, x) /\ UNCHANGED settled
        BY <1>16, <2>6 DEF RecoveryFails
      <3>2. x \in Runs /\ x.gen = run[p].gen /\ RunOK(x, gen, cursor, binding, server, settled)
        BY <2>0, <2>1, NextDeltaOK
      <3> HIDE DEF x
      <3> QED BY <2>3, <2>4, <3>1, <3>2, Actor, QuietContinue
    <2> QED BY <2>5, <2>6
  <1>17. ASSUME OpenDatabase PROVE Inv'
    <2>1. recovery' \in Recoveries
      BY <1>17 DEF OpenDatabase, Inv, TypeOK, Recoveries, NoRecovery
    <2> QED BY <1>17, <2>1
      DEF OpenDatabase, Inv, TypeOK, RunsOK, Unique, CursorOK, SettledOK, PendingHonest, NoGap
  <1>18. ASSUME ServerStep PROVE Inv'
    <2>0. server \in Servers /\ UNCHANGED <<lock, gen, pending, binding, cursor, recovery, run, covered, settled>>
      BY <1>18 DEF ServerStep, Inv, TypeOK, Servers
    <2>1. server' \in Servers /\ Grows(server, server')
      <3>1. CASE server.tail < MaxSeq /\ server' = [server EXCEPT !.tail = @ + 1]
        BY <2>0, <3>1, BoundAssumption DEF Servers, Grows, Seqs
      <3>2. CASE server.floor < server.tail /\ server' = [server EXCEPT !.floor = server.tail]
        BY <2>0, <3>2 DEF Servers, Grows, Seqs
      <3>3. CASE server.epoch < MaxEpoch
                 /\ server' = [server EXCEPT !.epoch = @ + 1, !.tail = 0, !.floor = 0]
        <4>1. server.epoch + 1 \in Epochs /\ server.epoch < server.epoch + 1 /\ 0 \in Seqs
          BY <2>0, <3>3, BoundAssumption DEF Servers, Epochs, Seqs
        <4> QED BY <2>0, <3>3, <4>1 DEF Servers, Grows
      <3> QED BY <1>18, <3>1, <3>2, <3>3 DEF ServerStep
    <2>2. TypeOK'
      BY <2>0, <2>1 DEF Inv, TypeOK, Servers
    <2>3. ASSUME NEW p \in Processes PROVE RunOK(run[p], gen, cursor, binding, server', settled)
      <3>1. gen <= gen
        BY Actor DEF Gens
      <3> QED BY <2>0, <2>1, <3>1, Actor, RunStable
    <2>4. RunsOK'
      BY <2>0, <2>3 DEF RunsOK
    <2>5. CursorOK'
      BY <2>0, <2>1, CursorFacts DEF CursorOK, Within, Grows, Servers, Epochs, Seqs
    <2> QED BY <2>0, <2>2, <2>4, <2>5 DEF Inv, Unique, SettledOK, PendingHonest, NoGap
  <1>19. ASSUME NEW p \in Processes, BeginRun(p) PROVE Inv'
    <2> DEFINE x == [run[p] EXCEPT !.pc = "bind", !.gen = gen + 1]
    <2> DEFINE r == IF run[p].live THEN x ELSE Idle
    <2>0. /\ run' = [run EXCEPT ![p] = r] /\ gen' = gen + 1 /\ pending' = TRUE
          /\ UNCHANGED <<lock, binding, cursor, recovery, server, covered, settled>>
      BY <1>19 DEF BeginRun, Continue
    <2>1. gen' \in Gens /\ gen <= gen'
      BY <1>19, <2>0, Actor, BoundAssumption DEF BeginRun, Gens
    <2>2. x \in Runs /\ x.gen = gen + 1 /\ x.pc = "bind"
      BY <2>0, <2>1, Actor DEF Runs, Steps
    <2> HIDE DEF x
    <2>3. RunOK(x, gen', cursor, binding, server, settled)
      BY <2>0, <2>1, <2>2, Actor DEF RunOK, Located, Answered, Gens
    <2>4. Idle \in Runs /\ Idle.gen = 0 /\ RunOK(Idle, gen', cursor, binding, server, settled)
      BY <2>1, IdleOK, IdleFacts
    <2>5. r \in Runs /\ RunOK(r, gen', cursor, binding, server, settled) /\ r.gen \in {0, gen + 1}
      BY <2>2, <2>3, <2>4
    <2> HIDE DEF r
    <2>6. run' \in [Processes -> Runs] /\ RunsOK' /\ Unique'
      BY <2>0, <2>1, <2>5, Actor, Move
    <2>7. TypeOK' /\ CursorOK' /\ NoGap'
      BY <2>0, <2>1, <2>6 DEF Inv, TypeOK, CursorOK, NoGap
    <2>8. SettledOK'
      BY <2>0, <2>1, Actor DEF SettledOK, PendingHonest, Gens
    <2> QED BY <2>6, <2>7, <2>8 DEF Inv
  <1>20. ASSUME NEW p \in Processes, ApplyBootstrap(p) PROVE Inv'
    <2> DEFINE q == TailPosition(p)
    <2> DEFINE x == NextDelta(p, run[p].toEpoch, q)
    <2> DEFINE r == IF run[p].live THEN x ELSE Idle
    <2> DEFINE c == [auth |-> run[p].auth, epoch |-> run[p].toEpoch, seq |-> q]
    <2>0. /\ run[p].pc = "tail" /\ run[p].gen = gen /\ run[p].auth >= binding
          /\ binding' = run[p].auth /\ cursor' = c /\ run' = [run EXCEPT ![p] = r]
          /\ covered' = covered \cup History(run[p].toEpoch, run[p].toSeq)
          /\ recovery' = Completed(recovery, q)
          /\ UNCHANGED <<lock, gen, pending, server, settled>>
      BY <1>20 DEF ApplyBootstrap, At, BootstrapFence, IsCurrent, Continue
    <2>1. /\ run[p].toEpoch \in Epochs /\ run[p].toSeq \in Seqs /\ run[p].auth \in Auths
          /\ Within(run[p].toEpoch, run[p].toSeq, server) /\ cursor.auth < binding
          /\ cursor.epoch <= run[p].toEpoch
          /\ (cursor.epoch = run[p].toEpoch => cursor.seq <= run[p].toSeq)
      BY <2>0, Actor DEF RunOK, Answered, Runs, Epochs
    <2>2. \/ cursor.epoch = run[p].toEpoch /\ q = cursor.seq
          \/ cursor.epoch # run[p].toEpoch /\ q = run[p].toSeq
      <3>1. cursor.epoch = run[p].toEpoch => cursor # NoCursor /\ cursor.auth < run[p].auth
        BY <2>0, <2>1, CursorFacts, Actor DEF Epochs, Auths
      <3> QED BY <3>1 DEF TailPosition
    <2>3. q \in Seqs /\ Within(run[p].toEpoch, q, server)
      BY <2>1, <2>2, CursorFacts
    <2>4. x \in Runs /\ x.gen = run[p].gen /\ RunOK(x, gen, c, run[p].auth, server, settled)
      BY <2>0, <2>1, <2>3, NextDeltaOK
    <2> HIDE DEF x, q
    <2>5. c \in Cursors
      BY <2>1, <2>3 DEF Cursors
    <2>6. Idle \in Runs /\ Idle.gen = 0 /\ RunOK(Idle, gen, c, run[p].auth, server, settled)
      BY Actor, IdleOK, IdleFacts
    <2>7. /\ r \in Runs /\ RunOK(r, gen', cursor', binding', server', settled')
          /\ r.gen \in {0, run[p].gen}
      BY <2>0, <2>4, <2>6
    <2> HIDE DEF r
    <2>8. gen' \in Gens /\ gen <= gen' /\ binding' \in Auths /\ binding <= binding'
          /\ settled' \in Gens /\ settled <= settled' /\ cursor' \in Cursors \cup {NoCursor}
      BY <2>0, <2>1, <2>5, Actor DEF Gens, Auths
    <2>9. run' \in [Processes -> Runs] /\ RunsOK' /\ Unique'
      BY <2>0, <2>7, <2>8, Move
    <2>10. recovery' \in Recoveries \cup {NoRecovery}
      BY <2>0, <2>3, Actor, CompletedOK
    <2>11. History(run[p].toEpoch, run[p].toSeq) \subseteq Epochs \X Seqs
      BY <2>1, SpanOK DEF History
    <2>12. TypeOK'
      BY <2>0, <2>8, <2>9, <2>10, <2>11 DEF Inv, TypeOK
    <2>13. CursorOK'
      BY <2>0, <2>1, <2>3 DEF CursorOK, Auths
    <2>14. NoGap'
      <3>1. CASE cursor.epoch = run[p].toEpoch
        BY <2>0, <2>2, <3>1 DEF Inv, NoGap
      <3>2. CASE cursor.epoch # run[p].toEpoch
        <4>1. {run[p].toEpoch} \X (1 .. run[p].toSeq) \subseteq covered'
          BY <2>0, <3>2 DEF History
        <4>2. cursor'.epoch = run[p].toEpoch /\ cursor'.seq = run[p].toSeq
          BY <2>0, <2>2, <3>2
        <4> QED BY <4>1, <4>2 DEF NoGap
      <3> QED BY <3>1, <3>2
    <2>15. SettledOK'
      BY <2>0 DEF Inv, SettledOK, PendingHonest
    <2> QED BY <2>9, <2>12, <2>13, <2>14, <2>15 DEF Inv
  <1>21. ASSUME NEW p \in Processes, CommitSnapshot(p) PROVE Inv'
    <2> DEFINE x == [NextDelta(p, run[p].toEpoch, run[p].toSeq) EXCEPT !.retried = FALSE]
    <2> DEFINE r == IF run[p].live THEN x ELSE Idle
    <2> DEFINE c == [auth |-> run[p].auth, epoch |-> run[p].toEpoch, seq |-> run[p].toSeq]
    <2>0. /\ run[p].pc = "snapshot" /\ run[p].gen = gen /\ run[p].auth = binding
          /\ cursor' = c /\ run' = [run EXCEPT ![p] = r]
          /\ covered' = covered \cup ({run[p].toEpoch} \X (1 .. run[p].toSeq))
          /\ recovery' = Completed(recovery, run[p].toSeq)
          /\ UNCHANGED <<lock, gen, pending, binding, server, settled>>
      BY <1>21 DEF CommitSnapshot, At, SnapshotFence, IsCurrent, Continue
    <2>1. /\ run[p].toEpoch \in Epochs /\ run[p].toSeq \in Seqs /\ run[p].auth \in Auths
          /\ Within(run[p].toEpoch, run[p].toSeq, server)
      BY <2>0, Actor DEF RunOK, Answered, Runs, Epochs
    <2>2. x \in Runs /\ x.gen = run[p].gen /\ RunOK(x, gen, c, binding, server, settled)
      BY <2>0, <2>1, NextDeltaOK
    <2> HIDE DEF x
    <2>3. c \in Cursors
      BY <2>1 DEF Cursors
    <2>4. Idle \in Runs /\ Idle.gen = 0 /\ RunOK(Idle, gen, c, binding, server, settled)
      BY Actor, IdleOK, IdleFacts
    <2>5. /\ r \in Runs /\ RunOK(r, gen', cursor', binding', server', settled')
          /\ r.gen \in {0, run[p].gen}
      BY <2>0, <2>2, <2>4
    <2> HIDE DEF r
    <2>6. gen' \in Gens /\ gen <= gen' /\ binding' \in Auths /\ binding <= binding'
          /\ settled' \in Gens /\ settled <= settled' /\ cursor' \in Cursors \cup {NoCursor}
      BY <2>0, <2>3, Actor DEF Gens
    <2>7. run' \in [Processes -> Runs] /\ RunsOK' /\ Unique'
      BY <2>0, <2>5, <2>6, Move
    <2>8. recovery' \in Recoveries \cup {NoRecovery}
      BY <2>0, <2>1, Actor, CompletedOK
    <2>9. {run[p].toEpoch} \X (1 .. run[p].toSeq) \subseteq Epochs \X Seqs
      BY <2>1, SpanOK
    <2>10. TypeOK'
      BY <2>0, <2>6, <2>7, <2>8, <2>9 DEF Inv, TypeOK
    <2>11. CursorOK'
      BY <2>0, <2>1 DEF CursorOK, Auths
    <2>12. NoGap'
      BY <2>0 DEF NoGap
    <2>13. SettledOK'
      BY <2>0 DEF Inv, SettledOK, PendingHonest
    <2> QED BY <2>7, <2>10, <2>11, <2>12, <2>13 DEF Inv
  <1>22. ASSUME NEW p \in Processes, CommitPage(p) PROVE Inv'
    <2> DEFINE x == NextDelta(p, run[p].epoch, run[p].toSeq)
    <2> DEFINE f(left) == [Idle EXCEPT !.pc = "finish", !.gen = run[p].gen, !.left = left]
    <2>0. /\ run[p].pc = "page" /\ run[p].gen = gen /\ run[p].auth = binding
          /\ cursor.auth = binding /\ cursor # NoCursor
          /\ cursor.epoch = run[p].epoch /\ cursor.seq = run[p].seq /\ run[p].toSeq >= cursor.seq
          /\ cursor' = [cursor EXCEPT !.seq = run[p].toSeq]
          /\ covered' = covered \cup ({run[p].epoch} \X (run[p].seq + 1 .. run[p].toSeq))
          /\ UNCHANGED <<lock, gen, pending, binding, recovery, server>>
      BY <1>22 DEF CommitPage, At, PageFence, CursorUnmoved, Ready, IsCurrent
    <2>1. /\ run[p].epoch \in Epochs /\ run[p].toSeq \in Seqs /\ run[p].seq \in Seqs
          /\ Within(run[p].epoch, run[p].toSeq, server)
          /\ run[p].gen \in Gens /\ run[p].gen > 0
      BY <2>0, Actor DEF RunOK, Located, Answered, Runs, Epochs
    <2>2. /\ cursor' \in Cursors /\ cursor'.epoch = run[p].epoch /\ cursor'.seq = run[p].toSeq
          /\ cursor'.auth = binding
      BY <2>0, <2>1, CursorFacts DEF Cursors
    <2>3. x \in Runs /\ x.gen = run[p].gen /\ RunOK(x, gen, cursor', binding, server, settled)
      BY <2>0, <2>1, NextDeltaOK
    <2>4. Idle \in Runs /\ Idle.gen = 0 /\ \A st : RunOK(Idle, gen, cursor', binding, server, st)
      BY Actor, IdleOK, IdleFacts
    <2>5. ASSUME NEW left \in BOOLEAN
          PROVE  f(left) \in Runs /\ f(left).gen = run[p].gen /\ f(left).pc = "finish"
                 /\ f(left).left = left
      BY <2>1, <2>4 DEF Runs, Steps
    <2>6. \/ \E left \in BOOLEAN : Ends(p, left)
          \/ Continue(p, x) /\ UNCHANGED settled
      BY <1>22 DEF CommitPage
    <2>7. /\ settled' \in Gens /\ settled <= settled' /\ settled' <= gen
          /\ \E r \in Runs : /\ run' = [run EXCEPT ![p] = r] /\ r.gen \in {0, run[p].gen}
                             /\ RunOK(r, gen, cursor', binding, server, settled')
      <3>1. CASE Continue(p, x) /\ UNCHANGED settled
        <4> HIDE DEF x
        <4> QED BY <2>3, <2>4, <3>1, Actor DEF Continue
      <3>2. ASSUME NEW left \in BOOLEAN, Ends(p, left)
            PROVE  /\ settled' \in Gens /\ settled <= settled' /\ settled' <= gen
                   /\ \E r \in Runs : /\ run' = [run EXCEPT ![p] = r] /\ r.gen \in {0, run[p].gen}
                                      /\ RunOK(r, gen, cursor', binding, server, settled')
        <4>1. /\ Continue(p, f(left))
              /\ settled' = IF run[p].live /\ ~left /\ run[p].gen > settled
                            THEN run[p].gen ELSE settled
          BY <3>2 DEF Ends
        <4>2. settled' \in Gens /\ settled <= settled' /\ settled' <= gen
          BY <2>0, <2>1, <4>1, Actor DEF Gens
        <4>3. f(left) \in Runs /\ f(left).gen = run[p].gen /\ f(left).pc = "finish"
              /\ f(left).left = left
          BY <2>5
        <4> HIDE DEF f
        <4>4. run[p].live => RunOK(f(left), gen, cursor', binding, server, settled')
          BY <2>0, <2>1, <4>1, <4>3, Actor DEF RunOK, Located, Answered, Gens
        <4> QED BY <2>4, <4>1, <4>2, <4>3, <4>4 DEF Continue
      <3> QED BY <2>6, <3>1, <3>2
    <2> HIDE DEF x, f
    <2>8. gen' \in Gens /\ gen <= gen' /\ binding' \in Auths /\ binding <= binding'
          /\ cursor' \in Cursors \cup {NoCursor}
      BY <2>0, <2>2, Actor DEF Gens
    <2>9. run' \in [Processes -> Runs] /\ RunsOK' /\ Unique'
      <3>1. PICK r \in Runs : /\ run' = [run EXCEPT ![p] = r] /\ r.gen \in {0, run[p].gen}
                              /\ RunOK(r, gen, cursor', binding, server, settled')
        BY <2>7
      <3> QED BY <2>0, <2>7, <2>8, <3>1, Move
    <2>10. {run[p].epoch} \X (run[p].seq + 1 .. run[p].toSeq) \subseteq Epochs \X Seqs
      <3>1. run[p].seq + 1 \in Nat
        BY <2>1 DEF Seqs
      <3> QED BY <2>1, <3>1, SpanOK
    <2>11. TypeOK'
      BY <2>0, <2>7, <2>8, <2>9, <2>10 DEF Inv, TypeOK
    <2>12. CursorOK'
      BY <2>0, <2>1, <2>2, Actor DEF CursorOK, Auths
    <2>13. NoGap'
      <3>1. ASSUME NEW s \in 1 .. run[p].toSeq PROVE <<run[p].epoch, s>> \in covered'
        <4>1. CASE s <= run[p].seq
          BY <2>0, <2>1, <4>1 DEF Inv, NoGap, Seqs
        <4>2. CASE s > run[p].seq
          BY <2>0, <2>1, <4>2 DEF Seqs
        <4> QED BY <4>1, <4>2, <2>1 DEF Seqs
      <3> QED BY <2>2, <3>1 DEF NoGap
    <2>14. SettledOK'
      BY <2>0, <2>7, Actor DEF SettledOK, PendingHonest, Gens
    <2> QED BY <2>9, <2>11, <2>12, <2>13, <2>14 DEF Inv
  <1>23. CASE UNCHANGED vars
    BY <1>23 DEF vars, Inv, TypeOK, RunsOK, Unique, CursorOK, SettledOK, PendingHonest, NoGap
  <1> QED
    BY <1>1, <1>2, <1>3, <1>4, <1>5, <1>6, <1>7, <1>8, <1>9, <1>10, <1>11, <1>12, <1>13, <1>14, <1>15, <1>16, <1>17, <1>18, <1>19, <1>20, <1>21, <1>22, <1>23 DEF Next, RunStep

-----------------------------------------------------------------------------
(* The theorems.                                                             *)

\* The initial state satisfies the invariant.
LEMMA InvInit == Init => Inv
PROOF
  <1> SUFFICES ASSUME Init PROVE Inv
    OBVIOUS
  <1>1. TypeOK
    <2>1. 0 \in Gens /\ 1 \in Auths /\ 1 \in Epochs /\ 0 \in Seqs
      BY BoundAssumption DEF Epochs, Seqs, Auths, Gens
    <2>2. run \in [Processes -> Runs]
      BY IdleFacts DEF Init
    <2>3. server \in [epoch : Epochs, tail : Seqs, floor : Seqs]
      BY <2>1 DEF Init
    <2> QED BY <2>1, <2>2, <2>3 DEF Init, TypeOK
  <1>2. RunsOK
    BY <1>1, IdleOK DEF Init, RunsOK, TypeOK
  <1>3. Unique
    BY IdleFacts DEF Init, Unique
  <1>4. CursorOK /\ SettledOK /\ NoGap
    BY DEF Init, CursorOK, Within, SettledOK, PendingHonest, NoGap, NoCursor
  <1> QED BY <1>1, <1>2, <1>3, <1>4 DEF Inv

\* The invariant holds in every behaviour of receive_run.
THEOREM Invariance == Spec => []Inv
PROOF BY InvInit, InvStep, PTL DEF Spec

\* Every receive run leaves well-formed rows: generations, cursors and recovery
\* rows stay in their ranges, for any number of processes.
THEOREM TypeCorrect == Spec => []TypeOK
PROOF
  <1>1. Inv => TypeOK
    BY DEF Inv
  <1> QED BY <1>1, Invariance, PTL

\* receive_ordinary, receive_bootstrap and receive_snapshot never move the
\* cursor past an event that is not accounted for.
THEOREM NoEventSkipped == Spec => []NoGap
PROOF
  <1>1. Inv => NoGap
    BY DEF Inv
  <1> QED BY <1>1, Invariance, PTL

\* finish_message_sync_run clears the pending mark only for the newest run, and
\* only when that run itself has nothing left to do.
THEOREM PendingIsHonest == Spec => []PendingHonest
PROOF
  <1>1. Inv => PendingHonest
    BY DEF Inv, SettledOK
  <1> QED BY <1>1, Invariance, PTL

\* A step that moves the cursor moves it forward.
LEMMA CursorStep ==
    ASSUME Inv, Next, cursor' # cursor
    PROVE  /\ cursor'.epoch >= cursor.epoch
           /\ cursor'.auth >= cursor.auth
           /\ cursor'.epoch = cursor.epoch => cursor'.seq >= cursor.seq
PROOF
  <1>1. PICK p \in Processes : ApplyBootstrap(p) \/ CommitPage(p) \/ CommitSnapshot(p)
    BY DEF Next, RunStep, StartRun, AcquireLock, LockTimeout, BeginRun, FinishRun, Deadline, Drop,
           Die, Bind, Load, RequestBootstrap, RequestDelta, RequestFails, BeginRecovery,
           Downloaded, RecoveryFails, Refused, OpenDatabase, ServerStep
  <1>2. CASE ApplyBootstrap(p)
    <2>1. /\ run[p].pc = "tail" /\ run[p].gen = gen /\ run[p].auth >= binding
          /\ cursor' = [auth |-> run[p].auth, epoch |-> run[p].toEpoch, seq |-> TailPosition(p)]
      BY <1>2 DEF ApplyBootstrap, At, BootstrapFence, IsCurrent
    <2>2. /\ run[p].auth \in Auths /\ run[p].toEpoch \in 0 .. MaxEpoch /\ run[p].toSeq \in Seqs
          /\ cursor.auth < binding
          /\ cursor.epoch <= run[p].toEpoch
          /\ (cursor.epoch = run[p].toEpoch => cursor.seq <= run[p].toSeq)
      BY <2>1, Actor DEF RunOK, Answered, Runs
    <2>3. cursor.epoch = run[p].toEpoch => TailPosition(p) \in {cursor.seq, run[p].toSeq}
      BY DEF TailPosition
    <2> QED BY <2>1, <2>2, <2>3, CursorFacts, Actor DEF Auths, Seqs
  <1>3. CASE CommitPage(p)
    <2>1. /\ cursor # NoCursor /\ run[p].toSeq >= cursor.seq
          /\ cursor' = [cursor EXCEPT !.seq = run[p].toSeq]
      BY <1>3 DEF CommitPage, PageFence, CursorUnmoved, Ready
    <2> QED BY <2>1, CursorFacts DEF Cursors, Auths, Epochs
  <1>4. CASE CommitSnapshot(p)
    <2>1. /\ run[p].pc = "snapshot" /\ run[p].gen = gen /\ run[p].auth = binding
          /\ cursor' = [auth |-> run[p].auth, epoch |-> run[p].toEpoch, seq |-> run[p].toSeq]
      BY <1>4 DEF CommitSnapshot, At, SnapshotFence, IsCurrent
    <2>2. /\ run[p].toEpoch \in 0 .. MaxEpoch /\ run[p].toSeq \in Seqs
          /\ cursor.epoch <= run[p].toEpoch
          /\ (cursor.epoch = run[p].toEpoch => cursor.seq <= run[p].toSeq)
      BY <2>1, Actor DEF RunOK, Answered, Runs
    <2> QED BY <2>1, <2>2, CursorFacts, Actor DEF Auths, Seqs
  <1> QED BY <1>1, <1>2, <1>3, <1>4

\* Neither a late transaction of a dropped run nor a renewed authorisation moves
\* the stored position back.
THEOREM CursorNeverBack == Spec => CursorMonotone
PROOF
  <1>1. Inv /\ [Next]_vars =>
            [/\ cursor'.epoch >= cursor.epoch
             /\ cursor'.auth >= cursor.auth
             /\ cursor'.epoch = cursor.epoch => cursor'.seq >= cursor.seq]_vars
    <2> SUFFICES ASSUME Inv, [Next]_vars, vars' # vars
                 PROVE  /\ cursor'.epoch >= cursor.epoch
                        /\ cursor'.auth >= cursor.auth
                        /\ cursor'.epoch = cursor.epoch => cursor'.seq >= cursor.seq
      OBVIOUS
    <2>1. CASE cursor' = cursor
      BY <2>1, CursorFacts DEF Seqs
    <2>2. CASE cursor' # cursor
      BY <2>2, CursorStep
    <2> QED BY <2>1, <2>2
  <1> QED BY <1>1, Invariance, PTL DEF Spec, CursorMonotone
=============================================================================
