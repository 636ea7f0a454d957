--------------------------- MODULE SyncInboxProofs ---------------------------
(* Proofs about SyncInbox, for every set of inputs, processes and tokens and *)
(* all limits.                                                               *)
(*                                                                           *)
(* The invariant ties a row to its attempts.  A row waits for a time, or has *)
(* failed for good, or is parked with its worker's token; its deadline is    *)
(* never before that worker's lease ends.  So a worker with a lease holds    *)
(* its row until the row is evicted, and no second one can claim it.  What   *)
(* was applied has no row any more and never gets one again.                 *)
EXTENDS SyncInbox, FiniteSetTheorems, TLAPS

-----------------------------------------------------------------------------
(* The invariant.                                                            *)

\* A row waits for a time, has failed without a retry time, or is parked with its
\* worker's token.
Sound(row) ==
    /\ row.next <= now + RetryDelay
    /\ row.deadline <= now + ClaimSeconds
    /\ row.next = Never => row.code \in NoRetry \cup {"timeout"}
    /\ row.next = Never /\ row.code = "timeout" => row.token # NoToken
    /\ row.code \in NoRetry => row.token = NoToken /\ row.next = Never

RowOK(i) ==
    /\ applied[i] = 0 /\ i \notin discarded /\ i \in delivered
    /\ Sound(rows[i])
    /\ rows[i].token \in issued \cup {NoToken}
    /\ rows[i].token \in DOMAIN leases => leases[rows[i].token] <= rows[i].deadline

LeaseOK(t) == leases[t] \in Int /\ leases[t] <= now + ClaimSeconds

\* The input of attempt t, with the baselines before it out of the way.
InputOK(t) ==
    attempts[t].input # Maintenance =>
        /\ attempts[t].input \in delivered
        /\ \A b \in Baselines \cap DOMAIN rows :
              attempts[t].input \in Baselines /\ b < attempts[t].input => Expired(b)

AttemptOK(t) ==
    /\ attempts[t].input = Maintenance => attempts[t].work = "running" /\ attempts[t].step = "working"
    /\ attempts[t].step \in {"released", "superseded", "stale", "timed_out", "reported"} => attempts[t].work # "running"
    /\ attempts[t].work = "ok" => attempts[t].step # "parked" /\ applied[attempts[t].input] > 0
    /\ attempts[t].step = "parked" /\ Holds(t) => rows[attempts[t].input].code = "timeout"

\* A worker that still has its lease holds its row.
WorkerOK(t) ==
    attempts[t].input # Maintenance /\ attempts[t].work = "running" /\ ~attempts[t].evicted =>
        (t \in DOMAIN leases => Holds(t))

\* Only a baseline past its retention is overtaken.
OvertakenOK ==
    /\ overtaken \subseteq delivered
    /\ \A b \in overtaken \cap DOMAIN rows : Expired(b)
    /\ overtaken # {} => Retention <= MaxTime

Bounded == Cardinality(DOMAIN rows) <= MaxRecords

IInv ==
    /\ TypeOK /\ Bounded /\ LeasesBounded
    /\ NothingLost /\ NoFalseDiscard /\ AppliedAtMostOnce /\ OvertakenOK
    /\ \A i \in DOMAIN rows : RowOK(i)
    /\ \A t \in DOMAIN leases : LeaseOK(t)
    /\ \A t \in DOMAIN attempts : InputOK(t) /\ AttemptOK(t) /\ WorkerOK(t)

-----------------------------------------------------------------------------
(* Rows, attempts and bounds.                                                *)

\* What is assumed of the constants, in the form the proofs use.
LEMMA Constants ==
    /\ NoToken \notin Tokens /\ Maintenance \notin Inputs
    /\ Ordinary \cap Baselines = {} /\ Secure \cap Baselines = {} /\ OwnEcho \subseteq Secure
    /\ MaxActive \in Nat /\ MaxActive > 0 /\ MaxRecords \in Nat /\ MaxRecords > 0
    /\ ClaimSeconds \in Nat /\ ClaimSeconds > 0 /\ Retention \in Nat /\ Retention > 0
    /\ CleanupBatch \in Nat /\ RetryDelay \in Nat /\ MaxTime \in Nat /\ MaxBinding \in Nat
    /\ Baselines \subseteq Nat /\ Ordinary \cup Baselines \cup Secure = Inputs
PROOF BY LaneAssumption, BoundAssumption DEF Baselines, Inputs

\* The smaller of two numbers.
LEMMA Least ==
    ASSUME NEW a \in Int, NEW b \in Int
    PROVE  Min({a, b}) = IF a <= b THEN a ELSE b
PROOF
  <1>1. \E x \in {a, b} : \A y \in {a, b} : x =< y
    OBVIOUS
  <1>2. Min({a, b}) \in {a, b} /\ \A y \in {a, b} : Min({a, b}) =< y
    BY <1>1 DEF Min
  <1> QED BY <1>2

\* Sets of inputs and of tokens are finite.
LEMMA FiniteParts ==
    ASSUME TypeOK
    PROVE  /\ \A S \in SUBSET Inputs : IsFiniteSet(S) /\ Cardinality(S) \in Nat
           /\ \A S \in SUBSET Tokens : IsFiniteSet(S) /\ Cardinality(S) \in Nat
           /\ DOMAIN rows \in SUBSET Inputs /\ DOMAIN leases \in SUBSET Tokens
           /\ DOMAIN attempts \in SUBSET Tokens
PROOF BY LaneAssumption, FS_Subset, FS_CardinalityType DEF TypeOK

\* The parts of a row have their types.
LEMMA RowFields ==
    ASSUME NEW r \in RowType
    PROVE  /\ r.created \in 0 .. MaxTime /\ r.next \in Int /\ r.token \in Tokens \cup {NoToken}
           /\ r.deadline \in Int /\ r.code \in Codes
PROOF BY DEF RowType

\* What parking, releasing and giving up a claim write to a row.
LEMMA Writes ==
    ASSUME NEW r \in RowType, now \in 0 .. MaxTime
    PROVE  /\ NewLease \in Nat /\ NewLease > now
           /\ /\ Parked(r) \in RowType /\ Parked(r).created = r.created /\ Parked(r).token = r.token
              /\ Parked(r).next = Never /\ Parked(r).code = "timeout" /\ Parked(r).deadline = NewLease
           /\ /\ Released(r) \in RowType /\ Released(r).created = r.created /\ Released(r).token = NoToken
              /\ Released(r).deadline = Never /\ Released(r).next = now + RetryDelay
              /\ Released(r).code = r.code
           /\ \A c \in Codes :
              /\ Unclaimed(r, c) \in RowType /\ Unclaimed(r, c).created = r.created
              /\ Unclaimed(r, c).token = NoToken /\ Unclaimed(r, c).deadline = Never
              /\ Unclaimed(r, c).code = c
              /\ Unclaimed(r, c).next = IF c \in NoRetry THEN Never ELSE now + RetryDelay
PROOF
  <1>1. /\ NewLease \in Nat /\ NewLease \in Int /\ NewLease > now
        /\ now + RetryDelay \in Int /\ Never \in Int /\ "timeout" \in Codes
    BY Constants DEF NewLease, Never, Codes, FailureCodes
  <1>2. /\ Parked(r) \in RowType /\ Parked(r).created = r.created /\ Parked(r).token = r.token
        /\ Parked(r).next = Never /\ Parked(r).code = "timeout" /\ Parked(r).deadline = NewLease
    BY <1>1 DEF Parked, RowType
  <1>3. /\ Released(r) \in RowType /\ Released(r).created = r.created /\ Released(r).token = NoToken
        /\ Released(r).deadline = Never /\ Released(r).next = now + RetryDelay
        /\ Released(r).code = r.code
    BY <1>1 DEF Released, RowType
  <1>4. ASSUME NEW c \in Codes
        PROVE  /\ Unclaimed(r, c) \in RowType /\ Unclaimed(r, c).created = r.created
               /\ Unclaimed(r, c).token = NoToken /\ Unclaimed(r, c).deadline = Never
               /\ Unclaimed(r, c).code = c
               /\ Unclaimed(r, c).next = IF c \in NoRetry THEN Never ELSE now + RetryDelay
    BY <1>1 DEF Unclaimed, RowType
  <1> QED BY <1>1, <1>2, <1>3, <1>4

\* A row that is woken by another of its scope.
LEMMA TimeWrite ==
    ASSUME NEW r \in RowType, now \in 0 .. MaxTime, NEW q, q = [r EXCEPT !.next = now]
    PROVE  /\ q \in RowType /\ q.created = r.created /\ q.token = r.token
           /\ q.deadline = r.deadline /\ q.code = r.code /\ q.next = now
PROOF BY DEF RowType

\* A row that is made due again.
LEMMA RetryWrite ==
    ASSUME NEW r \in RowType, NEW c \in Codes, now \in 0 .. MaxTime
    PROVE  /\ DueNow(r, c) \in RowType /\ DueNow(r, c).created = r.created
           /\ DueNow(r, c).token = r.token /\ DueNow(r, c).deadline = r.deadline
           /\ DueNow(r, c).code = c /\ DueNow(r, c).next = now
PROOF
  <1>1. now \in Int
    OBVIOUS
  <1> QED BY <1>1 DEF RowType, DueNow

\* A row whose claim is renewed.
LEMMA DeadlineWrite ==
    ASSUME NEW r \in RowType, now \in 0 .. MaxTime, NEW q, q = [r EXCEPT !.deadline = NewLease]
    PROVE  /\ q \in RowType /\ q.created = r.created /\ q.token = r.token
           /\ q.deadline = NewLease /\ q.code = r.code /\ q.next = r.next
PROOF
  <1>1. NewLease \in Int
    BY Writes
  <1> QED BY <1>1 DEF RowType

\* A row that is claimed.
LEMMA ClaimWrite ==
    ASSUME NEW r \in RowType, NEW t \in Tokens, now \in 0 .. MaxTime
    PROVE  /\ Claimed(r, t) \in RowType /\ Claimed(r, t).created = r.created /\ Claimed(r, t).token = t
           /\ Claimed(r, t).deadline = NewLease /\ Claimed(r, t).code = "none"
           /\ Claimed(r, t).next = IF r.next = Never THEN now ELSE r.next
PROOF
  <1>1. NewLease \in Int /\ "none" \in Codes
    BY Writes DEF Codes, FailureCodes
  <1>2. PICK n \in Int : n = IF r.next = Never THEN now ELSE r.next
    BY RowFields
  <1>3. PICK q : q = [r EXCEPT !.token = t, !.deadline = NewLease, !.code = "none", !.next = n]
    OBVIOUS
  <1>a. Claimed(r, t) = q
    BY <1>2, <1>3 DEF RowType, Claimed
  <1>4. /\ q \in RowType /\ q.created = r.created /\ q.token = t
        /\ q.deadline = NewLease /\ q.code = "none" /\ q.next = n
    BY <1>1, <1>3 DEF RowType
  <1> QED BY <1>2, <1>4, <1>a

\* The parts of an attempt have their types.
LEMMA AttemptFields ==
    ASSUME NEW a \in AttemptType
    PROVE  /\ a.input \in Inputs \cup {Maintenance} /\ a.work \in {"running", "ok", "err"}
           /\ a.step \in Steps /\ a.evicted \in BOOLEAN
           /\ \A w \in {"running", "ok", "err"} : LET c == [a EXCEPT !.work = w]
              IN  /\ c \in AttemptType /\ c.input = a.input /\ c.process = a.process
                  /\ c.work = w /\ c.step = a.step /\ c.evicted = a.evicted
           /\ \A s \in Steps : LET c == [a EXCEPT !.step = s]
              IN  /\ c \in AttemptType /\ c.input = a.input /\ c.process = a.process
                  /\ c.work = a.work /\ c.step = s /\ c.evicted = a.evicted
           /\ \A S : LET c == [a EXCEPT !.evicted = @ \/ a.input \in S]
              IN  /\ c \in AttemptType /\ c.input = a.input /\ c.process = a.process
                  /\ c.work = a.work /\ c.step = a.step
                  /\ c.evicted = (a.evicted \/ a.input \in S)
PROOF BY DEF AttemptType

\* An attempt begins at work, with a row nobody has evicted.
LEMMA NewAttempt ==
    ASSUME NEW p \in Processes, NEW i \in Inputs \cup {Maintenance}, binding \in 0 .. MaxBinding
    PROVE  /\ Attempt(p, i) \in AttemptType /\ Attempt(p, i).input = i
           /\ Attempt(p, i).work = "running" /\ Attempt(p, i).step = "working"
           /\ Attempt(p, i).evicted = FALSE
PROOF BY DEF Attempt, AttemptType, Steps

-----------------------------------------------------------------------------
(* What the transactions do.                                                 *)

\* The requeue that precedes a claim only touches a blocked row that nobody
\* holds.
LEMMA AtClaim ==
    ASSUME TypeOK, NEW i \in DOMAIN rows
    PROVE  LET row == RowAtClaim(i)
           IN  /\ row \in RowType /\ row.created = rows[i].created
               /\ row.token = rows[i].token /\ row.deadline = rows[i].deadline
               /\ rows[i].token # NoToken => row = rows[i]
               /\ Sound(rows[i]) => Sound(row)
PROOF
  <1>1. rows[i] \in RowType /\ now \in 0 .. MaxTime /\ "retryable" \in Codes
    BY DEF TypeOK, Codes, FailureCodes
  <1>2. CASE ~Requeued(i)
    BY <1>1, <1>2 DEF RowAtClaim
  <1>3. CASE Requeued(i)
    <2>1. PICK q : q = DueNow(rows[i], "retryable")
      OBVIOUS
    <2>2. /\ q \in RowType /\ q.created = rows[i].created /\ q.token = rows[i].token
          /\ q.deadline = rows[i].deadline /\ q.code = "retryable" /\ q.next = now
      BY <1>1, <2>1, RetryWrite
    <2>3. RowAtClaim(i) = q /\ rows[i].token = NoToken
      BY <1>3, <2>1 DEF RowAtClaim, Requeued
    <2>4. Sound(rows[i]) => Sound(q)
      BY <1>1, <2>2, Constants DEF Sound, Never, NoRetry
    <2> QED BY <2>2, <2>3, <2>4
  <1> QED BY <1>2, <1>3

\* A claim: as many new tokens as fit next to the live leases, each the token
\* of a due row.
LEMMA ClaimFacts ==
    ASSUME TypeOK, NEW p \in Processes, ClaimInputs(p)
    PROVE  \E chosen \in SUBSET Due, ts \in SUBSET Fresh :
            /\ Cardinality(ts) <= MaxActive - Cardinality(LiveLeases)
            /\ DOMAIN rows' = DOMAIN rows
            /\ \A i \in DOMAIN rows \ chosen : rows'[i] = RowAtClaim(i)
            /\ \A i \in chosen :
                /\ i \in DOMAIN rows /\ rows'[i] \in RowType
                /\ rows'[i].created = rows[i].created
                /\ rows'[i].token \in ts /\ rows'[i].deadline = NewLease /\ rows'[i].code = "none"
                /\ rows'[i].next = IF RowAtClaim(i).next = Never THEN now ELSE RowAtClaim(i).next
            /\ DOMAIN leases' = LiveLeases \cup ts
            /\ \A t \in ts : leases'[t] = NewLease
            /\ \A t \in LiveLeases : leases'[t] = leases[t]
            /\ DOMAIN attempts' = DOMAIN attempts \cup ts
            /\ \A t \in DOMAIN attempts : attempts'[t] = attempts[t]
            /\ \A t \in ts : \E i \in chosen : rows'[i].token = t /\ attempts'[t] = Attempt(p, i)
            /\ issued' = issued \cup ts
            /\ UNCHANGED <<now, binding, accepted, applied, history>>
PROOF
  <1>1. PICK chosen \in SUBSET Due, ts \in SUBSET Fresh :
            /\ Cardinality(chosen) = Min({ClaimLimit(p), Cardinality(Due)})
            /\ Cardinality(ts) = Cardinality(chosen)
            /\ \E tokenOf \in [chosen -> ts] :
                /\ \A t \in ts : \E i \in chosen : tokenOf[i] = t
                /\ rows' = [i \in DOMAIN rows |->
                                IF i \in chosen THEN Claimed(RowAtClaim(i), tokenOf[i])
                                ELSE RowAtClaim(i)]
                /\ leases' = [t \in LiveLeases \cup ts |-> IF t \in ts THEN NewLease ELSE leases[t]]
                /\ attempts' = [t \in DOMAIN attempts \cup ts |->
                                    IF t \in ts
                                    THEN Attempt(p, CHOOSE i \in chosen : tokenOf[i] = t)
                                    ELSE attempts[t]]
                /\ issued' = issued \cup ts
    BY DEF ClaimInputs
  <1>2. PICK tokenOf \in [chosen -> ts] :
            /\ \A t \in ts : \E i \in chosen : tokenOf[i] = t
            /\ rows' = [i \in DOMAIN rows |->
                            IF i \in chosen THEN Claimed(RowAtClaim(i), tokenOf[i])
                            ELSE RowAtClaim(i)]
            /\ leases' = [t \in LiveLeases \cup ts |-> IF t \in ts THEN NewLease ELSE leases[t]]
            /\ attempts' = [t \in DOMAIN attempts \cup ts |->
                                IF t \in ts
                                THEN Attempt(p, CHOOSE i \in chosen : tokenOf[i] = t)
                                ELSE attempts[t]]
            /\ issued' = issued \cup ts
    BY <1>1
  <1>3. UNCHANGED <<now, binding, accepted, applied, history>>
    BY DEF ClaimInputs
  <1>4. Due \subseteq DOMAIN rows /\ Fresh \subseteq Tokens /\ Fresh \cap issued = {}
        /\ LiveLeases \subseteq DOMAIN leases
    BY DEF Due, Fresh, LiveLeases, LiveLeasesAt
  <1>5. Cardinality(ts) <= MaxActive - Cardinality(LiveLeases)
    <2>1. /\ Cardinality(Due) \in Nat /\ Cardinality(Jobs(p)) \in Nat /\ Cardinality(LiveLeases) \in Nat
          /\ MaxActive \in Nat
      BY <1>4, FiniteParts, Constants DEF Jobs
    <2>2. ClaimLimit(p) \in Int /\ ClaimLimit(p) <= MaxActive - Cardinality(LiveLeases)
      BY <2>1, Least DEF ClaimLimit
    <2>3. Min({ClaimLimit(p), Cardinality(Due)}) <= ClaimLimit(p)
      BY <2>1, <2>2, Least
    <2>4. Cardinality(ts) = Min({ClaimLimit(p), Cardinality(Due)})
      BY <1>1
    <2> QED BY <2>1, <2>2, <2>3, <2>4, Least
  <1>6. ASSUME NEW i \in chosen
        PROVE  /\ i \in DOMAIN rows /\ rows'[i] \in RowType
               /\ rows'[i].created = rows[i].created
               /\ rows'[i].token = tokenOf[i] /\ tokenOf[i] \in ts
               /\ rows'[i].deadline = NewLease /\ rows'[i].code = "none"
               /\ rows'[i].next = IF RowAtClaim(i).next = Never THEN now ELSE RowAtClaim(i).next
    <2>1. i \in DOMAIN rows /\ tokenOf[i] \in ts /\ tokenOf[i] \in Tokens /\ now \in 0 .. MaxTime
      BY <1>2, <1>4, <1>6 DEF TypeOK
    <2>2. RowAtClaim(i) \in RowType /\ RowAtClaim(i).created = rows[i].created
      BY <2>1, AtClaim
    <2>3. PICK r, t : r = RowAtClaim(i) /\ t = tokenOf[i]
      OBVIOUS
    <2>4. r \in RowType /\ t \in Tokens /\ now \in 0 .. MaxTime
      BY <2>1, <2>2, <2>3
    <2>5. rows'[i] = Claimed(r, t)
      BY <1>2, <1>6, <2>1, <2>3
    <2> QED BY <2>1, <2>2, <2>3, <2>4, <2>5, ClaimWrite
  <1>7. ASSUME NEW t \in ts
        PROVE  \E i \in chosen : rows'[i].token = t /\ attempts'[t] = Attempt(p, i)
    <2>1. PICK i : i = CHOOSE j \in chosen : tokenOf[j] = t
      OBVIOUS
    <2>2. i \in chosen /\ tokenOf[i] = t
      BY <1>2, <1>7, <2>1
    <2>3. attempts'[t] = Attempt(p, i)
      BY <1>2, <1>7, <2>1
    <2> QED BY <1>6, <2>2, <2>3
  <1>8. \A t \in DOMAIN attempts : t \notin ts
    BY <1>4 DEF TypeOK
  <1>9. /\ DOMAIN rows' = DOMAIN rows
        /\ \A i \in DOMAIN rows \ chosen : rows'[i] = RowAtClaim(i)
        /\ DOMAIN leases' = LiveLeases \cup ts
        /\ \A t \in ts : leases'[t] = NewLease
        /\ DOMAIN attempts' = DOMAIN attempts \cup ts
        /\ issued' = issued \cup ts
    BY <1>2
  <1>10. \A t \in DOMAIN attempts : attempts'[t] = attempts[t]
    BY <1>2, <1>8
  <1>11. \A t \in LiveLeases : leases'[t] = leases[t]
    BY <1>2, <1>4 DEF TypeOK
  <1> QED BY <1>3, <1>5, <1>6, <1>7, <1>9, <1>10, <1>11

\* After make_room the new rows fit.
LEMMA RoomFacts ==
    ASSUME TypeOK, Bounded, NEW n \in Nat, n <= MaxRecords, NEW gone \in MakeRoom(n)
    PROVE  gone \subseteq DOMAIN rows /\ Cardinality(DOMAIN rows \ gone) + n <= MaxRecords
PROOF
  <1>1. PICK old \in OldestOf(ExpiredRows, CleanupBatch) :
            LET kept == DOMAIN rows \ old
            IN  gone \in IF n > 0 /\ Excess(kept, n) > 0
                         THEN {old \cup more : more \in OldestOf(kept, Excess(kept, n))}
                         ELSE {old}
    BY DEF MakeRoom
  <1>2. old \subseteq DOMAIN rows
    BY DEF OldestOf, ExpiredRows
  <1>3. PICK kept : kept = DOMAIN rows \ old
    OBVIOUS
  <1>4. /\ IsFiniteSet(kept) /\ Cardinality(kept) \in Nat /\ Cardinality(DOMAIN rows) \in Nat
        /\ Cardinality(kept) <= Cardinality(DOMAIN rows)
    BY <1>3, FiniteParts, FS_Subset
  <1>5. CASE n > 0 /\ Excess(kept, n) > 0
    <2>1. PICK more \in OldestOf(kept, Excess(kept, n)) : gone = old \cup more
      BY <1>1, <1>3, <1>5
    <2>2. /\ more \subseteq kept
          /\ Cardinality(more) = Min({Excess(kept, n), Cardinality(kept)})
      BY <2>1 DEF OldestOf
    <2>3. Excess(kept, n) = Cardinality(kept) + n - MaxRecords /\ Excess(kept, n) \in Int
      BY <1>4, Constants DEF Excess
    <2>4. DOMAIN rows \ gone = kept \ more /\ kept \cap more = more
      BY <1>2, <1>3, <2>1, <2>2
    <2>5. Cardinality(kept \ more) = Cardinality(kept) - Cardinality(more)
      BY <1>4, <2>4, FS_Difference
    <2>6. \/ Cardinality(more) = Cardinality(kept) + n - MaxRecords
          \/ Cardinality(more) = Cardinality(kept)
      BY <1>4, <2>2, <2>3, Least
    <2>7. Cardinality(DOMAIN rows \ gone) + n <= MaxRecords
      <3>1. Cardinality(kept) \in Nat /\ MaxRecords \in Nat /\ n \in Nat /\ n <= MaxRecords
        BY <1>4, Constants
      <3>2. Cardinality(more) \in Int
        BY <3>1, <2>6
      <3>3. Cardinality(DOMAIN rows \ gone) = Cardinality(kept) - Cardinality(more)
        BY <2>4, <2>5
      <3> QED BY <2>6, <3>1, <3>2, <3>3
    <2> QED BY <1>2, <1>3, <2>1, <2>2, <2>7
  <1>6. CASE ~(n > 0 /\ Excess(kept, n) > 0)
    <2>1. gone = old
      BY <1>1, <1>3, <1>6
    <2>2. Cardinality(kept) + n <= MaxRecords
      BY <1>4, <1>6, Constants DEF Excess, Bounded
    <2> QED BY <1>2, <1>3, <2>1, <2>2
  <1> QED BY <1>5, <1>6

\* A row is taken away from under its attempts.
LEMMA EvictFacts ==
    ASSUME TypeOK, NEW gone, Evict(gone)
    PROVE  /\ DOMAIN attempts' = DOMAIN attempts
           /\ \A t \in DOMAIN attempts :
                /\ attempts'[t] \in AttemptType
                /\ attempts'[t].input = attempts[t].input /\ attempts'[t].work = attempts[t].work
                /\ attempts'[t].step = attempts[t].step
                /\ attempts'[t].evicted = (attempts[t].evicted \/ attempts[t].input \in gone)
PROOF
  <1>1. DOMAIN attempts' = DOMAIN attempts
    BY DEF Evict
  <1>2. ASSUME NEW t \in DOMAIN attempts
        PROVE  /\ attempts'[t] \in AttemptType
               /\ attempts'[t].input = attempts[t].input /\ attempts'[t].work = attempts[t].work
               /\ attempts'[t].step = attempts[t].step
               /\ attempts'[t].evicted = (attempts[t].evicted \/ attempts[t].input \in gone)
    <2>1. attempts[t] \in AttemptType
      BY DEF TypeOK
    <2>2. PICK a : a = attempts[t]
      OBVIOUS
    <2>3. attempts'[t] = [a EXCEPT !.evicted = @ \/ a.input \in gone]
      BY <2>2 DEF Evict
    <2>4. LET c == [a EXCEPT !.evicted = @ \/ a.input \in gone]
          IN  /\ c \in AttemptType /\ c.input = a.input /\ c.process = a.process
              /\ c.work = a.work /\ c.step = a.step
              /\ c.evicted = (a.evicted \/ a.input \in gone)
      BY <2>1, <2>2 DEF AttemptType
    <2> QED BY <2>2, <2>3, <2>4, Zenon
  <1> QED BY <1>1, <1>2

\* A receive transaction: the fresh inputs come in, what make_room removed
\* goes.
LEMMA ReceiveFacts ==
    ASSUME TypeOK, Bounded, NEW batch \in SUBSET Inputs, Receive(batch)
    PROVE  \E fresh \in SUBSET batch, gone \in SUBSET DOMAIN rows :
            /\ \A i \in batch : i \in fresh <=> i \notin DOMAIN rows /\ applied[i] = 0
            /\ DOMAIN rows' = (DOMAIN rows \ gone) \cup fresh
            /\ \A i \in fresh : rows'[i] = NewRow
            /\ \A i \in DOMAIN rows \ gone : rows'[i] = rows[i]
            /\ Cardinality(DOMAIN rows') <= MaxRecords
            /\ removed' = (removed \cup gone) \ fresh /\ Evict(gone)
            /\ delivered' = delivered \cup batch /\ discarded' = discarded \ fresh
            /\ UNCHANGED <<now, leases, issued, binding, accepted, applied, overtaken>>
PROOF
  <1>1. PICK fresh : fresh = {i \in batch : ~IsDuplicate(i)}
    OBVIOUS
  <1>2. /\ Cardinality(fresh) <= MaxRecords
        /\ \E gone \in MakeRoom(Cardinality(fresh)) :
            /\ rows' = [i \in (DOMAIN rows \ gone) \cup fresh |->
                            IF i \in fresh THEN NewRow ELSE rows[i]]
            /\ removed' = (removed \cup gone) \ fresh
            /\ Evict(gone)
        /\ delivered' = delivered \cup batch
        /\ discarded' = discarded \ fresh
        /\ UNCHANGED <<now, leases, issued, binding, accepted, applied, overtaken>>
    BY <1>1 DEF Receive
  <1>3. PICK gone \in MakeRoom(Cardinality(fresh)) :
            /\ rows' = [i \in (DOMAIN rows \ gone) \cup fresh |->
                            IF i \in fresh THEN NewRow ELSE rows[i]]
            /\ removed' = (removed \cup gone) \ fresh
            /\ Evict(gone)
    BY <1>2
  <1>4. fresh \subseteq Inputs /\ IsFiniteSet(fresh) /\ Cardinality(fresh) \in Nat
    BY <1>1, FiniteParts
  <1>5. gone \subseteq DOMAIN rows /\ Cardinality(DOMAIN rows \ gone) + Cardinality(fresh) <= MaxRecords
    BY <1>2, <1>3, <1>4, RoomFacts
  <1>6. \A i \in batch : i \in fresh <=> i \notin DOMAIN rows /\ applied[i] = 0
    BY <1>1 DEF IsDuplicate, TypeOK
  <1>7. /\ DOMAIN rows' = (DOMAIN rows \ gone) \cup fresh
        /\ \A i \in fresh : rows'[i] = NewRow
        /\ \A i \in DOMAIN rows \ gone : rows'[i] = rows[i]
    BY <1>1, <1>3, <1>6
  <1>8. Cardinality(DOMAIN rows') <= MaxRecords
    <2>1. PICK kept : kept = DOMAIN rows \ gone
      OBVIOUS
    <2>2. IsFiniteSet(kept) /\ Cardinality(kept) \in Nat /\ Cardinality(kept \cap fresh) \in Nat
          /\ kept \subseteq Inputs
      BY <1>4, <2>1, FiniteParts
    <2>3. Cardinality(kept \cup fresh) = Cardinality(kept) + Cardinality(fresh) - Cardinality(kept \cap fresh)
      BY <1>4, <2>2, FS_Union
    <2> QED BY <1>4, <1>5, <1>7, <2>1, <2>2, <2>3, Constants
  <1> QED BY <1>1, <1>2, <1>3, <1>5, <1>6, <1>7, <1>8

-----------------------------------------------------------------------------
(* Steps of one attempt.                                                     *)

\* Attempt t is now at step s with its work at w.
Moved(t, s, w) ==
    /\ DOMAIN attempts' = DOMAIN attempts /\ attempts'[t] \in AttemptType
    /\ attempts'[t].input = attempts[t].input /\ attempts'[t].evicted = attempts[t].evicted
    /\ attempts'[t].step = s /\ attempts'[t].work = w
    /\ \A u \in DOMAIN attempts \ {t} : attempts'[u] = attempts[u]

\* Attempt t is over.
Ended(t) ==
    /\ DOMAIN attempts' = DOMAIN attempts \ {t}
    /\ \A u \in DOMAIN attempts \ {t} : attempts'[u] = attempts[u]

\* Row i is now r.
Written(i, r) ==
    /\ DOMAIN rows' = DOMAIN rows /\ rows'[i] = r
    /\ \A j \in DOMAIN rows \ {i} : rows'[j] = rows[j]

\* The ways an attempt's record changes.
LEMMA AttemptMoves ==
    ASSUME TypeOK, NEW t \in DOMAIN attempts
    PROVE  /\ \A w \in {"running", "ok", "err"} : attempts' = [attempts EXCEPT ![t].work = w] =>
                Moved(t, attempts[t].step, w)
           /\ \A s \in Steps : attempts' = [attempts EXCEPT ![t].step = s] =>
                Moved(t, s, attempts[t].work)
           /\ attempts' = Without(attempts, {t}) => Ended(t)
PROOF
  <1>1. attempts[t] \in AttemptType
    BY DEF TypeOK
  <1>2. ASSUME NEW w \in {"running", "ok", "err"}, attempts' = [attempts EXCEPT ![t].work = w]
        PROVE  Moved(t, attempts[t].step, w)
    <2>1. attempts'[t] = [attempts[t] EXCEPT !.work = w]
      BY <1>2
    <2>2. /\ attempts'[t] \in AttemptType /\ attempts'[t].input = attempts[t].input
          /\ attempts'[t].evicted = attempts[t].evicted
          /\ attempts'[t].step = attempts[t].step /\ attempts'[t].work = w
      BY <1>1, <2>1 DEF AttemptType
    <2> QED BY <1>2, <2>2 DEF Moved
  <1>3. ASSUME NEW s \in Steps, attempts' = [attempts EXCEPT ![t].step = s]
        PROVE  Moved(t, s, attempts[t].work)
    <2>1. attempts'[t] = [attempts[t] EXCEPT !.step = s]
      BY <1>3
    <2>2. /\ attempts'[t] \in AttemptType /\ attempts'[t].input = attempts[t].input
          /\ attempts'[t].evicted = attempts[t].evicted
          /\ attempts'[t].step = s /\ attempts'[t].work = attempts[t].work
      BY <1>1, <2>1 DEF AttemptType
    <2> QED BY <1>3, <2>2 DEF Moved
  <1>4. ASSUME attempts' = Without(attempts, {t})
        PROVE  Ended(t)
    BY <1>4 DEF Without, Ended
  <1> QED BY <1>2, <1>3, <1>4

\* The steps of an attempt that leave the rows alone.
Quiet(t) ==
    /\ UNCHANGED <<now, rows, issued, binding, accepted, applied, delivered, removed, overtaken>>
    /\ \/ leases' = leases
       \/ leases' = Without(leases, {t}) /\ Ended(t)
    /\ \/ discarded' = discarded
       \/ /\ attempts[t].step = "stale" /\ discarded' = discarded \cup {attempts[t].input}
          /\ attempts[t].input \notin DOMAIN rows /\ ~WasCompleted(attempts[t].input)
    /\ \/ /\ attempts[t].input # Maintenance /\ attempts[t].work = "running"
          /\ Moved(t, attempts[t].step, "err")
       \/ /\ attempts[t].input # Maintenance /\ attempts[t].step = "working"
          /\ Moved(t, "unparked", attempts[t].work)
       \/ /\ attempts[t].step = "parked" /\ attempts[t].work # "running"
          /\ Moved(t, "superseded", attempts[t].work)
       \/ /\ Failed(t)
          /\ \E s \in {"timed_out", "stale"} : Moved(t, s, attempts[t].work)
       \/ /\ attempts[t].step \in {"stale", "timed_out"}
          /\ Moved(t, "reported", attempts[t].work)
       \/ Ended(t)

\* park_timeout changed the row of this attempt, or nothing.
LEMMA ParkFacts ==
    ASSUME TypeOK, NEW t \in DOMAIN attempts, ParkTimeout(t)
    PROVE  /\ attempts[t].input # Maintenance /\ attempts[t].step = "working"
           /\ UNCHANGED <<now, leases, issued, binding, accepted, applied, history>>
           /\ \/ /\ Holds(t) /\ Written(attempts[t].input, Parked(rows[attempts[t].input]))
                 /\ Moved(t, "parked", attempts[t].work)
              \/ rows' = rows /\ Moved(t, "unparked", attempts[t].work)
PROOF
  <1>1. "parked" \in Steps /\ "unparked" \in Steps
    BY DEF Steps
  <1>2. ASSUME Holds(t), rows' = [rows EXCEPT ![attempts[t].input] = Parked(@)]
        PROVE  Written(attempts[t].input, Parked(rows[attempts[t].input]))
    BY <1>2 DEF Holds, Written
  <1> QED BY <1>1, <1>2, AttemptMoves DEF ParkTimeout

\* release_timeout changed the row of this attempt, or nothing.
LEMMA ReleaseFacts ==
    ASSUME TypeOK, NEW t \in DOMAIN attempts, ReleaseTimeout(t)
    PROVE  /\ attempts[t].step = "parked" /\ attempts[t].work # "running"
           /\ UNCHANGED <<now, leases, issued, binding, accepted, applied, history>>
           /\ \/ /\ Holds(t) /\ rows[attempts[t].input].code = "timeout"
                 /\ Written(attempts[t].input, Released(rows[attempts[t].input]))
                 /\ Moved(t, "released", attempts[t].work)
              \/ rows' = rows /\ Moved(t, "superseded", attempts[t].work)
PROOF
  <1>1. "released" \in Steps /\ "superseded" \in Steps
    BY DEF Steps
  <1>2. ASSUME Holds(t), rows' = [rows EXCEPT ![attempts[t].input] = Released(@)]
        PROVE  Written(attempts[t].input, Released(rows[attempts[t].input]))
    BY <1>2 DEF Holds, Written
  <1> QED BY <1>1, <1>2, AttemptMoves DEF ReleaseTimeout

\* fail_claim frees the row of this attempt.
LEMMA FailFacts ==
    ASSUME TypeOK, NEW t \in DOMAIN attempts, NEW code, FailClaim(t, code)
    PROVE  /\ Failed(t) /\ RequireClaim(t) /\ Holds(t)
           /\ Written(attempts[t].input, Unclaimed(rows[attempts[t].input], code))
           /\ leases' = Without(leases, {t}) /\ Ended(t)
           /\ UNCHANGED <<now, issued, binding, accepted, applied, history>>
PROOF
  <1>1. Holds(t)
    BY DEF FailClaim, RequireClaim
  <1>2. Written(attempts[t].input, Unclaimed(rows[attempts[t].input], code))
    BY <1>1 DEF FailClaim, Holds, Written
  <1> QED BY <1>1, <1>2, AttemptMoves DEF FailClaim

\* The steps of an attempt that leave the rows alone.
LEMMA QuietSteps ==
    ASSUME TypeOK, NEW t \in DOMAIN attempts,
           WorkFails(t) \/ FailClaimRefused(t) \/ ReportStale(t) \/ ReleaseLease(t) \/ AttemptDies(t)
    PROVE  Quiet(t)
PROOF
  <1>1. CASE WorkFails(t)
    BY <1>1, AttemptMoves DEF WorkFails, Quiet, history
  <1>2. CASE FailClaimRefused(t)
    <2>1. PICK s \in {"timed_out", "stale"} : attempts' = [attempts EXCEPT ![t].step = s]
      BY <1>2 DEF FailClaimRefused
    <2>2. Moved(t, s, attempts[t].work)
      BY <2>1, AttemptMoves DEF Steps
    <2> QED BY <1>2, <2>2 DEF FailClaimRefused, Quiet, history
  <1>3. CASE ReportStale(t)
    <2>1. Moved(t, "reported", attempts[t].work)
      BY <1>3, AttemptMoves DEF ReportStale, Steps
    <2> QED BY <1>3, <2>1 DEF ReportStale, Quiet
  <1>4. CASE ReleaseLease(t)
    BY <1>4, AttemptMoves DEF ReleaseLease, Quiet, history
  <1>5. CASE AttemptDies(t)
    BY <1>5, AttemptMoves DEF AttemptDies, Quiet, history
  <1> QED BY <1>1, <1>2, <1>3, <1>4, <1>5

-----------------------------------------------------------------------------
(* What a step leaves as it was.                                             *)

\* The parts of the invariant, without unfolding it.
LEMMA Parts ==
    ASSUME IInv
    PROVE  /\ TypeOK /\ Bounded /\ LeasesBounded /\ OvertakenOK /\ now \in 0 .. MaxTime
           /\ DOMAIN rows \subseteq Inputs /\ DOMAIN leases \subseteq issued /\ issued \subseteq Tokens
           /\ DOMAIN attempts \subseteq issued
           /\ \A i \in DOMAIN rows :
                /\ RowOK(i) /\ rows[i] \in RowType
                /\ rows[i].token = NoToken <=> rows[i].deadline = Never
           /\ \A t \in DOMAIN leases : LeaseOK(t)
           /\ \A t \in DOMAIN attempts :
                attempts[t] \in AttemptType /\ InputOK(t) /\ AttemptOK(t) /\ WorkerOK(t)
PROOF BY DEF IInv, TypeOK

\* An attempt that does nothing, and whose row keeps its code if it still has
\* one.
LEMMA AttemptStays ==
    ASSUME IInv, NEW t \in DOMAIN attempts,
           attempts'[t].input = attempts[t].input,
           attempts'[t].step = attempts[t].step, attempts'[t].work = attempts[t].work,
           \A i \in Inputs : applied[i] > 0 => applied'[i] > 0,
           Holds(t)' => Holds(t) /\ rows'[attempts[t].input].code = rows[attempts[t].input].code
    PROVE  AttemptOK(t)'
PROOF
  <1>1. AttemptOK(t) /\ attempts[t].input \in Inputs \cup {Maintenance}
    BY Parts, AttemptFields
  <1>2. attempts[t].work = "ok" => attempts[t].input \in Inputs
    BY <1>1 DEF AttemptOK
  <1> QED BY <1>1, <1>2 DEF AttemptOK

\* The baselines before an attempt's input stay out of the way: those that come
\* later have higher numbers.
LEMMA InputStays ==
    ASSUME IInv, NEW t \in DOMAIN attempts, attempts'[t].input = attempts[t].input,
           delivered \subseteq delivered', now' \in Int, now' >= now,
           \A b \in Baselines \cap DOMAIN rows' :
                \/ b \in DOMAIN rows /\ rows'[b].created = rows[b].created
                \/ \A c \in Baselines \cap delivered : c < b
    PROVE  InputOK(t)'
PROOF
  <1>1. InputOK(t) /\ now \in Int /\ Retention \in Int /\ Baselines \subseteq Int
    BY Parts, Constants
  <1> SUFFICES ASSUME attempts[t].input # Maintenance
               PROVE  /\ attempts[t].input \in delivered'
                      /\ \A b \in Baselines \cap DOMAIN rows' :
                            attempts[t].input \in Baselines /\ b < attempts[t].input => Expired(b)'
    BY DEF InputOK
  <1>2. attempts[t].input \in delivered
    BY <1>1 DEF InputOK
  <1>3. ASSUME NEW b \in Baselines \cap DOMAIN rows', attempts[t].input \in Baselines,
               b < attempts[t].input
        PROVE  Expired(b)'
    <2>a. PICK c \in Baselines : c = attempts[t].input /\ c \in delivered /\ b < c
      BY <1>2, <1>3
    <2>b. b \in Int /\ c \in Int /\ ~(c < b)
      BY <1>1, <1>3, <2>a
    <2>1. b \in DOMAIN rows /\ rows'[b].created = rows[b].created
      BY <1>3, <2>a, <2>b
    <2>2. Expired(b)
      BY <1>1, <1>3, <2>1 DEF InputOK
    <2>3. rows[b].created \in Int
      BY <2>1, Parts, RowFields
    <2> QED BY <1>1, <2>1, <2>2, <2>3 DEF Expired
  <1> QED BY <1>2, <1>3

\* A worker that does nothing keeps its row unless it is evicted.
LEMMA WorkerStays ==
    ASSUME IInv, NEW t \in DOMAIN attempts, attempts'[t].input = attempts[t].input,
           attempts'[t].work = attempts[t].work, attempts[t].evicted => attempts'[t].evicted,
           t \in DOMAIN leases' => t \in DOMAIN leases,
           Holds(t) /\ ~attempts'[t].evicted => Holds(t)'
    PROVE  WorkerOK(t)'
PROOF
  <1>1. WorkerOK(t)
    BY Parts
  <1> QED BY <1>1 DEF WorkerOK

\* The same row, while its worker's lease is not renewed.
LEMMA RowStays ==
    ASSUME IInv, NEW i \in DOMAIN rows, rows'[i] = rows[i], applied'[i] = 0, i \notin discarded',
           i \in delivered', issued \subseteq issued', now' \in Int, now' >= now,
           rows[i].token \in DOMAIN leases' =>
                rows[i].token \in DOMAIN leases /\ leases'[rows[i].token] = leases[rows[i].token]
    PROVE  RowOK(i)'
PROOF
  <1>1. RowOK(i) /\ rows[i] \in RowType /\ now \in Int /\ RetryDelay \in Int /\ ClaimSeconds \in Int
    BY Parts, Constants
  <1>2. rows[i].next \in Int /\ rows[i].deadline \in Int
    BY <1>1, RowFields
  <1>3. Sound(rows[i])'
    BY <1>1, <1>2 DEF RowOK, Sound, Never
  <1> QED BY <1>1, <1>3 DEF RowOK

\* The history of what was received, applied and removed.
LEMMA HistoryStays ==
    ASSUME IInv, UNCHANGED <<applied, history>>, DOMAIN rows' = DOMAIN rows,
           now' \in Int, now' >= now, \A i \in DOMAIN rows : rows'[i].created = rows[i].created
    PROVE  Bounded' /\ NothingLost' /\ NoFalseDiscard' /\ AppliedAtMostOnce' /\ OvertakenOK'
PROOF
  <1>1. Bounded' /\ NothingLost' /\ NoFalseDiscard' /\ AppliedAtMostOnce'
    BY DEF IInv, Bounded, NothingLost, NoFalseDiscard, AppliedAtMostOnce, history
  <1>2. ASSUME NEW b \in overtaken \cap DOMAIN rows
        PROVE  Expired(b)'
    <2>1. Expired(b) /\ rows[b].created \in Int /\ now \in Int /\ Retention \in Int
      BY Parts, RowFields, Constants DEF OvertakenOK
    <2> QED BY <2>1 DEF Expired
  <1>3. OvertakenOK'
    BY <1>2, Parts DEF OvertakenOK, history
  <1> QED BY <1>1, <1>3

\* Leases are only given back.
LEMMA LeasesShrink ==
    ASSUME IInv, NEW S \in SUBSET DOMAIN leases, DOMAIN leases' = S, \A t \in S : leases'[t] = leases[t],
           now' \in Int, now' >= now
    PROVE  LeasesBounded' /\ \A t \in DOMAIN leases' : LeaseOK(t)'
PROOF
  <1>1. IsFiniteSet(DOMAIN leases) /\ Cardinality(DOMAIN leases) \in Nat /\ now \in Int
        /\ ClaimSeconds \in Int /\ MaxActive \in Int
    BY Parts, FiniteParts, Constants
  <1>2. Cardinality(S) <= Cardinality(DOMAIN leases) /\ Cardinality(S) \in Nat
    BY <1>1, FS_Subset, FS_CardinalityType
  <1>3. LeasesBounded'
    BY <1>1, <1>2, Parts DEF LeasesBounded
  <1>4. \A t \in S : LeaseOK(t)
    BY Parts
  <1> QED BY <1>1, <1>3, <1>4 DEF LeaseOK

-----------------------------------------------------------------------------
(* The attempts' own steps.                                                  *)

\* Such a step keeps the invariant.
LEMMA QuietKeeps ==
    ASSUME IInv, NEW t \in DOMAIN attempts, Quiet(t)
    PROVE  IInv'
PROOF
  <1>1. /\ now \in Int /\ now' = now /\ rows' = rows /\ issued' = issued /\ applied' = applied
        /\ delivered' = delivered /\ removed' = removed /\ overtaken' = overtaken
        /\ binding' = binding /\ accepted' = accepted
    BY Parts DEF Quiet
  <1>2. /\ attempts[t] \in AttemptType /\ AttemptOK(t) /\ InputOK(t) /\ WorkerOK(t)
        /\ attempts[t].input \in Inputs \cup {Maintenance}
        /\ attempts[t].work \in {"running", "ok", "err"}
    BY Parts, AttemptFields
  <1>3. /\ DOMAIN leases' \subseteq DOMAIN leases
        /\ \A u \in DOMAIN leases' : leases'[u] = leases[u]
    BY DEF Quiet, Without
  <1>4. LeasesBounded' /\ \A u \in DOMAIN leases' : LeaseOK(u)'
    BY <1>1, <1>3, LeasesShrink
  <1>5. \/ discarded' = discarded
        \/ /\ attempts[t].input \in Inputs /\ attempts[t].input \notin DOMAIN rows
           /\ applied[attempts[t].input] = 0 /\ discarded' = discarded \cup {attempts[t].input}
    <2>1. ASSUME attempts[t].step = "stale", ~WasCompleted(attempts[t].input)
          PROVE  attempts[t].input \in Inputs /\ applied[attempts[t].input] = 0
      <3>1. attempts[t].input \in Inputs
        BY <1>2, <2>1 DEF AttemptOK
      <3>2. applied[attempts[t].input] \in Nat
        BY <3>1, Parts DEF TypeOK
      <3> QED BY <2>1, <3>1, <3>2 DEF WasCompleted
    <2> QED BY <2>1 DEF Quiet
  <1>6. /\ DOMAIN attempts' \subseteq DOMAIN attempts
        /\ \A u \in DOMAIN attempts' : attempts'[u] \in AttemptType
        /\ \A u \in DOMAIN attempts' : u # t => attempts'[u] = attempts[u]
    BY Parts DEF Quiet, Moved, Ended
  <1>7. TypeOK'
    <2>1. delivered' \cup removed' \cup discarded' \subseteq Inputs
      BY <1>1, <1>5, Parts DEF TypeOK
    <2> QED BY <1>1, <1>3, <1>6, <2>1, Parts DEF TypeOK
  <1>8. \A i \in DOMAIN rows' : RowOK(i)'
    <2>1. ASSUME NEW i \in DOMAIN rows PROVE RowOK(i)'
      <3>1. applied'[i] = 0 /\ i \notin discarded' /\ i \in delivered'
        BY <1>1, <1>5, Parts DEF RowOK
      <3> QED BY <1>1, <1>3, <3>1, RowStays
    <2> QED BY <1>1, <2>1
  <1>9. ASSUME NEW u \in DOMAIN attempts', u # t PROVE InputOK(u)' /\ AttemptOK(u)' /\ WorkerOK(u)'
    <2>1. u \in DOMAIN attempts /\ attempts'[u] = attempts[u]
      BY <1>6, <1>9
    <2>2. Holds(u)' <=> Holds(u)
      BY <1>1, <2>1 DEF Holds
    <2>3. AttemptOK(u)'
      BY <1>1, <2>1, <2>2, AttemptStays
    <2>4. InputOK(u)'
      BY <1>1, <2>1, InputStays
    <2>5. WorkerOK(u)'
      BY <1>3, <2>1, <2>2, WorkerStays
    <2> QED BY <2>3, <2>4, <2>5
  <1>10. ASSUME t \in DOMAIN attempts' PROVE InputOK(t)' /\ AttemptOK(t)' /\ WorkerOK(t)'
    <2>1. ~Ended(t)
      BY <1>10 DEF Ended
    <2>2. attempts'[t].input = attempts[t].input /\ attempts'[t].evicted = attempts[t].evicted
      BY <2>1 DEF Quiet, Moved
    <2>3. Holds(t)' <=> Holds(t)
      BY <1>1, <2>2 DEF Holds
    <2>4. InputOK(t)'
      BY <1>1, <2>2, InputStays
    <2>5. attempts'[t].work = "running" => attempts[t].work = "running"
      BY <2>1 DEF Quiet, Moved
    <2>6. WorkerOK(t)'
      BY <1>2, <1>3, <2>2, <2>3, <2>5 DEF WorkerOK
    <2>7. AttemptOK(t)'
      <3>1. ASSUME Failed(t) PROVE attempts[t].input # Maintenance /\ attempts[t].work # "running"
        BY <1>2, <3>1 DEF Failed, Finished, AttemptOK
      <3>2. CASE Moved(t, attempts[t].step, "err") /\ attempts[t].input # Maintenance
        BY <1>1, <1>2, <2>2, <2>3, <3>2 DEF Moved, AttemptOK
      <3>3. CASE Moved(t, "unparked", attempts[t].work) /\ attempts[t].input # Maintenance
        BY <1>1, <1>2, <2>2, <2>3, <3>3 DEF Moved, AttemptOK
      <3>4. CASE Moved(t, "superseded", attempts[t].work) /\ attempts[t].work # "running"
        BY <1>1, <1>2, <2>2, <2>3, <3>4 DEF Moved, AttemptOK
      <3>5. ASSUME NEW s \in {"timed_out", "stale"}, Moved(t, s, attempts[t].work), Failed(t)
            PROVE  AttemptOK(t)'
        BY <1>1, <1>2, <2>2, <2>3, <3>1, <3>5 DEF Moved, AttemptOK
      <3>6. CASE Moved(t, "reported", attempts[t].work) /\ attempts[t].step \in {"stale", "timed_out"}
        BY <1>1, <1>2, <2>2, <2>3, <3>6 DEF Moved, AttemptOK
      <3> QED BY <2>1, <3>2, <3>3, <3>4, <3>5, <3>6 DEF Quiet
    <2> QED BY <2>4, <2>6, <2>7
  <1>11. Bounded' /\ NothingLost' /\ AppliedAtMostOnce' /\ OvertakenOK'
    BY <1>1, Parts DEF IInv, Bounded, NothingLost, AppliedAtMostOnce, OvertakenOK, Expired
  <1>12. NoFalseDiscard'
    BY <1>1, <1>5 DEF IInv, NoFalseDiscard
  <1> QED BY <1>4, <1>7, <1>8, <1>9, <1>10, <1>11, <1>12 DEF IInv

\* A write of attempt t to the row it holds; the row stays its own or is freed.
LEMMA HolderKeeps ==
    ASSUME IInv, NEW t \in DOMAIN attempts, Holds(t), NEW r \in RowType,
           Written(attempts[t].input, r), r.created = rows[attempts[t].input].created,
           r.token = NoToken <=> r.deadline = Never, Sound(r),
           \/ /\ r.token = t /\ r.deadline = NewLease /\ leases' = leases
              /\ r.code = "timeout" /\ attempts[t].step = "working"
              /\ Moved(t, "parked", attempts[t].work)
           \/ /\ r.token = NoToken /\ attempts[t].work # "running"
              /\ \/ leases' = leases /\ Moved(t, "released", attempts[t].work)
                    /\ attempts[t].input # Maintenance
                 \/ leases' = Without(leases, {t}) /\ Ended(t),
           UNCHANGED <<now, issued, binding, accepted, applied, history>>
    PROVE  IInv'
PROOF
  <1>0. PICK i : i = attempts[t].input
    OBVIOUS
  <1>1. /\ i \in DOMAIN rows /\ rows[i].token = t /\ i \in Inputs /\ i # Maintenance
        /\ t \in Tokens /\ t # NoToken /\ t \in issued
    BY <1>0, Parts, Constants DEF Holds
  <1>2. /\ DOMAIN rows' = DOMAIN rows /\ rows'[i] = r /\ r.created = rows[i].created
        /\ \A j \in DOMAIN rows \ {i} : rows'[j] = rows[j]
    BY <1>0 DEF Written
  <1>3. /\ now \in Int /\ now' = now /\ issued' = issued /\ applied' = applied
        /\ delivered' = delivered /\ removed' = removed /\ overtaken' = overtaken
        /\ binding' = binding /\ accepted' = accepted /\ discarded' = discarded
    BY Parts DEF history
  <1>4. \A j \in DOMAIN rows : rows'[j].created = rows[j].created
    BY <1>2
  <1>5. /\ attempts[t] \in AttemptType /\ AttemptOK(t) /\ WorkerOK(t) /\ RowOK(i)
    BY <1>1, Parts
  <1>6. attempts[t].work # "ok"
    <2>1. applied[i] = 0
      BY <1>5 DEF RowOK
    <2> QED BY <1>0, <1>5, <2>1 DEF AttemptOK
  <1>7. /\ DOMAIN leases' \subseteq DOMAIN leases
        /\ \A u \in DOMAIN leases' : leases'[u] = leases[u]
    BY DEF Without
  <1>8. LeasesBounded' /\ \A u \in DOMAIN leases' : LeaseOK(u)'
    BY <1>3, <1>7, LeasesShrink
  <1>9. Bounded' /\ NothingLost' /\ NoFalseDiscard' /\ AppliedAtMostOnce' /\ OvertakenOK'
    BY <1>2, <1>3, <1>4, HistoryStays
  <1>10. /\ DOMAIN attempts' \subseteq DOMAIN attempts
         /\ \A u \in DOMAIN attempts' : attempts'[u] \in AttemptType
         /\ \A u \in DOMAIN attempts' : u # t => attempts'[u] = attempts[u]
    BY Parts DEF Moved, Ended
  <1>11. TypeOK'
    <2>1. \A j \in DOMAIN rows' : rows'[j] \in RowType /\ (rows'[j].token = NoToken <=> rows'[j].deadline = Never)
      BY <1>2, Parts
    <2> QED BY <1>2, <1>3, <1>7, <1>10, <2>1, Parts DEF TypeOK
  <1>12. ASSUME NEW j \in DOMAIN rows PROVE RowOK(j)'
    <2>1. applied'[j] = 0 /\ j \notin discarded' /\ j \in delivered'
      BY <1>3, Parts DEF RowOK
    <2>2. CASE j # i
      <3>1. rows'[j] = rows[j]
        BY <1>2, <2>2
      <3> QED BY <1>3, <1>7, <2>1, <3>1, RowStays
    <2>3. CASE j = i
      <3>1. Sound(r)'
        BY <1>3 DEF Sound
      <3>2. r.token \in DOMAIN leases' => leases'[r.token] <= r.deadline
        <4>1. NoToken \notin DOMAIN leases'
          BY <1>7, Parts, Constants
        <4>2. ASSUME t \in DOMAIN leases' PROVE leases'[t] <= NewLease
          <5>1. leases'[t] = leases[t] /\ LeaseOK(t)
            BY <1>7, <4>2, Parts
          <5> QED BY <5>1 DEF LeaseOK, NewLease
        <4> QED BY <4>1, <4>2
      <3> QED BY <1>1, <1>2, <1>3, <2>1, <2>3, <3>1, <3>2 DEF RowOK
    <2> QED BY <2>2, <2>3
  <1>13. ASSUME NEW u \in DOMAIN attempts', u # t PROVE InputOK(u)' /\ AttemptOK(u)' /\ WorkerOK(u)'
    <2>1. u \in DOMAIN attempts /\ attempts'[u] = attempts[u] /\ u \in Tokens
      BY <1>10, <1>13, Parts
    <2>2. Holds(u)' <=> Holds(u)
      <3>1. CASE attempts[u].input = i
        BY <1>1, <1>2, <1>13, <2>1, <3>1, Constants DEF Holds
      <3>2. CASE attempts[u].input # i
        BY <1>2, <2>1, <3>2 DEF Holds
      <3> QED BY <3>1, <3>2
    <2>3. Holds(u) => rows'[attempts[u].input] = rows[attempts[u].input]
      BY <1>1, <1>2, <1>13 DEF Holds
    <2>4. AttemptOK(u)'
      BY <1>3, <2>1, <2>2, <2>3, AttemptStays
    <2>5. InputOK(u)'
      BY <1>2, <1>3, <1>4, <2>1, InputStays
    <2>6. WorkerOK(u)'
      BY <1>7, <2>1, <2>2, WorkerStays
    <2> QED BY <2>4, <2>5, <2>6
  <1>14. ASSUME t \in DOMAIN attempts' PROVE InputOK(t)' /\ AttemptOK(t)' /\ WorkerOK(t)'
    <2>1. ~Ended(t)
      BY <1>14 DEF Ended
    <2>2. attempts'[t].input = i /\ attempts'[t].work = attempts[t].work
      BY <1>0, <2>1 DEF Moved
    <2>3. InputOK(t)'
      BY <1>0, <1>2, <1>3, <1>4, <2>2, InputStays
    <2>4. CASE r.token = t
      <3>1. r.code = "timeout" /\ attempts'[t].step = "parked"
        BY <1>1, <2>4 DEF Moved
      <3>2. Holds(t)'
        BY <1>1, <1>2, <2>2, <2>4 DEF Holds
      <3>3. AttemptOK(t)'
        BY <1>1, <1>2, <1>6, <2>2, <3>1 DEF AttemptOK
      <3>4. WorkerOK(t)'
        BY <3>2 DEF WorkerOK
      <3> QED BY <2>3, <3>3, <3>4
    <2>5. CASE r.token = NoToken
      <3>1. attempts'[t].step = "released" /\ attempts[t].work # "running"
        BY <1>1, <2>1, <2>5 DEF Moved
      <3>2. AttemptOK(t)'
        BY <1>1, <1>6, <2>2, <3>1 DEF AttemptOK
      <3>3. WorkerOK(t)'
        BY <2>2, <3>1 DEF WorkerOK
      <3> QED BY <2>3, <3>2, <3>3
    <2> QED BY <2>4, <2>5
  <1> QED BY <1>2, <1>8, <1>9, <1>11, <1>12, <1>13, <1>14 DEF IInv

\* park_timeout, release_timeout and fail_claim.
LEMMA TimeoutKeeps ==
    ASSUME IInv, NEW t \in DOMAIN attempts,
           \/ ParkTimeout(t) \/ ReleaseTimeout(t)
           \/ \E code \in FailureCodes : FailClaim(t, code)
    PROVE  IInv'
PROOF
  <1>0. TypeOK /\ now \in 0 .. MaxTime /\ AttemptOK(t)
    BY Parts
  <1>1. PICK i : i = attempts[t].input
    OBVIOUS
  <1>2. ASSUME Holds(t)
        PROVE  /\ i \in DOMAIN rows /\ rows[i].token = t /\ t # NoToken /\ rows[i] \in RowType
               /\ i # Maintenance /\ RowOK(i)
    BY <1>1, <1>2, Parts, Constants DEF Holds
  <1>3. CASE ParkTimeout(t)
    <2>1. CASE rows' = rows /\ Moved(t, "unparked", attempts[t].work)
      <3>1. Quiet(t)
        BY <1>0, <1>3, <2>1, ParkFacts DEF Quiet, history
      <3> QED BY <3>1, QuietKeeps
    <2>2. CASE Holds(t) /\ Written(i, Parked(rows[i])) /\ Moved(t, "parked", attempts[t].work)
      <3>1. PICK r : r = Parked(rows[i])
        OBVIOUS
      <3>2. /\ r \in RowType /\ r.created = rows[i].created /\ r.token = t /\ r.deadline = NewLease
            /\ r.code = "timeout" /\ r.next = Never /\ NewLease \in Nat
        BY <1>0, <1>2, <2>2, <3>1, Writes
      <3>3. Sound(r) /\ (r.token = NoToken <=> r.deadline = Never)
        BY <1>0, <1>2, <2>2, <3>2, Constants DEF Sound, Never, NewLease, NoRetry
      <3>4. /\ UNCHANGED <<now, issued, binding, accepted, applied, history>> /\ leases' = leases
            /\ attempts[t].step = "working"
        BY <1>0, <1>3, ParkFacts
      <3>5. Written(attempts[t].input, r) /\ r.created = rows[attempts[t].input].created
        BY <1>1, <2>2, <3>1, <3>2
      <3> QED BY <2>2, <3>2, <3>3, <3>4, <3>5, HolderKeeps
    <2> QED BY <1>0, <1>1, <1>3, <2>1, <2>2, ParkFacts
  <1>4. CASE ReleaseTimeout(t)
    <2>1. CASE rows' = rows /\ Moved(t, "superseded", attempts[t].work)
      <3>1. Quiet(t)
        BY <1>0, <1>4, <2>1, ReleaseFacts DEF Quiet, history
      <3> QED BY <3>1, QuietKeeps
    <2>2. CASE /\ Holds(t) /\ rows[i].code = "timeout" /\ Written(i, Released(rows[i]))
               /\ Moved(t, "released", attempts[t].work)
      <3>1. PICK r : r = Released(rows[i])
        OBVIOUS
      <3>2. /\ r \in RowType /\ r.created = rows[i].created /\ r.token = NoToken /\ r.deadline = Never
            /\ r.code = "timeout" /\ r.next = now + RetryDelay
        BY <1>0, <1>2, <2>2, <3>1, Writes
      <3>3. Sound(r) /\ (r.token = NoToken <=> r.deadline = Never)
        BY <1>0, <3>2, Constants DEF Sound, Never, NoRetry
      <3>4. /\ UNCHANGED <<now, issued, binding, accepted, applied, history>> /\ leases' = leases
            /\ attempts[t].work # "running"
        BY <1>0, <1>4, ReleaseFacts
      <3>5. Written(attempts[t].input, r) /\ r.created = rows[attempts[t].input].created
            /\ attempts[t].input # Maintenance
        BY <1>1, <1>2, <2>2, <3>1, <3>2
      <3> QED BY <2>2, <3>2, <3>3, <3>4, <3>5, HolderKeeps
    <2> QED BY <1>0, <1>1, <1>4, <2>1, <2>2, ReleaseFacts
  <1>5. ASSUME NEW code \in FailureCodes, FailClaim(t, code)
        PROVE  IInv'
    <2>1. /\ Failed(t) /\ Holds(t) /\ Written(i, Unclaimed(rows[i], code))
          /\ leases' = Without(leases, {t}) /\ Ended(t)
          /\ UNCHANGED <<now, issued, binding, accepted, applied, history>>
      BY <1>0, <1>1, <1>5, FailFacts
    <2>2. PICK r : r = Unclaimed(rows[i], code)
      OBVIOUS
    <2>3. /\ r \in RowType /\ r.created = rows[i].created /\ r.token = NoToken /\ r.deadline = Never
          /\ r.code = code /\ r.next = IF code \in NoRetry THEN Never ELSE now + RetryDelay
      BY <1>0, <1>2, <2>1, <2>2, Writes DEF Codes, FailureCodes
    <2>4. Sound(r) /\ (r.token = NoToken <=> r.deadline = Never)
      BY <1>0, <2>3, Constants DEF Sound, Never, NoRetry
    <2>5. attempts[t].work # "running"
      BY <1>0, <2>1 DEF Failed, Finished, AttemptOK
    <2>6. Written(attempts[t].input, r) /\ r.created = rows[attempts[t].input].created
      BY <1>1, <2>1, <2>2, <2>3
    <2> QED BY <2>1, <2>3, <2>4, <2>5, <2>6, HolderKeeps
  <1> QED BY <1>3, <1>4, <1>5

-----------------------------------------------------------------------------
(* The clock, retries, renewals and claims.                                  *)

\* The clock, a new binding, an accepted send and stuttering.
LEMMA StillKeeps ==
    ASSUME IInv, Tick \/ Rebind \/ (\E i \in OwnEcho \ accepted : AcceptSend(i)) \/ UNCHANGED vars
    PROVE  IInv'
PROOF
  <1>1. /\ rows' = rows /\ leases' = leases /\ attempts' = attempts /\ issued' = issued
        /\ applied' = applied /\ UNCHANGED history
    BY DEF Tick, Rebind, AcceptSend, vars, history
  <1>2. now' \in 0 .. MaxTime /\ now' >= now /\ now' \in Int
    BY Parts, Constants DEF Tick, Rebind, AcceptSend, vars
  <1>3. binding' \in 0 .. MaxBinding /\ accepted' \subseteq OwnEcho
    BY Parts, Constants DEF TypeOK, Tick, Rebind, AcceptSend, vars
  <1>4. TypeOK'
    BY <1>1, <1>2, <1>3, Parts DEF TypeOK, history
  <1>5. Bounded' /\ NothingLost' /\ NoFalseDiscard' /\ AppliedAtMostOnce' /\ OvertakenOK'
    BY <1>1, <1>2, HistoryStays
  <1>6. LeasesBounded' /\ \A u \in DOMAIN leases' : LeaseOK(u)'
    BY <1>1, <1>2, LeasesShrink
  <1>7. ASSUME NEW i \in DOMAIN rows PROVE RowOK(i)'
    <2>1. applied'[i] = 0 /\ i \notin discarded' /\ i \in delivered'
      BY <1>1, Parts DEF RowOK, history
    <2> QED BY <1>1, <1>2, <2>1, RowStays
  <1>8. ASSUME NEW t \in DOMAIN attempts PROVE InputOK(t)' /\ AttemptOK(t)' /\ WorkerOK(t)'
    <2>1. Holds(t)' <=> Holds(t)
      BY <1>1 DEF Holds
    <2>2. InputOK(t)'
      BY <1>1, <1>2, InputStays DEF history
    <2>3. AttemptOK(t)'
      BY <1>1, <2>1, AttemptStays
    <2> QED BY <1>1, <2>1, <2>2, <2>3, WorkerStays
  <1> QED BY <1>1, <1>4, <1>5, <1>6, <1>7, <1>8 DEF IInv

\* retry_event makes a row due that nobody holds.
LEMMA RetryKeeps ==
    ASSUME IInv, NEW i \in DOMAIN rows, RetryEvent(i)
    PROVE  IInv'
PROOF
  <1>1. /\ now' = now /\ leases' = leases /\ attempts' = attempts /\ issued' = issued
        /\ applied' = applied /\ UNCHANGED history /\ binding' = binding /\ accepted' = accepted
        /\ rows[i].token = NoToken /\ now \in Int /\ now \in 0 .. MaxTime
    BY Parts DEF RetryEvent
  <1>2. PICK r : r = DueNow(rows[i], "none")
    OBVIOUS
  <1>3. /\ DOMAIN rows' = DOMAIN rows /\ rows'[i] = r
        /\ \A j \in DOMAIN rows \ {i} : rows'[j] = rows[j]
    BY <1>2 DEF RetryEvent
  <1>4. /\ rows[i] \in RowType /\ RowOK(i) /\ rows[i].deadline = Never
    BY <1>1, Parts
  <1>5. /\ r \in RowType /\ r.created = rows[i].created /\ r.token = NoToken
        /\ r.deadline = Never /\ r.code = "none" /\ r.next = now
    BY <1>1, <1>2, <1>4, RetryWrite DEF Codes, FailureCodes
  <1>6. Sound(r)'
    BY <1>1, <1>5, Constants DEF Sound, Never, NoRetry
  <1>7. \A j \in DOMAIN rows : rows'[j].created = rows[j].created /\ rows'[j].token = rows[j].token
    BY <1>1, <1>3, <1>5
  <1>8. TypeOK'
    <2>1. \A j \in DOMAIN rows' : rows'[j] \in RowType /\ (rows'[j].token = NoToken <=> rows'[j].deadline = Never)
      BY <1>3, <1>5, Parts
    <2> QED BY <1>1, <1>3, <2>1, Parts DEF TypeOK, history
  <1>9. Bounded' /\ NothingLost' /\ NoFalseDiscard' /\ AppliedAtMostOnce' /\ OvertakenOK'
    BY <1>1, <1>3, <1>7, HistoryStays
  <1>10. LeasesBounded' /\ \A u \in DOMAIN leases' : LeaseOK(u)'
    BY <1>1, LeasesShrink
  <1>11. ASSUME NEW j \in DOMAIN rows PROVE RowOK(j)'
    <2>1. applied'[j] = 0 /\ j \notin discarded' /\ j \in delivered'
      BY <1>1, Parts DEF RowOK, history
    <2>2. CASE j # i
      BY <1>1, <1>3, <2>1, <2>2, RowStays
    <2>3. CASE j = i
      <3>1. NoToken \notin DOMAIN leases'
        BY <1>1, Parts, Constants
      <3> QED BY <1>3, <1>5, <1>6, <2>1, <2>3, <3>1 DEF RowOK
    <2> QED BY <2>2, <2>3
  <1>12. ASSUME NEW t \in DOMAIN attempts PROVE InputOK(t)' /\ AttemptOK(t)' /\ WorkerOK(t)'
    <2>1. Holds(t)' <=> Holds(t)
      BY <1>1, <1>3, <1>7 DEF Holds
    <2>2. Holds(t) => rows'[attempts[t].input] = rows[attempts[t].input]
      <3>1. t # NoToken
        BY Parts, Constants
      <3> QED BY <1>1, <1>3, <3>1 DEF Holds
    <2>3. InputOK(t)'
      BY <1>1, <1>3, <1>7, InputStays DEF history
    <2>4. AttemptOK(t)'
      BY <1>1, <2>1, <2>2, AttemptStays
    <2> QED BY <1>1, <2>1, <2>3, <2>4, WorkerStays
  <1> QED BY <1>1, <1>3, <1>8, <1>9, <1>10, <1>11, <1>12 DEF IInv

\* A renewal moves the lease and the row's deadline together.
LEMMA RenewKeeps ==
    ASSUME IInv, NEW p \in Processes, RenewClaims(p)
    PROVE  IInv'
PROOF
  <1>1. /\ now' = now /\ attempts' = attempts /\ issued' = issued
        /\ applied' = applied /\ UNCHANGED history /\ binding' = binding /\ accepted' = accepted
        /\ now \in Int /\ now \in 0 .. MaxTime
    BY Parts DEF RenewClaims
  <1>2. /\ DOMAIN leases' = DOMAIN leases
        /\ \A t \in DOMAIN leases : leases'[t] = IF t \in Jobs(p) THEN NewLease ELSE leases[t]
        /\ DOMAIN rows' = DOMAIN rows
        /\ \A i \in DOMAIN rows : rows'[i] = IF rows[i].token \in Jobs(p)
                                             THEN [rows[i] EXCEPT !.deadline = NewLease] ELSE rows[i]
    BY DEF RenewClaims
  <1>3. NoToken \notin Jobs(p) /\ NewLease \in Nat /\ NewLease = now + ClaimSeconds
    <2>1. NoToken \notin Jobs(p)
      BY Parts, Constants DEF Jobs
    <2> QED BY <1>1, <2>1, Constants DEF NewLease
  <1>4. ASSUME NEW i \in DOMAIN rows
        PROVE  /\ rows'[i] \in RowType /\ rows'[i].created = rows[i].created
               /\ rows'[i].token = rows[i].token /\ rows'[i].code = rows[i].code
               /\ rows'[i].next = rows[i].next
               /\ rows'[i].deadline = IF rows[i].token \in Jobs(p) THEN NewLease ELSE rows[i].deadline
    <2>1. rows[i] \in RowType
      BY Parts
    <2> QED BY <1>1, <1>2, <2>1, DeadlineWrite
  <1>5. TypeOK'
    <2>1. \A j \in DOMAIN rows' : rows'[j] \in RowType /\ (rows'[j].token = NoToken <=> rows'[j].deadline = Never)
      <3> SUFFICES ASSUME NEW j \in DOMAIN rows
                   PROVE  rows'[j] \in RowType /\ (rows'[j].token = NoToken <=> rows'[j].deadline = Never)
        BY <1>2
      <3>1. (rows[j].token = NoToken <=> rows[j].deadline = Never)
        BY Parts
      <3> QED BY <1>3, <1>4, <3>1 DEF Never
    <2> QED BY <1>1, <1>2, <2>1, Parts DEF TypeOK, history
  <1>6. Bounded' /\ NothingLost' /\ NoFalseDiscard' /\ AppliedAtMostOnce' /\ OvertakenOK'
    BY <1>1, <1>2, <1>4, HistoryStays
  <1>7. LeasesBounded'
    BY <1>2, Parts DEF LeasesBounded
  <1>8. ASSUME NEW t \in DOMAIN leases PROVE LeaseOK(t)'
    <2>1. LeaseOK(t)
      BY Parts
    <2> QED BY <1>1, <1>2, <1>3, <2>1 DEF LeaseOK
  <1>9. ASSUME NEW j \in DOMAIN rows PROVE RowOK(j)'
    <2>1. applied'[j] = 0 /\ j \notin discarded' /\ j \in delivered'
      BY <1>1, Parts DEF RowOK, history
    <2>2. RowOK(j) /\ rows[j] \in RowType
      BY Parts
    <2>3. Sound(rows[j])'
      BY <1>1, <1>3, <1>4, <2>2, RowFields DEF Sound, RowOK
    <2>4. rows[j].token \in DOMAIN leases => leases'[rows[j].token] <= rows'[j].deadline
      <3>1. CASE rows[j].token \in Jobs(p)
        BY <1>2, <1>3, <1>4, <3>1
      <3>2. CASE rows[j].token \notin Jobs(p)
        BY <1>2, <1>4, <2>2, <3>2 DEF RowOK
      <3> QED BY <3>1, <3>2
    <2> QED BY <1>1, <1>2, <1>4, <2>1, <2>2, <2>3, <2>4 DEF RowOK
  <1>10. ASSUME NEW t \in DOMAIN attempts PROVE InputOK(t)' /\ AttemptOK(t)' /\ WorkerOK(t)'
    <2>1. Holds(t)' <=> Holds(t)
      BY <1>1, <1>2, <1>4 DEF Holds
    <2>2. Holds(t) => rows'[attempts[t].input].code = rows[attempts[t].input].code
      BY <1>4 DEF Holds
    <2>3. InputOK(t)'
      BY <1>1, <1>2, <1>4, InputStays DEF history
    <2>4. AttemptOK(t)'
      BY <1>1, <2>1, <2>2, AttemptStays
    <2> QED BY <1>1, <1>2, <2>1, <2>3, <2>4, WorkerStays
  <1> QED BY <1>1, <1>2, <1>5, <1>6, <1>7, <1>8, <1>9, <1>10 DEF IInv

\* New leases next to the live ones stay within the limit.
LEMMA LeasesGrow ==
    ASSUME IInv, NEW ts \in SUBSET Tokens, now' = now,
           Cardinality(ts) <= MaxActive - Cardinality(LiveLeases),
           DOMAIN leases' = LiveLeases \cup ts,
           \A t \in ts : leases'[t] = NewLease, \A t \in LiveLeases : leases'[t] = leases[t]
    PROVE  LeasesBounded' /\ \A t \in DOMAIN leases' : LeaseOK(t)'
PROOF
  <1>1. LiveLeases \subseteq DOMAIN leases /\ DOMAIN leases \subseteq Tokens /\ now \in Int
    BY Parts DEF LiveLeases, LiveLeasesAt
  <1>2. /\ IsFiniteSet(LiveLeases) /\ IsFiniteSet(ts) /\ Cardinality(ts) \in Nat
        /\ Cardinality(LiveLeases) \in Nat /\ Cardinality(LiveLeases \cap ts) \in Nat
    BY <1>1, Parts, FiniteParts
  <1>3. Cardinality(LiveLeases \cup ts)
          = Cardinality(LiveLeases) + Cardinality(ts) - Cardinality(LiveLeases \cap ts)
    BY <1>2, FS_Union
  <1>4. LeasesBounded'
    BY <1>2, <1>3, Constants DEF LeasesBounded
  <1>5. \A t \in LiveLeases : LeaseOK(t)
    BY <1>1, Parts
  <1>6. NewLease \in Int /\ NewLease <= now + ClaimSeconds
    BY <1>1, Constants DEF NewLease
  <1>7. \A t \in DOMAIN leases' : LeaseOK(t)'
    BY <1>5, <1>6 DEF LeaseOK
  <1> QED BY <1>4, <1>7

\* A maintenance job takes a slot.
LEMMA ReserveKeeps ==
    ASSUME IInv, NEW p \in Processes, ReserveProcessingSlot(p)
    PROVE  IInv'
PROOF
  <1>1. /\ now' = now /\ rows' = rows /\ applied' = applied /\ UNCHANGED history
        /\ binding' = binding /\ accepted' = accepted /\ now \in Int /\ now \in 0 .. MaxTime
        /\ Cardinality(LiveLeases) < MaxActive
    BY Parts DEF ReserveProcessingSlot
  <1>2. PICK t \in Fresh :
        /\ leases' = [u \in LiveLeases \cup {t} |-> IF u = t THEN NewLease ELSE leases[u]]
        /\ attempts' = [u \in DOMAIN attempts \cup {t} |->
                            IF u = t THEN Attempt(p, Maintenance) ELSE attempts[u]]
        /\ issued' = issued \cup {t}
    BY DEF ReserveProcessingSlot
  <1>3. /\ t \in Tokens /\ t \notin issued /\ t \notin DOMAIN leases /\ t \notin DOMAIN attempts
        /\ LiveLeases \subseteq DOMAIN leases
    BY Parts DEF Fresh, LiveLeases, LiveLeasesAt
  <1>4. /\ DOMAIN leases' = LiveLeases \cup {t} /\ leases'[t] = NewLease
        /\ \A u \in LiveLeases : leases'[u] = leases[u]
        /\ DOMAIN attempts' = DOMAIN attempts \cup {t} /\ attempts'[t] = Attempt(p, Maintenance)
        /\ \A u \in DOMAIN attempts : attempts'[u] = attempts[u]
    BY <1>2, <1>3
  <1>5. LeasesBounded' /\ \A u \in DOMAIN leases' : LeaseOK(u)'
    <2>1. Cardinality({t}) = 1 /\ Cardinality(LiveLeases) \in Nat
      BY <1>3, FS_Singleton, FiniteParts, Parts
    <2>2. Cardinality({t}) <= MaxActive - Cardinality(LiveLeases)
      BY <1>1, <2>1, Constants
    <2> QED BY <1>1, <1>3, <1>4, <2>2, LeasesGrow
  <1>6. /\ Attempt(p, Maintenance) \in AttemptType /\ Attempt(p, Maintenance).input = Maintenance
        /\ Attempt(p, Maintenance).work = "running" /\ Attempt(p, Maintenance).step = "working"
    BY Parts, NewAttempt DEF TypeOK
  <1>7. TypeOK'
    <2>1. \A u \in DOMAIN attempts' : attempts'[u] \in AttemptType
      BY <1>4, <1>6, Parts
    <2> QED BY <1>1, <1>2, <1>3, <1>4, <2>1, Parts DEF TypeOK, history
  <1>8. Bounded' /\ NothingLost' /\ NoFalseDiscard' /\ AppliedAtMostOnce' /\ OvertakenOK'
    BY <1>1, HistoryStays
  <1>9. ASSUME NEW i \in DOMAIN rows PROVE RowOK(i)'
    <2>1. applied'[i] = 0 /\ i \notin discarded' /\ i \in delivered' /\ RowOK(i)
      BY <1>1, Parts DEF RowOK, history
    <2>2. CASE rows[i].token # t
      <3>1. rows[i].token \in DOMAIN leases' =>
                rows[i].token \in DOMAIN leases /\ leases'[rows[i].token] = leases[rows[i].token]
        BY <1>3, <1>4, <2>2
      <3> QED BY <1>1, <1>2, <2>1, <3>1, RowStays
    <2>3. CASE rows[i].token = t
      BY <1>3, <2>1, <2>3, Constants DEF RowOK
    <2> QED BY <2>2, <2>3
  <1>10. ASSUME NEW u \in DOMAIN attempts PROVE InputOK(u)' /\ AttemptOK(u)' /\ WorkerOK(u)'
    <2>1. attempts'[u] = attempts[u]
      BY <1>4
    <2>2. Holds(u)' <=> Holds(u)
      BY <1>1, <2>1 DEF Holds
    <2>3. InputOK(u)'
      BY <1>1, <2>1, InputStays DEF history
    <2>4. AttemptOK(u)'
      BY <1>1, <2>1, <2>2, AttemptStays
    <2>5. u # t /\ (u \in DOMAIN leases' => u \in DOMAIN leases)
      BY <1>3, <1>4
    <2> QED BY <2>1, <2>2, <2>3, <2>4, <2>5, WorkerStays
  <1>11. InputOK(t)' /\ AttemptOK(t)' /\ WorkerOK(t)'
    BY <1>4, <1>6 DEF InputOK, AttemptOK, WorkerOK
  <1> QED BY <1>1, <1>4, <1>5, <1>7, <1>8, <1>9, <1>10, <1>11 DEF IInv

\* A claim: a worker with a live lease keeps its row, because the row's
\* deadline is not before the lease's.
LEMMA ClaimKeeps ==
    ASSUME IInv, NEW p \in Processes, ClaimInputs(p)
    PROVE  IInv'
PROOF
  <1>1. PICK chosen \in SUBSET Due, ts \in SUBSET Fresh :
            /\ Cardinality(ts) <= MaxActive - Cardinality(LiveLeases)
            /\ DOMAIN rows' = DOMAIN rows
            /\ \A i \in DOMAIN rows \ chosen : rows'[i] = RowAtClaim(i)
            /\ \A i \in chosen :
                /\ i \in DOMAIN rows /\ rows'[i] \in RowType
                /\ rows'[i].created = rows[i].created
                /\ rows'[i].token \in ts /\ rows'[i].deadline = NewLease /\ rows'[i].code = "none"
                /\ rows'[i].next = IF RowAtClaim(i).next = Never THEN now ELSE RowAtClaim(i).next
            /\ DOMAIN leases' = LiveLeases \cup ts
            /\ \A t \in ts : leases'[t] = NewLease
            /\ \A t \in LiveLeases : leases'[t] = leases[t]
            /\ DOMAIN attempts' = DOMAIN attempts \cup ts
            /\ \A t \in DOMAIN attempts : attempts'[t] = attempts[t]
            /\ \A t \in ts : \E i \in chosen : rows'[i].token = t /\ attempts'[t] = Attempt(p, i)
            /\ issued' = issued \cup ts
            /\ UNCHANGED <<now, binding, accepted, applied, history>>
    BY Parts, ClaimFacts
  <1>2. /\ now' = now /\ binding' = binding /\ accepted' = accepted /\ applied' = applied
        /\ UNCHANGED history /\ now \in Int /\ now \in 0 .. MaxTime /\ TypeOK
    BY <1>1, Parts
  <1>3. /\ ts \subseteq Tokens /\ ts \cap issued = {} /\ NoToken \notin ts
        /\ LiveLeases \subseteq DOMAIN leases /\ DOMAIN leases \cap ts = {}
        /\ DOMAIN attempts \cap ts = {}
    BY Parts, Constants DEF Fresh, LiveLeases, LiveLeasesAt
  <1>4. NewLease \in Nat /\ NewLease = now + ClaimSeconds
    BY <1>2, Constants DEF NewLease
  <1>5. ASSUME NEW i \in DOMAIN rows
        PROVE  /\ RowAtClaim(i) \in RowType /\ RowAtClaim(i).created = rows[i].created
               /\ RowAtClaim(i).token = rows[i].token /\ RowAtClaim(i).deadline = rows[i].deadline
               /\ rows[i].token # NoToken => RowAtClaim(i) = rows[i]
               /\ Sound(RowAtClaim(i)) /\ RowOK(i)
               /\ rows[i].token = NoToken <=> rows[i].deadline = Never
    <2>1. RowOK(i) /\ Sound(rows[i])
      BY Parts DEF RowOK
    <2> QED BY <1>2, <2>1, AtClaim, Parts
  <1>6. \A i \in DOMAIN rows : rows'[i].created = rows[i].created
    BY <1>1, <1>5
  <1>7. LeasesBounded' /\ \A t \in DOMAIN leases' : LeaseOK(t)'
    BY <1>1, <1>2, <1>3, LeasesGrow
  <1>8. Bounded' /\ NothingLost' /\ NoFalseDiscard' /\ AppliedAtMostOnce' /\ OvertakenOK'
    BY <1>1, <1>2, <1>6, HistoryStays
  <1>9. ASSUME NEW t \in ts
        PROVE  \E i \in chosen :
                /\ rows'[i].token = t /\ attempts'[t] \in AttemptType /\ attempts'[t].input = i
                /\ attempts'[t].work = "running" /\ attempts'[t].step = "working"
    <2>1. PICK i \in chosen : rows'[i].token = t /\ attempts'[t] = Attempt(p, i)
      BY <1>1
    <2>2. i \in Inputs \cup {Maintenance} /\ binding \in 0 .. MaxBinding
      BY <1>1, <1>2, Parts DEF TypeOK
    <2>3. Attempt(p, i) \in AttemptType /\ Attempt(p, i).input = i
          /\ Attempt(p, i).work = "running" /\ Attempt(p, i).step = "working"
      BY <2>2, NewAttempt
    <2> QED BY <2>1, <2>3
  <1>10. TypeOK'
    <2>1. ASSUME NEW i \in DOMAIN rows
          PROVE  rows'[i] \in RowType /\ (rows'[i].token = NoToken <=> rows'[i].deadline = Never)
      <3>1. CASE i \in chosen
        BY <1>1, <1>3, <1>4, <3>1 DEF Never
      <3>2. CASE i \notin chosen
        BY <1>1, <1>5, <3>2
      <3> QED BY <3>1, <3>2
    <2>2. \A t \in DOMAIN attempts' : attempts'[t] \in AttemptType
      BY <1>1, <1>9, Parts
    <2>3. DOMAIN leases' \subseteq issued' /\ DOMAIN attempts' \subseteq issued' /\ issued' \subseteq Tokens
      BY <1>1, <1>3, Parts
    <2> QED BY <1>1, <1>2, <2>1, <2>2, <2>3, Parts DEF TypeOK, history
  <1>11. ASSUME NEW i \in DOMAIN rows PROVE RowOK(i)'
    <2>1. applied'[i] = 0 /\ i \notin discarded' /\ i \in delivered'
      BY <1>2, <1>5 DEF RowOK, history
    <2>2. CASE i \in chosen
      <3>1. rows'[i].next \in Int /\ rows'[i].next <= now + RetryDelay /\ rows'[i].next # Never
        <4>1. RowAtClaim(i).next \in Int /\ RowAtClaim(i).next <= now + RetryDelay
          BY <1>5, RowFields DEF Sound
        <4> QED BY <1>1, <1>2, <2>2, <4>1, Constants DEF Never
      <3>2. Sound(rows[i])'
        BY <1>1, <1>2, <1>4, <2>2, <3>1 DEF Sound, NoRetry
      <3>3. leases'[rows'[i].token] <= rows'[i].deadline /\ rows'[i].token \in issued'
        BY <1>1, <1>4, <2>2
      <3> QED BY <2>1, <3>2, <3>3 DEF RowOK
    <2>3. CASE i \notin chosen
      <3>1. rows'[i] = RowAtClaim(i)
        BY <1>1, <2>3
      <3>2. Sound(rows[i])'
        BY <1>2, <1>5, <3>1 DEF Sound
      <3>3. rows'[i].token \in issued' \cup {NoToken}
        BY <1>1, <1>5, <3>1 DEF RowOK
      <3>4. rows'[i].token \in DOMAIN leases' => leases'[rows'[i].token] <= rows'[i].deadline
        BY <1>1, <1>3, <1>5, <3>1 DEF RowOK
      <3> QED BY <2>1, <3>2, <3>3, <3>4 DEF RowOK
    <2> QED BY <2>2, <2>3
  <1>12. ASSUME NEW u \in DOMAIN attempts PROVE InputOK(u)' /\ AttemptOK(u)' /\ WorkerOK(u)'
    <2>1. attempts'[u] = attempts[u] /\ u \notin ts /\ u # NoToken
      BY <1>1, <1>3, Parts, Constants
    <2>2. Holds(u)' => Holds(u) /\ rows'[attempts[u].input] = rows[attempts[u].input]
      <3>1. ASSUME Holds(u)' PROVE Holds(u) /\ rows'[attempts[u].input] = rows[attempts[u].input]
        <4>1. PICK i \in DOMAIN rows : i = attempts[u].input /\ rows'[i].token = u
          BY <1>1, <2>1, <3>1 DEF Holds
        <4>2. i \notin chosen
          BY <1>1, <2>1, <4>1
        <4>3. rows'[i] = rows[i]
          BY <1>1, <1>5, <2>1, <4>1, <4>2
        <4> QED BY <4>1, <4>3 DEF Holds
      <3> QED BY <3>1
    <2>3. InputOK(u)'
      BY <1>1, <1>2, <1>6, <2>1, InputStays DEF history
    <2>4. AttemptOK(u)'
      BY <1>2, <2>1, <2>2, AttemptStays
    <2>5. ASSUME Holds(u), u \in DOMAIN leases' PROVE Holds(u)'
      <3>1. PICK i \in DOMAIN rows : i = attempts[u].input /\ rows[i].token = u
        BY <2>5 DEF Holds
      <3>2. u \in LiveLeases /\ leases[u] > now /\ u \in DOMAIN leases /\ leases[u] \in Int
        BY <1>1, <1>3, <2>1, <2>5, Parts DEF LiveLeases, LiveLeasesAt, LeaseOK
      <3>3. leases[u] <= rows[i].deadline /\ rows[i].deadline \in Int
        BY <1>5, <3>1, <3>2, Parts, RowFields DEF RowOK
      <3>4. ~ClaimFreeAt(i, now)
        BY <1>2, <2>1, <3>1, <3>2, <3>3 DEF ClaimFreeAt, LiveLeases
      <3>5. i \notin chosen
        BY <3>4 DEF Due
      <3>6. rows'[i] = rows[i]
        BY <1>1, <1>5, <2>1, <3>1, <3>5
      <3> QED BY <1>1, <2>1, <3>1, <3>6 DEF Holds
    <2>6. WorkerOK(u)'
      <3>1. WorkerOK(u) /\ (u \in DOMAIN leases' => u \in DOMAIN leases)
        BY <1>1, <1>3, <2>1, Parts
      <3> QED BY <2>1, <2>5, <3>1 DEF WorkerOK
    <2> QED BY <2>3, <2>4, <2>6
  <1>13. ASSUME NEW t \in ts PROVE InputOK(t)' /\ AttemptOK(t)' /\ WorkerOK(t)'
    <2>1. PICK i \in chosen :
            /\ rows'[i].token = t /\ attempts'[t].input = i
            /\ attempts'[t].work = "running" /\ attempts'[t].step = "working"
      BY <1>9
    <2>2. i \in DOMAIN rows /\ i \in Inputs /\ i # Maintenance /\ i \in delivered /\ ~BaselineWaits(i)
      BY <1>1, <1>5, <2>1, Parts, Constants DEF Due, RowOK
    <2>3. Holds(t)'
      BY <1>1, <2>1, <2>2 DEF Holds
    <2>4. InputOK(t)'
      <3>1. ASSUME NEW b \in Baselines \cap DOMAIN rows, i \in Baselines, b < i
            PROVE  Expired(b)'
        <4>1. Expired(b)
          BY <2>2, <3>1 DEF BaselineWaits
        <4> QED BY <1>2, <1>6, <4>1 DEF Expired
      <3> QED BY <1>1, <1>2, <2>1, <2>2, <3>1 DEF InputOK, history
    <2>5. AttemptOK(t)'
      BY <2>1, <2>2 DEF AttemptOK
    <2>6. WorkerOK(t)'
      BY <2>3 DEF WorkerOK
    <2> QED BY <2>4, <2>5, <2>6
  <1> QED BY <1>1, <1>7, <1>8, <1>10, <1>11, <1>12, <1>13 DEF IInv

-----------------------------------------------------------------------------
(* The commit of an attempt, and reception.                                  *)

\* A commit: the input goes from the rows to the applied, and what it overtakes
\* has expired.
LEMMA ApplyKeeps ==
    ASSUME IInv, NEW t \in DOMAIN attempts, ApplyClaim(t)
    PROVE  IInv'
PROOF
  <1>1. PICK i : i = attempts[t].input
    OBVIOUS
  <1>2. /\ attempts[t].work = "running" /\ RequireClaim(t) /\ MayProject(i)
        /\ applied' = [applied EXCEPT ![i] = @ + 1]
        /\ rows' = [j \in DOMAIN rows \ {i} |->
                        IF Woken(j, i) THEN [rows[j] EXCEPT !.next = now] ELSE rows[j]]
        /\ attempts' = [attempts EXCEPT ![t].work = "ok"]
        /\ overtaken' = overtaken \cup {b \in Baselines \cap DOMAIN rows :
                                        i \in Ordinary \/ (i \in Baselines /\ b < i)}
        /\ UNCHANGED <<now, leases, issued, binding, accepted, delivered, removed, discarded>>
    BY <1>1 DEF ApplyClaim
  <1>3. /\ i \in DOMAIN rows /\ rows[i].token = t /\ rows[i].code # "timeout" /\ RowOK(i)
        /\ i \in Inputs /\ i # Maintenance /\ applied[i] = 0 /\ i \notin discarded
        /\ Holds(t) /\ AttemptOK(t) /\ InputOK(t)
    BY <1>1, <1>2, Parts, Constants DEF RequireClaim, Holds, RowOK
  <1>4. /\ now \in Int /\ now \in 0 .. MaxTime /\ applied \in [Inputs -> Nat] /\ TypeOK
        /\ Retention \in Int /\ MaxTime \in Int
    BY Parts, Constants DEF TypeOK
  <1>5. /\ applied' \in [Inputs -> Nat] /\ applied'[i] = 1
        /\ \A j \in Inputs \ {i} : applied'[j] = applied[j]
    BY <1>2, <1>3, <1>4
  <1>6. DOMAIN rows' = DOMAIN rows \ {i}
    BY <1>2
  <1>7. ASSUME NEW j \in DOMAIN rows \ {i}
        PROVE  /\ rows'[j] \in RowType /\ rows'[j].created = rows[j].created
               /\ rows'[j].token = rows[j].token /\ rows'[j].deadline = rows[j].deadline
               /\ rows'[j].code = rows[j].code
               /\ rows'[j] = rows[j] \/ (rows'[j].next = now /\ rows[j].code = "awaits_scope")
    <2>1. rows[j] \in RowType
      BY Parts
    <2>2. CASE ~Woken(j, i)
      BY <1>2, <2>1, <2>2
    <2>3. CASE Woken(j, i)
      <3>1. rows'[j] = [rows[j] EXCEPT !.next = now] /\ rows[j].code = "awaits_scope"
        BY <1>2, <2>3 DEF Woken
      <3> QED BY <1>4, <2>1, <3>1, TimeWrite
    <2> QED BY <2>2, <2>3
  <1>8. Moved(t, attempts[t].step, "ok")
    BY <1>2, <1>4, AttemptMoves
  <1>9. TypeOK'
    <2>1. \A j \in DOMAIN rows' : rows'[j] \in RowType /\ (rows'[j].token = NoToken <=> rows'[j].deadline = Never)
      BY <1>6, <1>7, Parts
    <2>2. \A u \in DOMAIN attempts' : attempts'[u] \in AttemptType
      BY <1>8, Parts DEF Moved
    <2>3. overtaken' \subseteq Baselines /\ DOMAIN rows' \subseteq Inputs /\ DOMAIN attempts' \subseteq issued
      BY <1>2, <1>6, <1>8, Parts DEF TypeOK, Moved
    <2> QED BY <1>2, <1>4, <1>5, <2>1, <2>2, <2>3 DEF TypeOK
  <1>10. Bounded'
    <2>1. IsFiniteSet(DOMAIN rows) /\ Cardinality(DOMAIN rows) \in Nat /\ DOMAIN rows' \in SUBSET DOMAIN rows
      BY <1>4, <1>6, FiniteParts
    <2>2. Cardinality(DOMAIN rows') <= Cardinality(DOMAIN rows) /\ Cardinality(DOMAIN rows') \in Nat
      BY <2>1, FS_Subset, FS_CardinalityType
    <2> QED BY <2>1, <2>2, Parts, Constants DEF Bounded
  <1>11. LeasesBounded' /\ \A u \in DOMAIN leases' : LeaseOK(u)'
    BY <1>2, <1>4, LeasesShrink
  <1>12. NothingLost'
    <2>1. ASSUME NEW d \in delivered PROVE d \in DOMAIN rows' \/ (d \in Inputs /\ applied'[d] > 0) \/ d \in removed
      <3>1. d \in DOMAIN rows \/ (d \in Inputs /\ applied[d] > 0) \/ d \in removed
        BY DEF IInv, NothingLost
      <3> QED BY <1>3, <1>5, <1>6, <3>1
    <2> QED BY <1>2, <2>1 DEF NothingLost
  <1>13. NoFalseDiscard'
    BY <1>2, <1>3, <1>4, <1>5 DEF IInv, NoFalseDiscard, TypeOK
  <1>14. AppliedAtMostOnce'
    BY <1>5 DEF IInv, AppliedAtMostOnce
  <1>15. ASSUME NEW b \in Baselines \cap DOMAIN rows, i \in Ordinary \/ (i \in Baselines /\ b < i)
         PROVE  b # i /\ Expired(b) /\ b \in delivered
    <2>1. CASE i \in Ordinary
      BY <1>2, <1>15, <2>1, Constants, Parts DEF MayProject, RowOK
    <2>2. CASE i \in Baselines /\ b < i
      <3>1. b # i
        BY <2>2, <1>15, Constants
      <3> QED BY <1>1, <1>3, <1>15, <2>2, <3>1, Parts DEF InputOK, RowOK
    <2> QED BY <1>15, <2>1, <2>2
  <1>16. \A b \in DOMAIN rows' : Expired(b) => Expired(b)'
    BY <1>2, <1>6, <1>7 DEF Expired
  <1>17. OvertakenOK'
    <2>1. overtaken' \subseteq delivered'
      BY <1>2, <1>15, Parts DEF OvertakenOK
    <2>2. \A b \in overtaken' \cap DOMAIN rows' : Expired(b)'
      BY <1>2, <1>6, <1>15, <1>16, Parts DEF OvertakenOK
    <2>3. ASSUME NEW b \in overtaken', b \notin overtaken PROVE Retention <= MaxTime
      <3>1. b \in DOMAIN rows /\ Expired(b)
        BY <1>2, <1>15, <2>3
      <3>2. rows[b].created \in 0 .. MaxTime
        BY <3>1, Parts, RowFields
      <3> QED BY <1>4, <3>1, <3>2 DEF Expired
    <2>4. overtaken' # {} => Retention <= MaxTime
      <3>1. CASE overtaken = {}
        BY <2>3, <3>1
      <3>2. CASE overtaken # {}
        BY <3>2, Parts DEF OvertakenOK
      <3> QED BY <3>1, <3>2
    <2> QED BY <2>1, <2>2, <2>4 DEF OvertakenOK
  <1>18. ASSUME NEW j \in DOMAIN rows \ {i} PROVE RowOK(j)'
    <2>1. RowOK(j) /\ j \in Inputs
      BY Parts
    <2>2. Sound(rows[j])'
      <3>1. CASE rows'[j] = rows[j]
        BY <1>2, <2>1, <3>1 DEF Sound, RowOK
      <3>2. CASE rows'[j].next = now /\ rows[j].code = "awaits_scope"
        <4>1. now # Never /\ now <= now + RetryDelay
          BY <1>4, Constants DEF Never
        <4>2. rows[j].deadline <= now + ClaimSeconds
          BY <2>1 DEF RowOK, Sound
        <4> QED BY <1>2, <1>7, <3>2, <4>1, <4>2 DEF Sound, NoRetry
      <3> QED BY <1>7, <3>1, <3>2
    <2> QED BY <1>2, <1>5, <1>7, <2>1, <2>2 DEF RowOK
  <1>19. ASSUME NEW u \in DOMAIN attempts \ {t} PROVE InputOK(u)' /\ AttemptOK(u)' /\ WorkerOK(u)'
    <2>1. attempts'[u] = attempts[u]
      BY <1>8 DEF Moved
    <2>2. Holds(u)' => Holds(u) /\ rows'[attempts[u].input].code = rows[attempts[u].input].code
      BY <1>6, <1>7, <2>1 DEF Holds
    <2>3. Holds(u) => Holds(u)'
      BY <1>3, <1>6, <1>7, <2>1 DEF Holds
    <2>4. InputOK(u)'
      BY <1>2, <1>4, <1>6, <1>7, <2>1, InputStays
    <2>5. AttemptOK(u)'
      BY <1>4, <1>5, <2>1, <2>2, AttemptStays
    <2> QED BY <1>2, <2>1, <2>3, <2>4, <2>5, WorkerStays
  <1>20. InputOK(t)' /\ AttemptOK(t)' /\ WorkerOK(t)'
    <2>1. attempts'[t].input = i /\ attempts'[t].step = attempts[t].step /\ attempts'[t].work = "ok"
      BY <1>1, <1>8 DEF Moved
    <2>2. InputOK(t)'
      BY <1>1, <1>2, <1>4, <1>6, <1>7, <2>1, InputStays
    <2>3. attempts[t].step # "parked"
      BY <1>1, <1>3 DEF AttemptOK
    <2>4. AttemptOK(t)'
      BY <1>3, <1>5, <2>1, <2>3 DEF AttemptOK
    <2> QED BY <2>1, <2>2, <2>4 DEF WorkerOK
  <1>21. DOMAIN attempts' = DOMAIN attempts
    BY <1>8 DEF Moved
  <1> QED BY <1>6, <1>9, <1>10, <1>11, <1>12, <1>13, <1>14, <1>17, <1>18, <1>19, <1>20, <1>21 DEF IInv

\* Rows come in a transaction that may remove others.
LEMMA ExchangeKeeps ==
    ASSUME IInv, NEW batch \in SUBSET Inputs, NEW fresh \in SUBSET batch, NEW gone \in SUBSET DOMAIN rows,
           \A b \in batch \cap Baselines : \A c \in Baselines \cap delivered : c < b,
           \A i \in batch : i \in fresh <=> i \notin DOMAIN rows /\ applied[i] = 0,
           DOMAIN rows' = (DOMAIN rows \ gone) \cup fresh,
           \A i \in fresh : rows'[i] = NewRow,
           \A i \in DOMAIN rows \ gone : rows'[i] = rows[i],
           Cardinality(DOMAIN rows') <= MaxRecords,
           removed' = (removed \cup gone) \ fresh, Evict(gone),
           delivered' = delivered \cup batch, discarded' = discarded \ fresh,
           UNCHANGED <<now, leases, issued, binding, accepted, applied, overtaken>>
    PROVE  IInv'
PROOF
  <1>1. /\ now \in Int /\ now \in 0 .. MaxTime /\ now' = now /\ leases' = leases /\ issued' = issued
        /\ applied' = applied /\ overtaken' = overtaken /\ binding' = binding /\ accepted' = accepted
        /\ TypeOK /\ DOMAIN rows \subseteq Inputs
    BY Parts
  <1>2. /\ NewRow \in RowType /\ NewRow.created = now /\ NewRow.next = 0 /\ NewRow.token = NoToken
        /\ NewRow.deadline = Never /\ NewRow.code = "none"
    BY <1>1 DEF NewRow, RowType, Codes, FailureCodes, Never
  <1>3. /\ DOMAIN attempts' = DOMAIN attempts
        /\ \A t \in DOMAIN attempts :
                /\ attempts'[t] \in AttemptType
                /\ attempts'[t].input = attempts[t].input /\ attempts'[t].work = attempts[t].work
                /\ attempts'[t].step = attempts[t].step
                /\ attempts'[t].evicted = (attempts[t].evicted \/ attempts[t].input \in gone)
    BY <1>1, EvictFacts
  <1>4. TypeOK'
    <2>1. \A j \in DOMAIN rows' : rows'[j] \in RowType /\ (rows'[j].token = NoToken <=> rows'[j].deadline = Never)
      BY <1>2, Parts
    <2>2. delivered' \cup removed' \cup discarded' \subseteq Inputs /\ DOMAIN rows' \subseteq Inputs
      BY <1>1 DEF TypeOK
    <2> QED BY <1>1, <1>3, <2>1, <2>2 DEF TypeOK
  <1>5. Bounded' /\ NoFalseDiscard' /\ AppliedAtMostOnce'
    BY <1>1 DEF IInv, Bounded, NoFalseDiscard, AppliedAtMostOnce
  <1>6. NothingLost'
    <2>1. ASSUME NEW d \in delivered'
          PROVE  d \in DOMAIN rows' \/ (d \in Inputs /\ applied'[d] > 0) \/ d \in removed'
      <3>1. CASE d \in delivered
        <4>1. d \in DOMAIN rows \/ (d \in Inputs /\ applied[d] > 0) \/ d \in removed
          BY <3>1 DEF IInv, NothingLost
        <4> QED BY <1>1, <4>1
      <3>2. CASE d \in batch
        <4>1. d \in fresh \/ d \in DOMAIN rows \/ applied[d] # 0
          BY <3>2
        <4>2. applied[d] \in Nat /\ d \in Inputs
          BY <1>1, <3>2 DEF TypeOK
        <4> QED BY <1>1, <4>1, <4>2
      <3> QED BY <2>1, <3>1, <3>2
    <2> QED BY <2>1 DEF NothingLost
  <1>7. LeasesBounded' /\ \A u \in DOMAIN leases' : LeaseOK(u)'
    BY <1>1, LeasesShrink
  <1>8. \A b \in Baselines \cap fresh : \A c \in Baselines \cap delivered : c < b
    OBVIOUS
  <1>9. OvertakenOK'
    <2>1. OvertakenOK
      BY Parts
    <2>2. ASSUME NEW b \in overtaken \cap DOMAIN rows' PROVE Expired(b)'
      <3>1. b \in Baselines /\ b \in delivered /\ b \in Int
        BY <1>1, <2>1, <2>2, Constants DEF OvertakenOK, TypeOK
      <3>2. b \notin fresh
        BY <1>8, <3>1
      <3>3. b \in DOMAIN rows \ gone /\ Expired(b)
        BY <2>1, <2>2, <3>2 DEF OvertakenOK
      <3> QED BY <1>1, <3>3 DEF Expired
    <2> QED BY <1>1, <2>1, <2>2 DEF OvertakenOK
  <1>10. ASSUME NEW i \in DOMAIN rows' PROVE RowOK(i)'
    <2>1. CASE i \in fresh
      <3>1. applied'[i] = 0 /\ i \notin discarded' /\ i \in delivered' /\ rows'[i] = NewRow
        BY <1>1, <2>1
      <3>2. Sound(rows[i])'
        BY <1>1, <1>2, <3>1, Constants DEF Sound, Never, NoRetry
      <3>3. NoToken \notin DOMAIN leases'
        BY <1>1, Parts, Constants
      <3> QED BY <1>2, <3>1, <3>2, <3>3 DEF RowOK
    <2>2. CASE i \in DOMAIN rows \ gone
      <3>1. applied'[i] = 0 /\ i \notin discarded' /\ i \in delivered' /\ rows'[i] = rows[i]
        BY <1>1, <2>2, Parts DEF RowOK
      <3> QED BY <1>1, <2>2, <3>1, RowStays
    <2> QED BY <1>10, <2>1, <2>2
  <1>11. ASSUME NEW t \in DOMAIN attempts PROVE InputOK(t)' /\ AttemptOK(t)' /\ WorkerOK(t)'
    <2>1. t # NoToken
      BY Parts, Constants
    <2>2. Holds(t)' => Holds(t) /\ rows'[attempts[t].input].code = rows[attempts[t].input].code
      BY <1>2, <1>3, <2>1 DEF Holds
    <2>3. Holds(t) /\ ~attempts'[t].evicted => Holds(t)'
      BY <1>3 DEF Holds
    <2>4. InputOK(t)'
      <3>1. \A b \in Baselines \cap DOMAIN rows' :
                \/ b \in DOMAIN rows /\ rows'[b].created = rows[b].created
                \/ \A c \in Baselines \cap delivered : c < b
        BY <1>8
      <3> QED BY <1>1, <1>3, <3>1, InputStays
    <2>5. AttemptOK(t)'
      BY <1>1, <1>3, <2>2, AttemptStays
    <2>6. attempts[t].evicted => attempts'[t].evicted
      BY <1>3
    <2> QED BY <1>1, <1>3, <2>3, <2>4, <2>5, <2>6, WorkerStays
  <1> QED BY <1>3, <1>4, <1>5, <1>6, <1>7, <1>9, <1>10, <1>11 DEF IInv

\* Reception and purge.
LEMMA ReceiveKeeps ==
    ASSUME IInv, ReceiveOrdinary \/ ReceiveSecure \/ ReceiveBaseline \/ PurgeExpired
    PROVE  IInv'
PROOF
  <1>1. ASSUME NEW batch \in SUBSET Inputs, Receive(batch),
               \A b \in batch \cap Baselines : \A c \in Baselines \cap delivered : c < b
        PROVE  IInv'
    <2>1. PICK fresh \in SUBSET batch, gone \in SUBSET DOMAIN rows :
            /\ \A i \in batch : i \in fresh <=> i \notin DOMAIN rows /\ applied[i] = 0
            /\ DOMAIN rows' = (DOMAIN rows \ gone) \cup fresh
            /\ \A i \in fresh : rows'[i] = NewRow
            /\ \A i \in DOMAIN rows \ gone : rows'[i] = rows[i]
            /\ Cardinality(DOMAIN rows') <= MaxRecords
            /\ removed' = (removed \cup gone) \ fresh /\ Evict(gone)
            /\ delivered' = delivered \cup batch /\ discarded' = discarded \ fresh
            /\ UNCHANGED <<now, leases, issued, binding, accepted, applied, overtaken>>
      BY <1>1, Parts, ReceiveFacts
    <2> QED BY <1>1, <2>1, ExchangeKeeps
  <1>2. CASE ReceiveOrdinary
    <2>1. PICK batch \in SUBSET Ordinary : Receive(batch)
      BY <1>2 DEF ReceiveOrdinary
    <2>2. batch \in SUBSET Inputs /\ batch \cap Baselines = {}
      BY Constants
    <2> QED BY <1>1, <2>1, <2>2
  <1>3. CASE ReceiveSecure
    <2>1. PICK s \in Secure : Receive({s})
      BY <1>3 DEF ReceiveSecure
    <2>2. {s} \in SUBSET Inputs /\ {s} \cap Baselines = {}
      BY Constants
    <2> QED BY <1>1, <2>1, <2>2
  <1>4. CASE ReceiveBaseline
    <2>1. PICK b \in Baselines, events \in SUBSET Ordinary :
            Baselines \cap delivered = 1 .. b - 1 /\ Receive(events \cup {b})
      BY <1>4 DEF ReceiveBaseline
    <2>2. /\ events \cup {b} \in SUBSET Inputs /\ (events \cup {b}) \cap Baselines = {b} /\ b \in Nat
      BY <2>1, Constants
    <2>3. \A c \in Baselines \cap delivered : c < b
      BY <2>1, <2>2
    <2> QED BY <1>1, <2>1, <2>2, <2>3
  <1>5. CASE PurgeExpired
    <2>1. PICK gone \in OldestOf(ExpiredRows, CleanupBatch) :
            rows' = Without(rows, gone) /\ removed' = removed \cup gone /\ Evict(gone)
      BY <1>5 DEF PurgeExpired
    <2>2. gone \in SUBSET DOMAIN rows
      BY <2>1 DEF OldestOf, ExpiredRows
    <2>3. /\ UNCHANGED <<now, leases, issued, binding, accepted, applied, overtaken>>
          /\ delivered' = delivered /\ discarded' = discarded
      BY <1>5 DEF PurgeExpired
    <2>4. DOMAIN rows' = DOMAIN rows \ gone /\ \A i \in DOMAIN rows \ gone : rows'[i] = rows[i]
      BY <2>1 DEF Without
    <2>5. Cardinality(DOMAIN rows') <= MaxRecords
      <3>1. IsFiniteSet(DOMAIN rows) /\ Cardinality(DOMAIN rows) \in Nat /\ DOMAIN rows' \in SUBSET DOMAIN rows
        BY <2>4, FiniteParts, Parts
      <3>2. Cardinality(DOMAIN rows') <= Cardinality(DOMAIN rows) /\ Cardinality(DOMAIN rows') \in Nat
        BY <3>1, FS_Subset, FS_CardinalityType
      <3> QED BY <3>1, <3>2, Parts, Constants DEF Bounded
    <2>6. PICK batch : batch = {}
      OBVIOUS
    <2>7. /\ batch \in SUBSET Inputs /\ batch \in SUBSET batch
          /\ DOMAIN rows' = (DOMAIN rows \ gone) \cup batch
          /\ removed' = (removed \cup gone) \ batch
          /\ delivered' = delivered \cup batch /\ discarded' = discarded \ batch
          /\ \A i \in batch : rows'[i] = NewRow
          /\ \A i \in batch : i \in batch <=> i \notin DOMAIN rows /\ applied[i] = 0
          /\ \A b \in batch \cap Baselines : \A c \in Baselines \cap delivered : c < b
      BY <2>1, <2>3, <2>4, <2>6
    <2> QED BY <2>1, <2>2, <2>3, <2>4, <2>5, <2>7, ExchangeKeeps
  <1> QED BY <1>2, <1>3, <1>4, <1>5

\* An empty database satisfies the invariant.
LEMMA Initially ==
    ASSUME Init
    PROVE  IInv
PROOF
  <1>1. /\ DOMAIN rows = {} /\ DOMAIN leases = {} /\ DOMAIN attempts = {}
        /\ issued = {} /\ delivered = {} /\ removed = {} /\ discarded = {} /\ overtaken = {}
        /\ now = 0 /\ binding = 0 /\ accepted = {} /\ applied \in [Inputs -> Nat]
        /\ \A i \in Inputs : applied[i] = 0
    BY DEF Init, EmptyFunction
  <1>2. TypeOK
    BY <1>1, Constants DEF TypeOK
  <1>3. Cardinality({}) = 0
    BY FS_EmptySet
  <1>4. Bounded /\ LeasesBounded
    BY <1>1, <1>3, Constants DEF Bounded, LeasesBounded
  <1>5. NothingLost /\ NoFalseDiscard /\ AppliedAtMostOnce /\ OvertakenOK
    BY <1>1 DEF NothingLost, NoFalseDiscard, AppliedAtMostOnce, OvertakenOK
  <1> QED BY <1>1, <1>2, <1>4, <1>5 DEF IInv

-----------------------------------------------------------------------------
(* The theorems.                                                             *)

\* Whatever processes claim, renew, park, die and receive, rows and attempts
\* agree (sync_inbox.rs and run_claim).
THEOREM Invariant == Spec => []IInv
PROOF
  <1>1. Init => IInv
    BY Initially
  <1>2. IInv /\ [Next]_vars => IInv'
    <2> SUFFICES ASSUME IInv, [Next]_vars PROVE IInv'
      OBVIOUS
    <2>1. CASE ReceiveOrdinary \/ ReceiveSecure \/ ReceiveBaseline \/ PurgeExpired
      BY <2>1, ReceiveKeeps
    <2>2. ASSUME NEW p \in Processes, ClaimInputs(p) \/ ReserveProcessingSlot(p) \/ RenewClaims(p)
          PROVE  IInv'
      BY <2>2, ClaimKeeps, ReserveKeeps, RenewKeeps
    <2>3. ASSUME NEW t \in DOMAIN attempts,
                 \/ ApplyClaim(t) \/ WorkFails(t)
                 \/ ParkTimeout(t) \/ ReleaseTimeout(t)
                 \/ \E code \in FailureCodes : FailClaim(t, code)
                 \/ FailClaimRefused(t) \/ ReportStale(t)
                 \/ ReleaseLease(t) \/ AttemptDies(t)
          PROVE  IInv'
      BY <2>3, ApplyKeeps, TimeoutKeeps, QuietSteps, QuietKeeps, Parts
    <2>4. ASSUME NEW i \in DOMAIN rows, RetryEvent(i) PROVE IInv'
      BY <2>4, RetryKeeps
    <2>5. CASE Tick \/ Rebind \/ (\E i \in OwnEcho \ accepted : AcceptSend(i)) \/ UNCHANGED vars
      BY <2>5, StillKeeps
    <2> QED BY <2>1, <2>2, <2>3, <2>4, <2>5 DEF Next
  <1> QED BY <1>1, <1>2, PTL DEF Spec

\* However attempts overlap and however often an event is redelivered, its
\* effect is committed at most once (require_claim, complete_claim and the
\* applied-event receipts).
THEOREM CommittedOnce == Spec => []AppliedAtMostOnce
PROOF
  <1>1. IInv => AppliedAtMostOnce
    BY DEF IInv
  <1> QED BY <1>1, Invariant, PTL

\* An input whose receive transaction committed is retained, applied, or was
\* removed by retention or capacity.
THEOREM NoInputVanishes == Spec => []NothingLost
PROOF
  <1>1. IInv => NothingLost
    BY DEF IInv
  <1> QED BY <1>1, Invariant, PTL

\* sync.input_discarded is never reported for an input that was applied
\* (was_completed).
THEOREM HonestDiscard == Spec => []NoFalseDiscard
PROOF
  <1>1. IInv => NoFalseDiscard
    BY DEF IInv
  <1> QED BY <1>1, Invariant, PTL

\* An attempt parked for exceeding its time never commits afterwards:
\* require_claim refuses a parked row.
THEOREM ParkedStaysOut == Spec => []ParkedNeverApplies
PROOF
  <1>1. IInv => ParkedNeverApplies
    BY DEF IInv, AttemptOK, ParkedNeverApplies
  <1> QED BY <1>1, Invariant, PTL

\* A timeout alone never authorizes a replacement worker: two running attempts
\* on one input do not both hold a live lease unless a row was evicted.
THEOREM SingleWorker == Spec => []OneLeasedWorker
PROOF
  <1>1. IInv => OneLeasedWorker
    <2> SUFFICES ASSUME IInv, NEW t \in DOMAIN attempts, NEW u \in DOMAIN attempts,
                        t # u, attempts[t].input = attempts[u].input,
                        attempts[t].input # Maintenance,
                        attempts[t].work = "running", attempts[u].work = "running",
                        Leased(t), Leased(u), ~attempts[t].evicted, ~attempts[u].evicted
                 PROVE  FALSE
      BY DEF OneLeasedWorker
    <2>1. t \in DOMAIN leases /\ u \in DOMAIN leases /\ WorkerOK(t) /\ WorkerOK(u)
      BY Parts DEF Leased, LiveLeases, LiveLeasesAt
    <2>2. Holds(t) /\ Holds(u)
      BY <2>1 DEF WorkerOK
    <2> QED BY <2>2 DEF Holds
  <1> QED BY <1>1, Invariant, PTL

\* All processes together hold at most MAX_ACTIVE_INPUTS leases.
THEOREM WithinLeases == Spec => []LeasesBounded
PROOF
  <1>1. IInv => LeasesBounded
    BY DEF IInv
  <1> QED BY <1>1, Invariant, PTL

\* The inbox stays within MAX_INBOX_RECORDS, with every type correct
\* (make_room).
THEOREM WithinCapacity == Spec => []InboxBounded
PROOF
  <1>1. IInv => InboxBounded
    BY DEF IInv, Bounded, InboxBounded
  <1> QED BY <1>1, Invariant, PTL

\* Wherever its attempts died, a row whose last error has a retry time, or that is
\* the blocked echo of a stored send, is due and free to claim after CLAIM_SECONDS
\* and the retry delay.
THEOREM DueAgain == Spec => []NoRowStranded
PROOF
  <1>1. IInv => NoRowStranded
    <2> SUFFICES ASSUME IInv, NEW i \in DOMAIN rows,
                        rows[i].code # "terminal",
                        ~(rows[i].code = "blocked" /\ i \notin OwnEcho \cap accepted)
                 PROVE  DueAt(i, Horizon) /\ ClaimFreeAt(i, Horizon)
      BY DEF NoRowStranded
    <2>1. /\ RowOK(i) /\ Sound(rows[i]) /\ rows[i] \in RowType /\ now \in 0 .. MaxTime
          /\ Horizon \in Int /\ Horizon >= now + ClaimSeconds /\ Horizon >= now + RetryDelay
          /\ RetryDelay \in Nat /\ ClaimSeconds \in Nat /\ now \in Int
      BY Parts, Constants DEF Horizon, RowOK
    <2>2. rows[i].next \in Int /\ rows[i].deadline \in Int
      BY <2>1, RowFields
    <2>3. ClaimFreeAt(i, Horizon)
      BY <2>1, <2>2 DEF ClaimFreeAt, Sound
    <2>4. CASE Requeued(i)
      <3>1. RowAtClaim(i).next = now
        BY <2>1, <2>4, RetryWrite DEF RowAtClaim, Codes, FailureCodes
      <3> QED BY <2>1, <2>3, <3>1 DEF DueAt, Never
    <2>5. CASE ~Requeued(i)
      <3>1. RowAtClaim(i) = rows[i] /\ rows[i].code \notin NoRetry
        BY <2>1, <2>5 DEF RowAtClaim, Requeued, Sound, NoRetry
      <3>2. CASE rows[i].next # Never
        BY <2>1, <2>2, <2>3, <3>1, <3>2 DEF DueAt, Sound
      <3>3. CASE rows[i].next = Never
        <4>1. rows[i].code = "timeout" /\ rows[i].token # NoToken
          BY <2>1, <3>1, <3>3 DEF Sound
        <4>2. rows[i].token \notin LiveLeasesAt(Horizon)
          <5> SUFFICES ASSUME rows[i].token \in DOMAIN leases, leases[rows[i].token] > Horizon
                       PROVE  FALSE
            BY DEF LiveLeasesAt
          <5>1. LeaseOK(rows[i].token)
            BY Parts
          <5> QED BY <2>1, <5>1 DEF LeaseOK
        <4> QED BY <2>3, <3>1, <4>1, <4>2 DEF DueAt
      <3> QED BY <3>2, <3>3
    <2> QED BY <2>4, <2>5
  <1> QED BY <1>1, Invariant, PTL

\* Only a baseline that has reached the end of its retention is overtaken.
LateBaselinesOnly == \A b \in overtaken \cap DOMAIN rows : Expired(b)

\* Nothing is projected over a waiting baseline that has not reached the end of
\* its retention (apply_ordinary_claim_with, claim_inputs).
THEOREM OnlyLateBaselines == Spec => []LateBaselinesOnly
PROOF
  <1>1. IInv => LateBaselinesOnly
    BY DEF IInv, OvertakenOK, LateBaselinesOnly
  <1> QED BY <1>1, Invariant, PTL

\* As long as no row reaches the end of its retention, no baseline is applied
\* after something overtook it.
THEOREM BaselinesFirst == Retention > MaxTime => (Spec => []BaselineNotOvertaken)
PROOF
  <1>1. ASSUME Retention > MaxTime PROVE IInv => BaselineNotOvertaken
    BY <1>1, Constants DEF IInv, OvertakenOK, BaselineNotOvertaken
  <1>2. ASSUME Retention > MaxTime PROVE Spec => []BaselineNotOvertaken
    BY <1>1, <1>2, Invariant, PTL
  <1> QED BY <1>2
=============================================================================
