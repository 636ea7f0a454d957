------------------------- MODULE FinalOutboxProofs -------------------------
(* Proofs about FinalOutbox, for every set of runs and workers, finite in    *)
(* the case of the workers, and all bounds.                                  *)
(*                                                                           *)
(* Each copy the service may still accept needs a token: the row, while it   *)
(* may be claimed without a further fault, or a flight that carries the      *)
(* reply.  A fault adds at most one.  Attempts beyond the limit are paid for *)
(* by copies that were listed with an older count.                           *)
EXTENDS FinalOutbox, Integers, FiniteSetTheorems, TLAPS

\* 1 where x holds, 0 where it does not.
Ind(x) == IF x THEN 1 ELSE 0

\* Flusher f is sending the reply of run r, or was told that it failed.
Carries(f, r) == fl[f].pc \in {"send", "err"} /\ fl[f].run = {r}

\* The attempt count f compares for this send is below the limit.
CarriesOld(f, r) == Carries(f, r) /\ fl[f].n + 1 < MaxAttempts

\* f has still to claim r with a count below the limit.
HoldsOld(f, r) == \E x \in fl[f].todo : x.run = r /\ x.n + 1 < MaxAttempts

Flights(r) == {f \in Flushers : Carries(f, r)}
OldFlights(r) == {f \in Flushers : CarriesOld(f, r)}
OldCopies(r) == {f \in Flushers : HoldsOld(f, r)}

\* The row may still be claimed without a further fault.
Claimable(r) ==
    \/ row[r].status \in {"none", "pending"}
    \/ row[r].status = "sending" /\ (row[r].stale \/ ~InFlight(r))

Copies(r) == accepted[r] + Cardinality(Flights(r)) + Ind(Claimable(r))

Attempts(r) ==
    row[r].count + Cardinality(OldCopies(r)) + Cardinality(OldFlights(r)) + Ind(Claimable(r))

CopyInv == \A r \in Runs : Copies(r) <= 1 + faults

AttemptInv ==
    \A r \in Runs : row[r].count + 1 >= MaxAttempts =>
        Attempts(r) <= MaxAttempts + (Cardinality(Flushers) - 1) + faults

CallOK(f) ==
    /\ fl[f].pc \in {"send", "ok", "err", "finish", "fail"} => \E r \in Runs : fl[f].run = {r}
    /\ \A x, y \in fl[f].todo : x.run = y.run => x = y
    /\ f \in Workers => fl[f].pc \notin {"due", "wait"}
    /\ f = Scheduler => fl[f].pc \notin {"off", "busy"}

CallsOK == \A f \in Flushers : CallOK(f)

HonestInv ==
    /\ SentIsHonest
    /\ \A f \in Flushers, r \in Runs :
        r \in fl[f].run =>
            /\ fl[f].pc = "ok" => accepted[r] >= 1
            /\ fl[f].pc = "finish" => row[r].status = "sent"

WakeInv ==
    fl[Scheduler].pc \in {"due", "wait"} /\ (\E r \in Runs : row[r].status = "pending")
        => timer \/ permit \/ \E w \in Workers : fl[w].pc # "off"

IInv == TypeOK /\ CallsOK /\ HonestInv /\ WakeInv /\ CopyInv /\ AttemptInv

-----------------------------------------------------------------------------

\* The flushers are finitely many, and a set that misses one of them is
\* smaller.
LEMMA FlushersFinite ==
    /\ IsFiniteSet(Flushers) /\ Cardinality(Flushers) \in Nat /\ Cardinality(Flushers) >= 1
    /\ \A S \in SUBSET Flushers :
        /\ IsFiniteSet(S) /\ Cardinality(S) \in Nat /\ Cardinality(S) <= Cardinality(Flushers)
        /\ (\E f \in Flushers : f \notin S) => Cardinality(S) <= Cardinality(Flushers) - 1
PROOF
  <1>1. IsFiniteSet(Flushers) /\ Cardinality(Flushers) \in Nat
    BY FinalOutboxAssumption, FS_AddElement, FS_CardinalityType DEF Flushers
  <1>2. ASSUME NEW S \in SUBSET Flushers
        PROVE /\ IsFiniteSet(S) /\ Cardinality(S) \in Nat /\ Cardinality(S) <= Cardinality(Flushers)
    BY <1>1, FS_Subset, FS_CardinalityType
  <1>3. ASSUME NEW S \in SUBSET Flushers, NEW f \in Flushers, f \notin S
        PROVE Cardinality(S) <= Cardinality(Flushers) - 1
    <2>1. Cardinality(S \cup {f}) = Cardinality(S) + 1
      BY <1>2, <1>3, FS_AddElement
    <2>2. S \cup {f} \in SUBSET Flushers
      OBVIOUS
    <2> QED BY <1>1, <1>2, <2>1, <2>2
  <1>4. Cardinality(Flushers) >= 1
    <2>1. {} \in SUBSET Flushers /\ Scheduler \in Flushers /\ Scheduler \notin {}
      BY DEF Flushers
    <2>2. Cardinality({}) <= Cardinality(Flushers) - 1
      BY <1>3, <2>1
    <2> QED BY <1>1, <2>2, FS_EmptySet
  <1> QED BY <1>1, <1>2, <1>3, <1>4

\* A set that differs from another at f only.
LEMMA OneDiffers ==
    ASSUME NEW S \in SUBSET Flushers, NEW T \in SUBSET Flushers, NEW f \in Flushers,
           \A g \in Flushers \ {f} : g \in S <=> g \in T
    PROVE  Cardinality(T) = Cardinality(S) - Ind(f \in S) + Ind(f \in T)
PROOF
  <1>1. IsFiniteSet(S) /\ IsFiniteSet(T) /\ Cardinality(S) \in Nat /\ Cardinality(T) \in Nat
    BY FlushersFinite
  <1>2. CASE f \in S /\ f \in T
    <2>1. S = T
      BY <1>2
    <2> QED BY <1>1, <1>2, <2>1 DEF Ind
  <1>3. CASE f \in S /\ f \notin T
    <2>1. T = S \ {f}
      BY <1>3
    <2> QED BY <1>1, <1>3, <2>1, FS_RemoveElement DEF Ind
  <1>4. CASE f \notin S /\ f \in T
    <2>1. T = S \cup {f}
      BY <1>4
    <2> QED BY <1>1, <1>4, <2>1, FS_AddElement DEF Ind
  <1>5. CASE f \notin S /\ f \notin T
    <2>1. S = T
      BY <1>5
    <2> QED BY <1>1, <1>5, <2>1 DEF Ind
  <1> QED BY <1>2, <1>3, <1>4, <1>5

\* A step of one flusher.
LEMMA OneMoves ==
    ASSUME NEW f \in Flushers, NEW r \in Runs, \A g \in Flushers \ {f} : fl'[g] = fl[g]
    PROVE  /\ Cardinality(Flights(r))' =
                Cardinality(Flights(r)) - Ind(Carries(f, r)) + Ind(Carries(f, r)')
           /\ Cardinality(OldFlights(r))' =
                Cardinality(OldFlights(r)) - Ind(CarriesOld(f, r)) + Ind(CarriesOld(f, r)')
           /\ Cardinality(OldCopies(r))' =
                Cardinality(OldCopies(r)) - Ind(HoldsOld(f, r)) + Ind(HoldsOld(f, r)')
           /\ InFlight(r) /\ ~SentBy(f, r) => InFlight(r)'
           /\ SentBy(f, r)' => InFlight(r)'
           /\ InFlight(r)' /\ ~SentBy(f, r)' => InFlight(r)
PROOF
  <1>1. /\ Flights(r) \in SUBSET Flushers /\ Flights(r)' \in SUBSET Flushers
        /\ \A g \in Flushers \ {f} : g \in Flights(r) <=> g \in Flights(r)'
        /\ f \in Flights(r) <=> Carries(f, r)
        /\ f \in Flights(r)' <=> Carries(f, r)'
    BY DEF Flights, Carries
  <1>2. /\ OldFlights(r) \in SUBSET Flushers /\ OldFlights(r)' \in SUBSET Flushers
        /\ \A g \in Flushers \ {f} : g \in OldFlights(r) <=> g \in OldFlights(r)'
        /\ f \in OldFlights(r) <=> CarriesOld(f, r)
        /\ f \in OldFlights(r)' <=> CarriesOld(f, r)'
    BY DEF OldFlights, CarriesOld, Carries
  <1>3. /\ OldCopies(r) \in SUBSET Flushers /\ OldCopies(r)' \in SUBSET Flushers
        /\ \A g \in Flushers \ {f} : g \in OldCopies(r) <=> g \in OldCopies(r)'
        /\ f \in OldCopies(r) <=> HoldsOld(f, r)
        /\ f \in OldCopies(r)' <=> HoldsOld(f, r)'
    BY DEF OldCopies, HoldsOld
  <1>4. Cardinality(Flights(r))' =
            Cardinality(Flights(r)) - Ind(Carries(f, r)) + Ind(Carries(f, r)')
    BY <1>1, OneDiffers DEF Ind
  <1>5. Cardinality(OldFlights(r))' =
            Cardinality(OldFlights(r)) - Ind(CarriesOld(f, r)) + Ind(CarriesOld(f, r)')
    BY <1>2, OneDiffers DEF Ind
  <1>6. Cardinality(OldCopies(r))' =
            Cardinality(OldCopies(r)) - Ind(HoldsOld(f, r)) + Ind(HoldsOld(f, r)')
    BY <1>3, OneDiffers DEF Ind
  <1>7. /\ InFlight(r) /\ ~SentBy(f, r) => InFlight(r)'
        /\ SentBy(f, r)' => InFlight(r)'
        /\ InFlight(r)' /\ ~SentBy(f, r)' => InFlight(r)
    BY DEF InFlight, SentBy
  <1> QED BY <1>4, <1>5, <1>6, <1>7

\* The shares of one flusher in the two weights.
CopyShare(f, r) == accepted[r] + Ind(Carries(f, r)) + Ind(Claimable(r)) - faults

AttemptShare(f, r) ==
    row[r].count + Ind(HoldsOld(f, r)) + Ind(CarriesOld(f, r)) + Ind(Claimable(r)) - faults

\* The attempts of r stay within bounds because the share of f does not grow, or
\* because the limit was just reached by a claim of f.
AttemptKept(f, r) ==
    row'[r].count + 1 >= MaxAttempts =>
        \/ row[r].count + 1 >= MaxAttempts /\ AttemptShare(f, r)' <= AttemptShare(f, r)
        \/ row'[r].count + 1 <= MaxAttempts /\ ~HoldsOld(f, r)'

\* A step of one flusher whose shares do not grow beyond what faults pay for
\* keeps both weights within their bounds.
LEMMA Balanced ==
    ASSUME TypeOK, TypeOK', CopyInv, AttemptInv, NEW f \in Flushers,
           \A g \in Flushers \ {f} : fl'[g] = fl[g],
           \A r \in Runs : CopyShare(f, r)' <= CopyShare(f, r) /\ AttemptKept(f, r)
    PROVE  CopyInv' /\ AttemptInv'
PROOF
  <1> USE FinalOutboxAssumption
  <1>1. ASSUME NEW r \in Runs
        PROVE  /\ Copies(r)' <= 1 + faults'
               /\ row'[r].count + 1 >= MaxAttempts =>
                    Attempts(r)' <= MaxAttempts + (Cardinality(Flushers) - 1) + faults'
    <2>1. /\ accepted[r] \in Nat /\ accepted'[r] \in Nat /\ faults \in Nat /\ faults' \in Nat
          /\ row[r].count \in Nat /\ row'[r].count \in Nat
      BY DEF TypeOK, Rows
    <2>2. /\ Flights(r) \in SUBSET Flushers /\ Flights(r)' \in SUBSET Flushers
          /\ OldFlights(r) \in SUBSET Flushers /\ OldFlights(r)' \in SUBSET Flushers
          /\ OldCopies(r) \in SUBSET Flushers /\ OldCopies(r)' \in SUBSET Flushers
          /\ OldFlights(r)' \in SUBSET (Flights(r)')
          /\ HoldsOld(f, r)' <=> f \in OldCopies(r)'
      BY DEF Flights, OldFlights, OldCopies, CarriesOld
    <2>3. /\ Cardinality(Flights(r)) \in Nat /\ Cardinality(Flights(r)') \in Nat
          /\ Cardinality(OldFlights(r)) \in Nat /\ Cardinality(OldFlights(r)') \in Nat
          /\ Cardinality(OldCopies(r)) \in Nat /\ Cardinality(OldCopies(r)') \in Nat
          /\ Cardinality(OldFlights(r)') <= Cardinality(Flights(r)')
          /\ Cardinality(Flushers) \in Nat
          /\ ~HoldsOld(f, r)' => Cardinality(OldCopies(r)') <= Cardinality(Flushers) - 1
      BY <2>2, FlushersFinite, FS_Subset
    <2>4. Copies(r) <= 1 + faults
      BY DEF CopyInv
    <2>5. Copies(r)' <= 1 + faults'
      BY <2>1, <2>3, <2>4, OneMoves DEF Copies, CopyShare, Ind
    <2>6. ASSUME row[r].count + 1 >= MaxAttempts, AttemptShare(f, r)' <= AttemptShare(f, r)
          PROVE  Attempts(r)' <= MaxAttempts + (Cardinality(Flushers) - 1) + faults'
      <3>1. Attempts(r) <= MaxAttempts + (Cardinality(Flushers) - 1) + faults
        BY <2>6 DEF AttemptInv
      <3> QED BY <2>1, <2>3, <2>6, <3>1, OneMoves DEF Attempts, AttemptShare, Ind
    <2>7. ASSUME row'[r].count + 1 <= MaxAttempts, ~HoldsOld(f, r)'
          PROVE  Attempts(r)' <= MaxAttempts + (Cardinality(Flushers) - 1) + faults'
      BY <2>1, <2>3, <2>5, <2>7 DEF Attempts, Copies, Ind
    <2> QED BY <2>5, <2>6, <2>7 DEF AttemptKept
  <1> QED BY <1>1 DEF CopyInv, AttemptInv

-----------------------------------------------------------------------------
(* The type invariant.                                                       *)

\* The records the flushers and the rows are made of.
LEMMA CallTypes ==
    ASSUME TypeOK, NEW f \in Flushers
    PROVE  /\ \A pc \in {"drain", "off", "busy", "due", "wait", "each"} : At(pc) \in FlushCalls
           /\ fl[f] \in FlushCalls
           /\ LeaveOnError(f) \in FlushCalls /\ Leave(f) \in FlushCalls
           /\ NextItem(f) \in FlushCalls
           /\ \A b \in BOOLEAN : [NextItem(f) EXCEPT !.sent = b] \in FlushCalls
           /\ \A b \in BOOLEAN : [fl[f] EXCEPT !.pc = "finish", !.sent = b] \in FlushCalls
           /\ [fl[f] EXCEPT !.pc = "fail", !.n = 0] \in FlushCalls
PROOF
  <1>1. /\ \A pc \in {"drain", "off", "busy", "due", "wait", "each"} : At(pc) \in FlushCalls
        /\ fl[f] \in FlushCalls
    BY DEF TypeOK, At, FlushCalls
  <1>2. LeaveOnError(f) \in FlushCalls /\ Leave(f) \in FlushCalls
    BY <1>1 DEF LeaveOnError, Leave
  <1>3. /\ NextItem(f) \in FlushCalls
        /\ \A b \in BOOLEAN : [NextItem(f) EXCEPT !.sent = b] \in FlushCalls
    BY <1>1 DEF NextItem, FlushCalls
  <1>4. /\ \A b \in BOOLEAN : [fl[f] EXCEPT !.pc = "finish", !.sent = b] \in FlushCalls
        /\ [fl[f] EXCEPT !.pc = "fail", !.n = 0] \in FlushCalls
    BY <1>1 DEF FlushCalls
  <1> QED BY <1>1, <1>2, <1>3, <1>4

\* The listed items, and the call that has turned to one of them.
LEMMA ItemTypes ==
    ASSUME TypeOK, NEW f \in Flushers, NEW x \in fl[f].todo
    PROVE  /\ x \in [run : Runs, n : Nat] /\ x.run \in Runs /\ x.n \in Nat
           /\ [fl[f] EXCEPT !.todo = fl[f].todo \ {x}] \in FlushCalls
           /\ [Taken(f, x) EXCEPT !.pc = "send"] \in FlushCalls
           /\ [Taken(f, x) EXCEPT !.pc = "fail", !.n = 0] \in FlushCalls
PROOF
  <1>1. fl[f] \in FlushCalls
    BY DEF TypeOK
  <1>2. x \in [run : Runs, n : Nat] /\ x.run \in Runs /\ x.n \in Nat
    BY <1>1 DEF FlushCalls
  <1>3. Taken(f, x) \in FlushCalls
    BY <1>1, <1>2 DEF Taken, FlushCalls
  <1>4. /\ [Taken(f, x) EXCEPT !.pc = "send"] \in FlushCalls
        /\ [Taken(f, x) EXCEPT !.pc = "fail", !.n = 0] \in FlushCalls
    BY <1>3 DEF FlushCalls
  <1>5. [fl[f] EXCEPT !.todo = fl[f].todo \ {x}] \in FlushCalls
    BY <1>1 DEF FlushCalls
  <1> QED BY <1>2, <1>4, <1>5

\* The rows, and a row that is settled or put back.
LEMMA RowTypes ==
    ASSUME TypeOK, NEW r \in Runs
    PROVE  /\ row[r] \in Rows
           /\ \A s \in RowStatus : SettledAs(r, s) \in [Runs -> Rows]
PROOF
  <1>1. row[r] \in Rows /\ row \in [Runs -> Rows]
    BY DEF TypeOK
  <1>2. \A s \in RowStatus :
            [row[r] EXCEPT !.status = s, !.due = FALSE, !.stale = FALSE] \in Rows
    BY <1>1 DEF Rows
  <1>3. \A s \in RowStatus : SettledAs(r, s) \in [Runs -> Rows]
    BY <1>1, <1>2 DEF SettledAs
  <1> QED BY <1>1, <1>3

\* Every action keeps the types.
LEMMA TypeStep ==
    ASSUME TypeOK, [Next]_vars
    PROVE  TypeOK'
PROOF
  <1> USE FinalOutboxAssumption DEF TypeOK
  <1>1. ASSUME NEW w \in Workers, NEW r \in Runs, Queue(w, r) PROVE TypeOK'
    <2>1. row' \in [Runs -> Rows]
      BY <1>1 DEF Queue, NoRow, Rows, RowStatus
    <2>2. fl' \in [Flushers -> FlushCalls]
      BY <1>1 DEF Queue, NoRow, FlushCalls, At, Flushers
    <2> QED BY <1>1, <2>1, <2>2 DEF Queue, NoRow
  <1>2. ASSUME NEW r \in Runs, BecomeDue(r) PROVE TypeOK'
    <2>1. row' \in [Runs -> Rows]
      BY <1>2 DEF BecomeDue, Rows, RowStatus
    <2>2. fl' \in [Flushers -> FlushCalls]
      BY <1>2 DEF BecomeDue, FlushCalls, At, Flushers
    <2> QED BY <1>2, <2>1, <2>2 DEF BecomeDue
  <1>3. ASSUME NEW r \in Runs, BecomeStale(r) PROVE TypeOK'
    <2>1. row' \in [Runs -> Rows]
      BY <1>3 DEF BecomeStale, Rows, RowStatus
    <2>2. fl' \in [Flushers -> FlushCalls]
      BY <1>3 DEF BecomeStale, FlushCalls, At, Flushers
    <2> QED BY <1>3, <2>1, <2>2 DEF BecomeStale
  <1>4. ASSUME NEW r \in Runs, SlowSend(r) PROVE TypeOK'
    <2>1. row' \in [Runs -> Rows]
      BY <1>4 DEF SlowSend, Rows, RowStatus
    <2>2. fl' \in [Flushers -> FlushCalls]
      BY <1>4 DEF SlowSend, FlushCalls, At, Flushers
    <2> QED BY <1>4, <2>1, <2>2 DEF SlowSend
  <1>5. ASSUME NEW f \in Flushers, BeginFlush(f) PROVE TypeOK'
    <2>1. \A r \in Runs : Recovered(row[r]) \in Rows
      BY DEF Recovered, Rows, RowStatus
    <2>2. row' \in [Runs -> Rows]
      BY <1>5, <2>1 DEF BeginFlush
    <2>3. DueList(row') \in SUBSET [run : Runs, n : Nat]
      BY <2>2 DEF DueList, Rows
    <2>4. fl' = [fl EXCEPT ![f] = [At("each") EXCEPT !.todo = DueList(row')]]
      BY <1>5 DEF BeginFlush
    <2>5. [At("each") EXCEPT !.todo = DueList(row')] \in FlushCalls
      BY <2>3 DEF At, FlushCalls
    <2> QED BY <1>5, <2>2, <2>4, <2>5 DEF BeginFlush
  <1>6. ASSUME NEW f \in Flushers, NEW x \in fl[f].todo, Claim(f, x) PROVE TypeOK'
    <2>1. CASE row[x.run].status = "pending"
      <3> DEFINE y == [status |-> "sending", count |-> row[x.run].count + 1,
                       due |-> FALSE, stale |-> FALSE]
                 c == [Taken(f, x) EXCEPT !.pc = "send"]
      <3>1. row' = [row EXCEPT ![x.run] = y] /\ fl' = [fl EXCEPT ![f] = c]
        BY <1>6, <2>1 DEF Claim
      <3>2. row[x.run] \in Rows /\ c \in FlushCalls
        BY ItemTypes
      <3>3. y \in Rows
        BY <3>2 DEF Rows, RowStatus
      <3> HIDE DEF y, c
      <3> QED BY <1>6, <3>1, <3>2, <3>3 DEF Claim
    <2>2. CASE row[x.run].status # "pending"
      BY <1>6, <2>2, ItemTypes DEF Claim
    <2> QED BY <2>1, <2>2
  <1>7. ASSUME NEW f \in Flushers, NEW x \in fl[f].todo, FenceOff(f, x) PROVE TypeOK'
    <2>1. row' \in [Runs -> Rows]
      BY <1>7, ItemTypes, RowTypes DEF FenceOff, RowStatus
    <2> DEFINE c == [Taken(f, x) EXCEPT !.pc = "fail", !.n = 0]
               d == [fl[f] EXCEPT !.todo = fl[f].todo \ {x}]
    <2>2. fl' = [fl EXCEPT ![f] = c] \/ fl' = [fl EXCEPT ![f] = d]
      BY <1>7 DEF FenceOff
    <2>3. c \in FlushCalls /\ d \in FlushCalls
      BY ItemTypes
    <2> HIDE DEF c, d
    <2>4. fl' \in [Flushers -> FlushCalls]
      BY <2>2, <2>3
    <2> QED BY <1>7, <2>1, <2>4 DEF FenceOff
  <1>8. ASSUME NEW f \in Flushers, SendOk(f) PROVE TypeOK'
    <2>1. row' \in [Runs -> Rows]
      BY <1>8 DEF SendOk, Rows, RowStatus
    <2>2. fl' \in [Flushers -> FlushCalls]
      BY <1>8 DEF SendOk, FlushCalls, At, Flushers
    <2> QED BY <1>8, <2>1, <2>2 DEF SendOk
  <1>9. ASSUME NEW f \in Flushers, SendErr(f) PROVE TypeOK'
    <2>1. row' \in [Runs -> Rows]
      BY <1>9 DEF SendErr, Rows, RowStatus
    <2>2. fl' \in [Flushers -> FlushCalls]
      BY <1>9 DEF SendErr, FlushCalls, At, Flushers
    <2> QED BY <1>9, <2>1, <2>2 DEF SendErr
  <1>10. ASSUME NEW f \in Flushers, SendLost(f) PROVE TypeOK'
    <2>1. row' \in [Runs -> Rows]
      BY <1>10 DEF SendLost, Rows, RowStatus
    <2>2. fl' \in [Flushers -> FlushCalls]
      BY <1>10 DEF SendLost, FlushCalls, At, Flushers
    <2> QED BY <1>10, <2>1, <2>2 DEF SendLost
  <1>11. ASSUME NEW f \in Flushers, MarkSent(f) PROVE TypeOK'
    <2>1. PICK r \in fl[f].run :
            \/ row' = SettledAs(r, "sent") /\ fl' = [fl EXCEPT ![f] =
                    [fl[f] EXCEPT !.pc = "finish", !.sent = (f = Scheduler)]]
            \/ row' = row /\ fl' = [fl EXCEPT ![f] =
                    [NextItem(f) EXCEPT !.sent = (f = Scheduler)]]
      BY <1>11 DEF MarkSent
    <2>2. r \in Runs /\ (f = Scheduler) \in BOOLEAN /\ "sent" \in RowStatus
      BY DEF FlushCalls, RowStatus
    <2>3. row' \in [Runs -> Rows]
      BY <2>1, <2>2, RowTypes
    <2>4. fl' \in [Flushers -> FlushCalls]
      BY <2>1, <2>2, CallTypes
    <2> QED BY <1>11, <2>3, <2>4 DEF MarkSent
  <1>12. ASSUME NEW f \in Flushers, MarkFailed(f) PROVE TypeOK'
    <2>1. PICK r \in fl[f].run :
            /\ row' \in {row, SettledAs(r, "failed_terminal"), SettledAs(r, "pending")}
            /\ \/ fl' = [fl EXCEPT ![f] = [fl[f] EXCEPT !.pc = "fail", !.n = 0]]
               \/ fl' = [fl EXCEPT ![f] = NextItem(f)]
               \/ fl' = [fl EXCEPT ![f] = LeaveOnError(f)]
      BY <1>12 DEF MarkFailed, SettledAs
    <2>2. r \in Runs /\ "failed_terminal" \in RowStatus /\ "pending" \in RowStatus
      BY DEF FlushCalls, RowStatus
    <2>3. row' \in [Runs -> Rows]
      BY <2>1, <2>2, RowTypes
    <2>4. fl' \in [Flushers -> FlushCalls]
      BY <2>1, <2>2, CallTypes
    <2>5. timer' \in BOOLEAN
      BY <1>12 DEF MarkFailed, Armed
    <2> QED BY <1>12, <2>3, <2>4, <2>5 DEF MarkFailed
  <1>13. ASSUME NEW f \in Flushers, SettleRun(f) PROVE TypeOK'
    <2>1. row' \in [Runs -> Rows]
      BY <1>13 DEF SettleRun, NextItem, Rows, RowStatus
    <2>2. fl' \in [Flushers -> FlushCalls]
      BY <1>13 DEF SettleRun, NextItem, FlushCalls, At, Flushers
    <2> QED BY <1>13, <2>1, <2>2 DEF SettleRun, NextItem
  <1>14. ASSUME NEW f \in Flushers, EndFlush(f) PROVE TypeOK'
    <2>1. row' \in [Runs -> Rows]
      BY <1>14 DEF EndFlush, Leave, Armed, Rows, RowStatus
    <2>2. fl' \in [Flushers -> FlushCalls]
      BY <1>14 DEF EndFlush, Leave, Armed, FlushCalls, At, Flushers
    <2> QED BY <1>14, <2>1, <2>2 DEF EndFlush, Leave, Armed
  <1>15. ASSUME NEW f \in Flushers, FlushFails(f) PROVE TypeOK'
    <2>1. fl' \in [Flushers -> FlushCalls]
      BY <1>15, CallTypes DEF FlushFails
    <2>2. timer' \in BOOLEAN
      BY <1>15 DEF FlushFails, Armed
    <2>3. faults' \in 0 .. MaxFaults
      BY <1>15 DEF FlushFails
    <2> QED BY <1>15, <2>1, <2>2, <2>3 DEF FlushFails
  <1>16. ASSUME NEW w \in Workers, Notify(w) PROVE TypeOK'
    <2>1. row' \in [Runs -> Rows]
      BY <1>16 DEF Notify, Rows, RowStatus
    <2>2. fl' \in [Flushers -> FlushCalls]
      BY <1>16 DEF Notify, FlushCalls, At, Flushers
    <2> QED BY <1>16, <2>1, <2>2 DEF Notify
  <1>17. CASE BeginWait
    <2>1. row' \in [Runs -> Rows]
      BY <1>17 DEF BeginWait, Rows, RowStatus
    <2>2. fl' \in [Flushers -> FlushCalls]
      BY <1>17 DEF BeginWait, FlushCalls, At, Flushers
    <2> QED BY <1>17, <2>1, <2>2 DEF BeginWait
  <1>18. CASE WakeByPermit
    <2>1. row' \in [Runs -> Rows]
      BY <1>18 DEF WakeByPermit, WakeUp, Rows, RowStatus
    <2>2. fl' \in [Flushers -> FlushCalls]
      BY <1>18 DEF WakeByPermit, WakeUp, FlushCalls, At, Flushers
    <2> QED BY <1>18, <2>1, <2>2 DEF WakeByPermit, WakeUp
  <1>19. CASE WakeByTimer
    <2>1. row' \in [Runs -> Rows]
      BY <1>19 DEF WakeByTimer, WakeUp, Rows, RowStatus
    <2>2. fl' \in [Flushers -> FlushCalls]
      BY <1>19 DEF WakeByTimer, WakeUp, FlushCalls, At, Flushers
    <2> QED BY <1>19, <2>1, <2>2 DEF WakeByTimer, WakeUp
  <1>20. CASE WakeByReconciliation
    <2>1. row' \in [Runs -> Rows]
      BY <1>20 DEF WakeByReconciliation, WakeUp, Rows, RowStatus
    <2>2. fl' \in [Flushers -> FlushCalls]
      BY <1>20 DEF WakeByReconciliation, WakeUp, FlushCalls, At, Flushers
    <2> QED BY <1>20, <2>1, <2>2 DEF WakeByReconciliation, WakeUp
  <1>21. CASE CrashAndRestart
    <2>1. fl' \in [Flushers -> FlushCalls]
      BY <1>21, CallTypes DEF CrashAndRestart
    <2>2. run' \in [Runs -> {"active", "finished", "failed"}]
      BY <1>21 DEF CrashAndRestart, RecoveredRuns
    <2>3. faults' \in 0 .. MaxFaults
      BY <1>21 DEF CrashAndRestart
    <2> QED BY <1>21, <2>1, <2>2, <2>3 DEF CrashAndRestart
  <1>22. CASE FenceRises
    <2>1. row' \in [Runs -> Rows]
      BY <1>22 DEF FenceRises, Rows, RowStatus
    <2>2. fl' \in [Flushers -> FlushCalls]
      BY <1>22 DEF FenceRises, FlushCalls, At, Flushers
    <2> QED BY <1>22, <2>1, <2>2 DEF FenceRises
  <1>23. CASE UNCHANGED vars
    BY <1>23 DEF vars
  <1> QED
    BY <1>1, <1>2, <1>3, <1>4, <1>5, <1>6, <1>7, <1>8, <1>9, <1>10, <1>11, <1>12, <1>13, <1>14, <1>15, <1>16, <1>17, <1>18, <1>19, <1>20, <1>21, <1>22, <1>23
    DEF Next, Step, TimePasses

-----------------------------------------------------------------------------
(* What the actions of a flusher do, field by field.                         *)

\* Nothing happens to the calls of the flushers other than f.
OnlyOf(f) == \A g \in Flushers \ {f} : fl'[g] = fl[g]

\* Nothing happens to the rows other than r's.
OnlyRow(r) == \A q \in Runs \ {r} : row'[q] = row[q]

\* Row r is settled, or put back, as s.
Becomes(r, s) ==
    /\ row'[r].status = s /\ row'[r].count = row[r].count
    /\ ~row'[r].due /\ ~row'[r].stale

\* SettledAs changes one row, and there the status and the two marks.
LEMMA RowSettled ==
    ASSUME TypeOK, NEW r \in Runs, NEW s \in RowStatus, row' = SettledAs(r, s)
    PROVE  OnlyRow(r) /\ Becomes(r, s)
PROOF
  <1>1. row \in [Runs -> Rows] /\ row[r] \in Rows
    BY DEF TypeOK
  <1>2. OnlyRow(r)
    BY <1>1 DEF SettledAs, OnlyRow
  <1>3. row'[r] = [row[r] EXCEPT !.status = s, !.due = FALSE, !.stale = FALSE]
    BY <1>1 DEF SettledAs
  <1> QED BY <1>1, <1>2, <1>3 DEF Becomes, Rows

\* The item in hand.
LEMMA InHand ==
    ASSUME TypeOK, CallsOK, NEW f \in Flushers,
           fl[f].pc \in {"send", "ok", "err", "finish", "fail"}
    PROVE  \E r \in Runs : fl[f].run = {r}
PROOF BY DEF CallsOK, CallOK

\* flush_runtime_final_outbox begins: stale claims are taken back, and the list
\* holds each due row once, with its present count.
LEMMA BeginMove ==
    ASSUME TypeOK, NEW f \in Flushers, BeginFlush(f)
    PROVE  /\ OnlyOf(f) /\ fl[f].pc = "drain" /\ fl'[f].pc = "each" /\ fl'[f].run = {}
           /\ \A x \in fl'[f].todo :
                x.run \in Runs /\ x.n = row'[x.run].count /\ row'[x.run].status = "pending"
           /\ \A x, y \in fl'[f].todo : x.run = y.run => x = y
           /\ \A r \in Runs : row'[r] = Recovered(row[r])
PROOF
  <1>1. /\ row' = [r \in Runs |-> Recovered(row[r])] /\ fl[f].pc = "drain"
        /\ fl' = [fl EXCEPT ![f] = [At("each") EXCEPT !.todo = DueList(row')]]
    BY DEF BeginFlush
  <1>2. fl \in [Flushers -> FlushCalls]
    BY DEF TypeOK
  <1>3. fl'[f].pc = "each" /\ fl'[f].run = {} /\ fl'[f].todo = DueList(row')
    BY <1>1, <1>2 DEF At
  <1>4. OnlyOf(f)
    BY <1>1, <1>2 DEF OnlyOf
  <1>5. /\ \A x \in DueList(row') :
                x.run \in Runs /\ x.n = row'[x.run].count /\ row'[x.run].status = "pending"
        /\ \A x, y \in DueList(row') : x.run = y.run => x = y
    BY DEF DueList
  <1> QED BY <1>1, <1>3, <1>4, <1>5

\* mark_runtime_final_outbox_sending: the row is claimed, or the item is
\* dropped.
LEMMA ClaimMove ==
    ASSUME TypeOK, NEW f \in Flushers, NEW x \in fl[f].todo, Claim(f, x)
    PROVE  /\ OnlyOf(f) /\ fl[f].pc = "each" /\ fl'[f].todo = fl[f].todo \ {x}
           /\ x.run \in Runs /\ x.n \in Nat /\ OnlyRow(x.run)
           /\ \/ /\ row[x.run].status = "pending" /\ row'[x.run].status = "sending"
                 /\ row'[x.run].count = row[x.run].count + 1 /\ ~row'[x.run].stale
                 /\ fl'[f].pc = "send" /\ fl'[f].run = {x.run} /\ fl'[f].n = x.n
              \/ row' = row /\ fl'[f].pc = "each" /\ fl'[f].run = fl[f].run
PROOF
  <1>1. fl \in [Flushers -> FlushCalls] /\ row \in [Runs -> Rows] /\ x.run \in Runs /\ x.n \in Nat
    BY ItemTypes DEF TypeOK
  <1>2. fl[f].pc = "each"
    BY DEF Claim
  <1>3. CASE row[x.run].status = "pending"
    <2>1. /\ row' = [row EXCEPT ![x.run] = [status |-> "sending", count |-> row[x.run].count + 1,
                                            due |-> FALSE, stale |-> FALSE]]
          /\ fl' = [fl EXCEPT ![f] = [Taken(f, x) EXCEPT !.pc = "send"]]
      BY <1>3 DEF Claim
    <2>2. OnlyOf(f) /\ OnlyRow(x.run)
      BY <1>1, <2>1 DEF OnlyOf, OnlyRow
    <2>3. /\ row'[x.run].status = "sending" /\ row'[x.run].count = row[x.run].count + 1
          /\ ~row'[x.run].stale
      BY <1>1, <2>1
    <2>4. fl'[f] = [Taken(f, x) EXCEPT !.pc = "send"]
      BY <1>1, <2>1
    <2>5. /\ fl'[f].pc = "send" /\ fl'[f].run = {x.run} /\ fl'[f].n = x.n
          /\ fl'[f].todo = fl[f].todo \ {x}
      BY <1>1, <2>4 DEF Taken, FlushCalls
    <2> QED BY <1>1, <1>2, <1>3, <2>2, <2>3, <2>5
  <1>4. CASE row[x.run].status # "pending"
    <2>1. row' = row /\ fl' = [fl EXCEPT ![f].todo = fl[f].todo \ {x}]
      BY <1>4 DEF Claim
    <2> QED BY <1>1, <1>2, <2>1 DEF OnlyOf, OnlyRow, FlushCalls
  <1> QED BY <1>3, <1>4

\* A fenced item: the row is settled as failed unless it is settled already.
LEMMA FenceMove ==
    ASSUME TypeOK, NEW f \in Flushers, NEW x \in fl[f].todo, FenceOff(f, x)
    PROVE  /\ OnlyOf(f) /\ fl[f].pc = "each" /\ fl'[f].todo = fl[f].todo \ {x}
           /\ x.run \in Runs /\ OnlyRow(x.run)
           /\ \/ row' = row
              \/ row[x.run].status \in {"pending", "sending"} /\ Becomes(x.run, "failed_terminal")
           /\ \/ fl'[f].pc = "fail" /\ fl'[f].run = {x.run}
              \/ fl'[f].pc = "each" /\ fl'[f].run = fl[f].run
PROOF
  <1>1. fl \in [Flushers -> FlushCalls] /\ x.run \in Runs /\ "failed_terminal" \in RowStatus
    BY ItemTypes DEF TypeOK, RowStatus
  <1>2. fl[f].pc = "each"
    BY DEF FenceOff
  <1>3. /\ OnlyRow(x.run)
        /\ \/ row' = row
           \/ row[x.run].status \in {"pending", "sending"} /\ Becomes(x.run, "failed_terminal")
    <2>1. CASE CanFail(x.run)
      BY <1>1, <2>1, RowSettled DEF FenceOff, CanFail
    <2>2. CASE ~CanFail(x.run)
      BY <2>2 DEF FenceOff, OnlyRow
    <2> QED BY <2>1, <2>2
  <1>4. CASE fl' = [fl EXCEPT ![f] = [Taken(f, x) EXCEPT !.pc = "fail", !.n = 0]]
    <2>1. fl'[f] = [Taken(f, x) EXCEPT !.pc = "fail", !.n = 0] /\ OnlyOf(f)
      BY <1>1, <1>4 DEF OnlyOf
    <2>2. fl'[f].pc = "fail" /\ fl'[f].run = {x.run} /\ fl'[f].todo = fl[f].todo \ {x}
      BY <1>1, <2>1 DEF Taken, FlushCalls
    <2> QED BY <1>1, <1>2, <1>3, <2>1, <2>2
  <1>5. CASE fl' = [fl EXCEPT ![f].todo = fl[f].todo \ {x}]
    <2>1. /\ OnlyOf(f) /\ fl'[f].todo = fl[f].todo \ {x}
          /\ fl'[f].pc = fl[f].pc /\ fl'[f].run = fl[f].run
      BY <1>1, <1>5 DEF OnlyOf, FlushCalls
    <2> QED BY <1>1, <1>2, <1>3, <2>1
  <1> QED BY <1>4, <1>5 DEF FenceOff

\* The answer of the service.
LEMMA SendMove ==
    ASSUME TypeOK, CallsOK, NEW f \in Flushers, SendOk(f) \/ SendErr(f) \/ SendLost(f)
    PROVE  \E r \in Runs :
            /\ OnlyOf(f) /\ row' = row /\ fl[f].pc = "send" /\ fl[f].run = {r}
            /\ fl'[f].run = {r} /\ fl'[f].todo = fl[f].todo
            /\ \A q \in Runs \ {r} : accepted'[q] = accepted[q]
            /\ \/ fl'[f].pc = "ok" /\ accepted'[r] = accepted[r] + 1 /\ faults' = faults
               \/ /\ fl'[f].pc = "err" /\ fl'[f].n = fl[f].n
                  /\ \/ accepted'[r] = accepted[r] /\ faults' = faults
                     \/ accepted'[r] = accepted[r] + 1 /\ faults' = faults + 1
PROOF
  <1>1. fl \in [Flushers -> FlushCalls] /\ accepted \in [Runs -> Nat] /\ faults \in Nat
    BY FinalOutboxAssumption DEF TypeOK
  <1>2. PICK r \in Runs : fl[f].run = {r}
    BY InHand DEF SendOk, SendErr, SendLost
  <1>3. CASE SendOk(f)
    BY <1>1, <1>2, <1>3 DEF SendOk, OnlyOf, FlushCalls
  <1>4. CASE SendErr(f)
    BY <1>1, <1>2, <1>4 DEF SendErr, OnlyOf, FlushCalls
  <1>5. CASE SendLost(f)
    BY <1>1, <1>2, <1>5 DEF SendLost, OnlyOf, FlushCalls
  <1> QED BY <1>3, <1>4, <1>5

\* The call goes on with its list, or is over.
Over(f) ==
    /\ fl'[f].run = {}
    /\ \/ fl'[f].pc = "each" /\ fl'[f].todo = fl[f].todo
       \/ fl'[f].pc \in {"busy", "due", "drain"} /\ fl'[f].todo = {}

\* mark_runtime_final_outbox_sent settles the claim that is there, or does
\* nothing.
LEMMA SentMove ==
    ASSUME TypeOK, CallsOK, NEW f \in Flushers, MarkSent(f)
    PROVE  \E r \in Runs :
            /\ OnlyOf(f) /\ OnlyRow(r) /\ fl[f].pc = "ok" /\ fl[f].run = {r}
            /\ fl'[f].todo = fl[f].todo
            /\ \/ /\ row[r].status = "sending" /\ Becomes(r, "sent")
                  /\ fl'[f].pc = "finish" /\ fl'[f].run = {r}
               \/ row[r].status # "sending" /\ row' = row /\ fl'[f].pc = "each" /\ fl'[f].run = {}
PROOF
  <1>1. fl \in [Flushers -> FlushCalls] /\ "sent" \in RowStatus
    BY DEF TypeOK, RowStatus
  <1>2. PICK r \in Runs : fl[f].run = {r}
    BY InHand DEF MarkSent
  <1>3. CASE row[r].status = "sending"
    <2>1. /\ fl[f].pc = "ok" /\ row' = SettledAs(r, "sent")
          /\ fl' = [fl EXCEPT ![f].pc = "finish", ![f].sent = (f = Scheduler)]
      BY <1>2, <1>3 DEF MarkSent
    <2>2. /\ OnlyOf(f) /\ fl'[f].pc = "finish" /\ fl'[f].run = {r} /\ fl'[f].todo = fl[f].todo
      BY <1>1, <1>2, <2>1 DEF OnlyOf, FlushCalls
    <2> QED BY <1>1, <1>2, <1>3, <2>1, <2>2, RowSettled
  <1>4. CASE row[r].status # "sending"
    <2>1. /\ fl[f].pc = "ok" /\ row' = row
          /\ fl' = [fl EXCEPT ![f] = [NextItem(f) EXCEPT !.sent = (f = Scheduler)]]
      BY <1>2, <1>4 DEF MarkSent
    <2>2. OnlyOf(f) /\ fl'[f] = [NextItem(f) EXCEPT !.sent = (f = Scheduler)]
      BY <1>1, <2>1 DEF OnlyOf
    <2>3. fl'[f].pc = "each" /\ fl'[f].run = {} /\ fl'[f].todo = fl[f].todo
      BY <1>1, <2>2 DEF NextItem, FlushCalls
    <2> QED BY <1>2, <1>4, <2>1, <2>2, <2>3 DEF OnlyRow
  <1> QED BY <1>3, <1>4

\* A call that goes on, or returns.
LEMMA Leaving ==
    ASSUME TypeOK, NEW f \in Flushers, NEW c \in {NextItem(f), LeaveOnError(f), Leave(f)},
           fl' = [fl EXCEPT ![f] = c]
    PROVE  OnlyOf(f) /\ Over(f) /\ (f \in Workers => fl'[f].pc \in {"each", "busy"})
           /\ (f = Scheduler => fl'[f].pc \in {"each", "due", "drain"})
PROOF
  <1>1. fl \in [Flushers -> FlushCalls]
    BY DEF TypeOK
  <1>2. OnlyOf(f) /\ fl'[f] = c
    BY <1>1 DEF OnlyOf
  <1>3. \/ f \in Workers /\ f # Scheduler
        \/ f \notin Workers /\ f = Scheduler
    BY FinalOutboxAssumption DEF Flushers
  <1>4. CASE c = NextItem(f)
    BY <1>1, <1>2, <1>3, <1>4 DEF Over, NextItem, FlushCalls
  <1>5. CASE c = LeaveOnError(f)
    <2>1. \/ c = At("busy") /\ f \in Workers
          \/ c = At("due") /\ f = Scheduler
      BY <1>3, <1>5 DEF LeaveOnError
    <2> QED BY <1>2, <1>3, <2>1 DEF Over, At
  <1>6. CASE c = Leave(f)
    <2>1. \/ c = At("busy") /\ f \in Workers
          \/ c \in {At("due"), At("drain")} /\ f = Scheduler
      BY <1>3, <1>6 DEF Leave
    <2> QED BY <1>2, <1>3, <2>1 DEF Over, At
  <1> QED BY <1>4, <1>5, <1>6

\* The error branch settles the row, schedules a retry, or finds the claim
\* gone.
LEMMA FailedMove ==
    ASSUME TypeOK, CallsOK, NEW f \in Flushers, MarkFailed(f)
    PROVE  \E r \in Runs :
            /\ OnlyOf(f) /\ OnlyRow(r) /\ fl[f].pc = "err" /\ fl[f].run = {r}
            /\ f \in Workers => fl'[f].pc \in {"fail", "each", "busy"}
            /\ f = Scheduler => fl'[f].pc \in {"fail", "each", "due", "drain"}
            /\ \/ /\ row[r].status \in {"pending", "sending"} /\ Becomes(r, "failed_terminal")
                  /\ fl'[f].pc = "fail" /\ fl'[f].run = {r} /\ fl'[f].todo = fl[f].todo
               \/ /\ row[r].status = "sending" /\ Becomes(r, "pending") /\ Over(f)
                  /\ fl[f].n + 1 < MaxAttempts
               \/ /\ row[r].status # "sending" /\ row' = row /\ Over(f)
                  /\ fl'[f].pc = "due" => timer' = Armed
PROOF
  <1>1. /\ fl \in [Flushers -> FlushCalls] /\ fl[f].n \in Nat
        /\ "pending" \in RowStatus /\ "failed_terminal" \in RowStatus
    BY DEF TypeOK, RowStatus, FlushCalls
  <1>2. PICK r \in Runs : fl[f].run = {r}
    BY InHand DEF MarkFailed
  <1>3. CASE fl[f].n + 1 >= MaxAttempts /\ CanFail(r)
    <2>1. /\ fl[f].pc = "err" /\ row' = SettledAs(r, "failed_terminal")
          /\ fl' = [fl EXCEPT ![f].pc = "fail", ![f].n = 0]
      BY FinalOutboxAssumption, <1>1, <1>2, <1>3 DEF MarkFailed
    <2>2. /\ OnlyOf(f) /\ fl'[f].pc = "fail" /\ fl'[f].run = {r} /\ fl'[f].todo = fl[f].todo
      BY <1>1, <1>2, <2>1 DEF OnlyOf, FlushCalls
    <2> QED BY <1>1, <1>2, <1>3, <2>1, <2>2, RowSettled DEF CanFail
  <1>4. CASE fl[f].n + 1 >= MaxAttempts /\ ~CanFail(r)
    <2>1. fl[f].pc = "err" /\ row' = row /\ fl' = [fl EXCEPT ![f] = NextItem(f)]
      BY FinalOutboxAssumption, <1>1, <1>2, <1>4 DEF MarkFailed
    <2>2. fl'[f].pc = "each"
      BY <1>1, <2>1 DEF NextItem, FlushCalls
    <2> QED BY <1>2, <1>4, <2>1, <2>2, Leaving DEF CanFail, OnlyRow
  <1>5. CASE fl[f].n + 1 < MaxAttempts /\ row[r].status = "sending"
    <2>1. /\ fl[f].pc = "err" /\ row' = SettledAs(r, "pending")
          /\ fl' = [fl EXCEPT ![f] = NextItem(f)]
      BY FinalOutboxAssumption, <1>1, <1>2, <1>5 DEF MarkFailed, SettledAs
    <2> QED BY <1>1, <1>2, <1>5, <2>1, Leaving, RowSettled
  <1>6. CASE fl[f].n + 1 < MaxAttempts /\ row[r].status # "sending"
    <2>1. fl[f].pc = "err" /\ row' = row /\ fl' = [fl EXCEPT ![f] = LeaveOnError(f)]
      BY FinalOutboxAssumption, <1>1, <1>2, <1>6 DEF MarkFailed
    <2>2. f # Scheduler \/ timer' = Armed
      BY FinalOutboxAssumption, <1>1, <1>2, <1>6 DEF MarkFailed, Flushers
    <2>3. f # Scheduler => f \in Workers
      BY DEF Flushers
    <2> QED BY <1>2, <1>6, <2>1, <2>2, <2>3, Leaving DEF OnlyRow
  <1> QED BY FinalOutboxAssumption, <1>1, <1>3, <1>4, <1>5, <1>6

-----------------------------------------------------------------------------
(* The calls in progress.                                                  *)

\* The actions that leave flusher f with no reply in hand.
Rest(f) ==
    \/ f \in Workers /\ ((\E r \in Runs : Queue(f, r)) \/ Notify(f))
    \/ f = Scheduler /\ (BeginWait \/ WakeByPermit \/ WakeByTimer \/ WakeByReconciliation)
    \/ SettleRun(f) \/ EndFlush(f) \/ FlushFails(f)

\* What those actions have in common; only a failed statement drops a send.
LEMMA RestMove ==
    ASSUME TypeOK, NEW f \in Flushers, Rest(f)
    PROVE  /\ OnlyOf(f) /\ fl'[f].run = {} /\ fl'[f].todo \in {{}, fl[f].todo}
           /\ f \in Workers => fl'[f].pc \in {"each", "busy", "drain", "off"}
           /\ f = Scheduler => fl'[f].pc \in {"each", "due", "drain", "wait"}
           /\ accepted' = accepted
           /\ fl[f].pc \in {"send", "ok", "err"} => FlushFails(f)
PROOF
  <1>1. /\ fl \in [Flushers -> FlushCalls]
        /\ \/ f \in Workers /\ f # Scheduler
           \/ f \notin Workers /\ f = Scheduler
    BY FinalOutboxAssumption DEF TypeOK, Flushers
  <1>2. ASSUME NEW pc, fl' = [fl EXCEPT ![f] = At(pc)]
        PROVE  OnlyOf(f) /\ fl'[f].run = {} /\ fl'[f].todo = {} /\ fl'[f].pc = pc
    BY <1>1, <1>2 DEF OnlyOf, At
  <1>3. ASSUME NEW r \in Runs, f \in Workers, Queue(f, r)
        PROVE  fl' = [fl EXCEPT ![f] = At("drain")] /\ accepted' = accepted /\ fl[f].pc = "off"
    BY <1>3 DEF Queue
  <1>4. ASSUME f \in Workers, Notify(f)
        PROVE  fl' = [fl EXCEPT ![f] = At("off")] /\ accepted' = accepted /\ fl[f].pc = "busy"
    BY <1>4 DEF Notify
  <1>5. ASSUME f = Scheduler, BeginWait
        PROVE  fl' = [fl EXCEPT ![f] = At("wait")] /\ accepted' = accepted /\ fl[f].pc = "due"
    BY <1>5 DEF BeginWait
  <1>6. ASSUME f = Scheduler, WakeByPermit \/ WakeByTimer \/ WakeByReconciliation
        PROVE  fl' = [fl EXCEPT ![f] = At("drain")] /\ accepted' = accepted /\ fl[f].pc = "wait"
    BY <1>6 DEF WakeByPermit, WakeByTimer, WakeByReconciliation, WakeUp
  <1>7. CASE SettleRun(f) \/ EndFlush(f) \/ FlushFails(f)
    <2>1. \E c \in {NextItem(f), LeaveOnError(f), Leave(f)} : fl' = [fl EXCEPT ![f] = c]
      BY <1>7 DEF SettleRun, EndFlush, FlushFails
    <2>2. accepted' = accepted /\ (fl[f].pc \in {"send", "ok", "err"} => FlushFails(f))
      BY <1>7 DEF SettleRun, EndFlush, FlushFails
    <2> QED BY <2>1, <2>2, Leaving DEF Over
  <1> QED BY <1>1, <1>2, <1>3, <1>4, <1>5, <1>6, <1>7 DEF Rest

\* Every step is one of these.
LEMMA Steps ==
    ASSUME [Next]_vars
    PROVE  \/ \E f \in Flushers :
                \/ BeginFlush(f) \/ SendOk(f) \/ SendErr(f) \/ SendLost(f)
                \/ \E x \in fl[f].todo : Claim(f, x) \/ FenceOff(f, x)
                \/ MarkSent(f) \/ MarkFailed(f) \/ Rest(f)
           \/ \E r \in Runs : BecomeDue(r) \/ BecomeStale(r) \/ SlowSend(r)
           \/ CrashAndRestart \/ FenceRises \/ UNCHANGED vars
PROOF
  <1>1. Scheduler \in Flushers /\ \A w \in Workers : w \in Flushers
    BY DEF Flushers
  <1>2. ASSUME NEW w \in Workers, (\E r \in Runs : Queue(w, r)) \/ Notify(w)
        PROVE  w \in Flushers /\ Rest(w)
    BY <1>1, <1>2 DEF Rest
  <1>3. ASSUME BeginWait \/ WakeByPermit \/ WakeByTimer \/ WakeByReconciliation
        PROVE  Rest(Scheduler)
    BY <1>3 DEF Rest
  <1>4. ASSUME NEW f \in Flushers, Step(f) \/ FlushFails(f)
        PROVE  \/ BeginFlush(f) \/ SendOk(f) \/ SendErr(f) \/ SendLost(f)
               \/ \E x \in fl[f].todo : Claim(f, x) \/ FenceOff(f, x)
               \/ MarkSent(f) \/ MarkFailed(f) \/ Rest(f)
    BY <1>4 DEF Step, Rest
  <1> QED BY <1>1, <1>2, <1>3, <1>4 DEF Next, TimePasses

\* A flusher at work on a reply holds one reply; a list holds a run once; each
\* flusher keeps to its own places.
LEMMA CallsStep ==
    ASSUME TypeOK, CallsOK, [Next]_vars
    PROVE  CallsOK'
PROOF
  <1>0. ASSUME NEW f \in Flushers, OnlyOf(f), CallOK(f)'
        PROVE  CallsOK'
    BY <1>0 DEF CallsOK, CallOK, OnlyOf
  <1>a. ASSUME NEW f \in Flushers
        PROVE  CallOK(f) /\ (f \in Workers \/ f = Scheduler) /\ (f \in Workers => f # Scheduler)
    BY FinalOutboxAssumption DEF CallsOK, Flushers
  <1>1. ASSUME NEW f \in Flushers, BeginFlush(f) PROVE CallsOK'
    <2>1. CallOK(f)'
      BY <1>1, BeginMove DEF CallOK
    <2> QED BY <1>0, <1>1, <2>1, BeginMove
  <1>2. ASSUME NEW f \in Flushers, NEW x \in fl[f].todo, Claim(f, x) PROVE CallsOK'
    <2>1. CallOK(f)'
      BY <1>2, <1>a, ClaimMove DEF CallOK
    <2> QED BY <1>0, <1>2, <2>1, ClaimMove
  <1>3. ASSUME NEW f \in Flushers, NEW x \in fl[f].todo, FenceOff(f, x) PROVE CallsOK'
    <2>1. CallOK(f)'
      BY <1>3, <1>a, FenceMove DEF CallOK
    <2> QED BY <1>0, <1>3, <2>1, FenceMove
  <1>4. ASSUME NEW f \in Flushers, SendOk(f) \/ SendErr(f) \/ SendLost(f) PROVE CallsOK'
    <2>1. CallOK(f)' /\ OnlyOf(f)
      BY <1>4, <1>a, SendMove DEF CallOK
    <2> QED BY <1>0, <2>1
  <1>5. ASSUME NEW f \in Flushers, MarkSent(f) PROVE CallsOK'
    <2>1. CallOK(f)' /\ OnlyOf(f)
      BY <1>5, <1>a, SentMove DEF CallOK
    <2> QED BY <1>0, <2>1
  <1>6. ASSUME NEW f \in Flushers, MarkFailed(f) PROVE CallsOK'
    <2>1. CallOK(f)' /\ OnlyOf(f)
      BY <1>6, <1>a, FailedMove DEF CallOK, Over
    <2> QED BY <1>0, <2>1
  <1>7. ASSUME NEW f \in Flushers, Rest(f) PROVE CallsOK'
    <2>1. CallOK(f)' /\ OnlyOf(f)
      BY <1>7, <1>a, RestMove DEF CallOK
    <2> QED BY <1>0, <2>1
  <1>8. CASE CrashAndRestart
    BY <1>a, <1>8 DEF CrashAndRestart, CallsOK, CallOK, At
  <1>9. CASE UNCHANGED fl
    BY <1>9 DEF CallsOK, CallOK
  <1>10. ASSUME \E r \in Runs : BecomeDue(r) \/ BecomeStale(r) \/ SlowSend(r) PROVE UNCHANGED fl
    BY <1>10 DEF BecomeDue, BecomeStale, SlowSend
  <1>11. FenceRises \/ UNCHANGED vars => UNCHANGED fl
    BY DEF FenceRises, vars
  <1> QED
    BY Steps, <1>1, <1>2, <1>3, <1>4, <1>5, <1>6, <1>7, <1>8, <1>9, <1>10, <1>11

-----------------------------------------------------------------------------
(* Nothing is reported as sent that was not accepted.                       *)

\* What a step must not do to the rows, the runs and the copies.
Records ==
    \A r \in Runs :
        /\ accepted'[r] >= accepted[r]
        /\ row[r].status = "sent" => row'[r].status = "sent"
        /\ row'[r].status = "sent" => row[r].status = "sent" \/ accepted[r] >= 1
        /\ run'[r] = "finished" => run[r] = "finished" \/ row[r].status = "sent"

\* What flusher f has in hand after the step is honest.
HandOK(f) ==
    \A r \in Runs : r \in fl'[f].run =>
        /\ fl'[f].pc = "ok" => accepted'[r] >= 1
        /\ fl'[f].pc = "finish" => row'[r].status = "sent"

\* Records that only gain evidence, and an honest hand, keep HonestInv.
LEMMA HonestKept ==
    ASSUME TypeOK, TypeOK', HonestInv, Records,
           \A f \in Flushers : fl'[f] = fl[f] \/ HandOK(f)
    PROVE  HonestInv'
PROOF
  <1>1. \A r \in Runs : accepted[r] \in Nat /\ accepted'[r] \in Nat
    BY DEF TypeOK
  <1>2. SentIsHonest'
    BY <1>1 DEF HonestInv, SentIsHonest, Records
  <1>3. ASSUME NEW f \in Flushers, NEW r \in Runs, r \in fl'[f].run
        PROVE  /\ fl'[f].pc = "ok" => accepted'[r] >= 1
               /\ fl'[f].pc = "finish" => row'[r].status = "sent"
    <2>1. CASE HandOK(f)
      BY <1>3, <2>1 DEF HandOK
    <2>2. CASE fl'[f] = fl[f]
      BY <1>1, <1>3, <2>2 DEF HonestInv, Records
    <2> QED BY <2>1, <2>2
  <1> QED BY <1>2, <1>3 DEF HonestInv

\* Every action keeps HonestInv.
LEMMA HonestStep ==
    ASSUME TypeOK, TypeOK', CallsOK, HonestInv, [Next]_vars
    PROVE  HonestInv'
PROOF
  <1>0. ASSUME NEW f \in Flushers, OnlyOf(f), HandOK(f), Records
        PROVE  HonestInv'
    BY <1>0, HonestKept DEF OnlyOf
  <1>a. \A r \in Runs : accepted[r] \in Nat /\ accepted'[r] \in Nat
    BY DEF TypeOK
  <1>1. ASSUME NEW f \in Flushers, BeginFlush(f) PROVE HonestInv'
    <2>1. accepted' = accepted /\ run' = run
      BY <1>1 DEF BeginFlush
    <2>2. \A r \in Runs : row'[r].status = "sent" <=> row[r].status = "sent"
      <3>1. ASSUME NEW r \in Runs PROVE row'[r].status = "sent" <=> row[r].status = "sent"
        <4>1. row'[r] = Recovered(row[r]) /\ row[r] \in Rows
          BY <1>1, BeginMove DEF TypeOK
        <4> QED BY <4>1 DEF Recovered, Rows
      <3> QED BY <3>1
    <2>3. Records
      BY <1>a, <2>1, <2>2 DEF Records
    <2>4. OnlyOf(f) /\ HandOK(f)
      BY <1>1, BeginMove DEF HandOK
    <2> QED BY <1>0, <2>3, <2>4
  <1>2. ASSUME NEW f \in Flushers, NEW x \in fl[f].todo, Claim(f, x) PROVE HonestInv'
    <2>1. accepted' = accepted /\ run' = run
      BY <1>2 DEF Claim
    <2>2. Records
      BY <1>2, <1>a, <2>1, ClaimMove DEF Records, OnlyRow
    <2>3. OnlyOf(f) /\ HandOK(f)
      BY <1>2, ClaimMove DEF HandOK
    <2> QED BY <1>0, <2>2, <2>3
  <1>3. ASSUME NEW f \in Flushers, NEW x \in fl[f].todo, FenceOff(f, x) PROVE HonestInv'
    <2>1. accepted' = accepted /\ run' = run
      BY <1>3 DEF FenceOff
    <2>2. Records
      BY <1>3, <1>a, <2>1, FenceMove DEF Records, OnlyRow, Becomes
    <2>3. OnlyOf(f) /\ HandOK(f)
      BY <1>3, FenceMove DEF HandOK
    <2> QED BY <1>0, <2>2, <2>3
  <1>4. ASSUME NEW f \in Flushers, SendOk(f) \/ SendErr(f) \/ SendLost(f) PROVE HonestInv'
    <2>1. PICK r \in Runs :
            /\ OnlyOf(f) /\ row' = row /\ fl'[f].run = {r}
            /\ \A q \in Runs \ {r} : accepted'[q] = accepted[q]
            /\ \/ fl'[f].pc = "ok" /\ accepted'[r] = accepted[r] + 1
               \/ fl'[f].pc = "err" /\ accepted'[r] >= accepted[r]
      <3>1. PICK r \in Runs :
            /\ OnlyOf(f) /\ row' = row /\ fl'[f].run = {r}
            /\ \A q \in Runs \ {r} : accepted'[q] = accepted[q]
            /\ \/ fl'[f].pc = "ok" /\ accepted'[r] = accepted[r] + 1
               \/ fl'[f].pc = "err" /\ accepted'[r] \in {accepted[r], accepted[r] + 1}
        BY <1>4, SendMove
      <3>2. accepted'[r] \in {accepted[r], accepted[r] + 1} => accepted'[r] >= accepted[r]
        BY <1>a
      <3> QED BY <3>1, <3>2
    <2>2. run' = run
      BY <1>4 DEF SendOk, SendErr, SendLost
    <2>3. \A q \in Runs : accepted'[q] >= accepted[q]
      BY <1>a, <2>1
    <2>4. Records
      BY <2>1, <2>2, <2>3 DEF Records
    <2>5. HandOK(f)
      BY <1>a, <2>1 DEF HandOK
    <2> QED BY <1>0, <2>1, <2>4, <2>5
  <1>5. ASSUME NEW f \in Flushers, MarkSent(f) PROVE HonestInv'
    <2>1. accepted' = accepted /\ run' = run
      BY <1>5 DEF MarkSent
    <2>2. PICK r \in Runs :
            /\ OnlyOf(f) /\ OnlyRow(r) /\ fl[f].pc = "ok" /\ fl[f].run = {r}
            /\ \/ /\ row[r].status = "sending" /\ Becomes(r, "sent")
                  /\ fl'[f].pc = "finish" /\ fl'[f].run = {r}
               \/ row' = row /\ fl'[f].pc = "each" /\ fl'[f].run = {}
      BY <1>5, SentMove
    <2>3. accepted[r] >= 1
      BY <2>2 DEF HonestInv
    <2>4. Records
      BY <1>a, <2>1, <2>2, <2>3 DEF Records, OnlyRow, Becomes
    <2>5. HandOK(f)
      BY <2>2 DEF HandOK, Becomes
    <2> QED BY <1>0, <2>2, <2>4, <2>5
  <1>6. ASSUME NEW f \in Flushers, MarkFailed(f) PROVE HonestInv'
    <2>1. accepted' = accepted /\ run' = run
      BY <1>6 DEF MarkFailed
    <2>2. PICK r \in Runs :
            /\ OnlyOf(f) /\ OnlyRow(r)
            /\ row' = row \/ /\ row[r].status \in {"pending", "sending"}
                             /\ row'[r].status \in {"failed_terminal", "pending"}
            /\ fl'[f].pc \notin {"ok", "finish"}
      BY <1>6, FailedMove DEF Becomes, Over
    <2>3. Records
      BY <1>a, <2>1, <2>2 DEF Records, OnlyRow
    <2>4. HandOK(f)
      BY <2>2 DEF HandOK
    <2> QED BY <1>0, <2>2, <2>3, <2>4
  <1>7. ASSUME NEW f \in Flushers, Rest(f) PROVE HonestInv'
    <2>1. OnlyOf(f) /\ HandOK(f) /\ accepted' = accepted
      BY <1>7, RestMove DEF HandOK
    <2>2. CASE \E r \in Runs : Queue(f, r)
      <3>1. PICK r \in Runs : Queue(f, r)
        BY <2>2
      <3>2. /\ OnlyRow(r) /\ row[r].status = "none" /\ row'[r].status = "pending"
            /\ run' = run
        BY <3>1 DEF Queue, OnlyRow, TypeOK
      <3>3. Records
        BY <1>a, <2>1, <3>2 DEF Records, OnlyRow
      <3> QED BY <1>0, <2>1, <3>3
    <2>3. CASE SettleRun(f)
      <3>1. row' = row /\ \A r \in Runs : run'[r] = "finished" =>
                run[r] = "finished" \/ (r \in fl[f].run /\ fl[f].pc = "finish")
        BY <2>3 DEF SettleRun
      <3>2. Records
        BY <1>a, <2>1, <3>1 DEF Records, HonestInv
      <3> QED BY <1>0, <2>1, <3>2
    <2>4. CASE UNCHANGED <<row, run>>
      <3>1. Records
        BY <1>a, <2>1, <2>4 DEF Records
      <3> QED BY <1>0, <2>1, <3>1
    <2>5. \/ \E r \in Runs : Queue(f, r)
          \/ SettleRun(f) \/ UNCHANGED <<row, run>>
      BY <1>7 DEF Rest, Notify, BeginWait, WakeByPermit, WakeByTimer, WakeByReconciliation,
                  WakeUp, EndFlush, FlushFails
    <2> QED BY <2>2, <2>3, <2>4, <2>5
  <1>8. CASE CrashAndRestart
    <2>1. /\ row' = row /\ accepted' = accepted
          /\ \A r \in Runs : run'[r] = "finished" => run[r] = "finished"
      BY <1>8 DEF CrashAndRestart, RecoveredRuns
    <2>2. Records
      BY <1>a, <2>1 DEF Records
    <2>3. \A f \in Flushers : HandOK(f)
      BY <1>8 DEF CrashAndRestart, HandOK, At
    <2> QED BY <2>2, <2>3, HonestKept
  <1>9. ASSUME NEW r \in Runs, BecomeDue(r) \/ BecomeStale(r) \/ SlowSend(r) PROVE HonestInv'
    <2>1. /\ fl' = fl /\ accepted' = accepted /\ run' = run
          /\ \A q \in Runs : row'[q].status = row[q].status
      BY <1>9 DEF BecomeDue, BecomeStale, SlowSend, TypeOK, Rows
    <2>2. Records
      BY <1>a, <2>1 DEF Records
    <2> QED BY <2>1, <2>2, HonestKept
  <1>10. CASE FenceRises \/ UNCHANGED vars
    <2>1. UNCHANGED <<fl, accepted, run, row>>
      BY <1>10 DEF FenceRises, vars
    <2> QED BY <2>1 DEF HonestInv, SentIsHonest
  <1> QED
    BY Steps, <1>1, <1>2, <1>3, <1>4, <1>5, <1>6, <1>7, <1>8, <1>9, <1>10

-----------------------------------------------------------------------------
(* No wake-up is lost.                                                     *)

\* Every action keeps WakeInv: a worker off its route has notified, and the
\* scheduler looks for pending rows when it turns to wait.
LEMMA WakeStep ==
    ASSUME TypeOK, CallsOK, WakeInv, [Next]_vars
    PROVE  WakeInv'
PROOF
  <1>a. \A f \in Flushers : f \in Workers \/ f = Scheduler
    BY DEF Flushers
  <1>0. ASSUME NEW f \in Flushers,
               f \in Workers => fl'[f].pc # "off" \/ permit',
               f = Scheduler => \/ fl'[f].pc \notin {"due", "wait"}
                                \/ fl'[f].pc = "due" /\ timer' = Armed /\ row' = row
        PROVE  WakeInv'
    BY <1>0, <1>a DEF WakeInv, Armed
  <1>1. ASSUME NEW f \in Flushers, BeginFlush(f) PROVE WakeInv'
    BY <1>0, <1>1, BeginMove
  <1>2. ASSUME NEW f \in Flushers, NEW x \in fl[f].todo, Claim(f, x) PROVE WakeInv'
    <2>1. fl'[f].pc \in {"each", "send"}
      BY <1>2, ClaimMove
    <2> QED BY <1>0, <2>1
  <1>3. ASSUME NEW f \in Flushers, NEW x \in fl[f].todo, FenceOff(f, x) PROVE WakeInv'
    <2>1. fl'[f].pc \in {"each", "fail"}
      BY <1>3, FenceMove
    <2> QED BY <1>0, <2>1
  <1>4. ASSUME NEW f \in Flushers, SendOk(f) \/ SendErr(f) \/ SendLost(f) PROVE WakeInv'
    <2>1. fl'[f].pc \in {"ok", "err"}
      BY <1>4, SendMove
    <2> QED BY <1>0, <2>1
  <1>5. ASSUME NEW f \in Flushers, MarkSent(f) PROVE WakeInv'
    <2>1. fl'[f].pc \in {"each", "finish"}
      BY <1>5, SentMove
    <2> QED BY <1>0, <2>1
  <1>6. ASSUME NEW f \in Flushers, MarkFailed(f) PROVE WakeInv'
    <2>1. /\ f \in Workers => fl'[f].pc \in {"fail", "each", "busy"}
          /\ f = Scheduler => fl'[f].pc \in {"fail", "each", "due", "drain"}
      BY <1>6, FailedMove
    <2>2. CASE fl'[f].pc = "due" /\ f = Scheduler
      <3>1. /\ fl \in [Flushers -> FlushCalls] /\ fl[f].n \in Nat
            /\ fl'[f].pc # fl[f].pc
        BY <1>6, <2>2 DEF TypeOK, FlushCalls, MarkFailed
      <3>2. fl' # [fl EXCEPT ![f] = NextItem(f)]
        BY <2>2, <3>1 DEF NextItem, FlushCalls
      <3>3. fl' # [fl EXCEPT ![f].pc = "fail", ![f].n = 0]
        BY <2>2, <3>1 DEF FlushCalls
      <3>4. timer' = Armed /\ row' = row
        BY <1>6, <2>2, <3>1, <3>2, <3>3 DEF MarkFailed
      <3> QED BY <1>0, <2>2, <2>1, <3>4
    <2>3. CASE fl'[f].pc # "due"
      BY <1>0, <2>1, <2>3
    <2> QED BY <1>0, <2>1, <2>2, <2>3
  <1>7. ASSUME NEW f \in Flushers, SettleRun(f) PROVE WakeInv'
    <2>1. fl'[f].pc = "each"
      BY <1>7 DEF SettleRun, NextItem, TypeOK, FlushCalls
    <2> QED BY <1>0, <2>1
  <1>8. ASSUME NEW f \in Flushers, EndFlush(f) PROVE WakeInv'
    <2>1. /\ fl'[f] = Leave(f) /\ row' = row
          /\ timer' = IF Leave(f) = At("due") THEN Armed ELSE timer
      BY <1>8 DEF EndFlush, TypeOK
    <2>2. \/ f \in Workers /\ f # Scheduler /\ Leave(f) = At("busy")
          \/ f = Scheduler /\ f \notin Workers /\ Leave(f) \in {At("drain"), At("due")}
      BY <1>a, FinalOutboxAssumption DEF Leave
    <2> QED BY <1>0, <2>1, <2>2 DEF At
  <1>9. ASSUME NEW f \in Flushers, FlushFails(f) PROVE WakeInv'
    <2>1. /\ fl'[f] = LeaveOnError(f) /\ row' = row
          /\ timer' = IF f = Scheduler THEN Armed ELSE timer
      BY <1>9 DEF FlushFails, TypeOK
    <2>2. \/ f \in Workers /\ f # Scheduler /\ LeaveOnError(f) = At("busy")
          \/ f = Scheduler /\ f \notin Workers /\ LeaveOnError(f) = At("due")
      BY <1>a, FinalOutboxAssumption DEF LeaveOnError
    <2> QED BY <1>0, <2>1, <2>2 DEF At
  <1>10. ASSUME NEW w \in Workers, NEW r \in Runs, Queue(w, r) PROVE WakeInv'
    <2>1. w \in Flushers /\ w # Scheduler /\ fl'[w].pc = "drain"
      BY <1>10, FinalOutboxAssumption DEF Queue, At, TypeOK, Flushers
    <2> QED BY <1>0, <1>10, <2>1
  <1>11. ASSUME NEW w \in Workers, Notify(w) PROVE WakeInv'
    BY <1>11 DEF Notify, WakeInv
  <1>12. CASE BeginWait
    <2>1. /\ fl[Scheduler].pc = "due" /\ row' = row /\ timer' = timer /\ permit' = permit
          /\ \A w \in Workers : fl'[w] = fl[w]
      BY <1>12, FinalOutboxAssumption DEF BeginWait, TypeOK, Flushers
    <2> QED BY <2>1 DEF WakeInv
  <1>13. CASE WakeByPermit \/ WakeByTimer \/ WakeByReconciliation
    <2>1. fl'[Scheduler].pc = "drain"
      BY <1>13 DEF WakeByPermit, WakeByTimer, WakeByReconciliation, WakeUp, At, TypeOK, Flushers
    <2> QED BY <2>1 DEF WakeInv
  <1>14. CASE CrashAndRestart
    BY <1>14 DEF CrashAndRestart, WakeInv
  <1>15. ASSUME NEW r \in Runs, BecomeDue(r) \/ BecomeStale(r) \/ SlowSend(r) PROVE WakeInv'
    <2>1. /\ UNCHANGED <<fl, timer, permit>>
          /\ \A q \in Runs : row'[q].status = row[q].status
      BY <1>15 DEF BecomeDue, BecomeStale, SlowSend, TypeOK, Rows
    <2> QED BY <2>1 DEF WakeInv
  <1>16. CASE FenceRises \/ UNCHANGED vars
    BY <1>16 DEF FenceRises, vars, WakeInv
  <1> QED
    BY <1>1, <1>2, <1>3, <1>4, <1>5, <1>6, <1>7, <1>8, <1>9, <1>10, <1>11, <1>12, <1>13,
       <1>14, <1>15, <1>16
    DEF Next, Step, TimePasses

-----------------------------------------------------------------------------
(* The two weights.                                                         *)

\* A run that flusher f has nothing to do with.
LEMMA Untouched ==
    ASSUME TypeOK, TypeOK', NEW f \in Flushers, OnlyOf(f), NEW q \in Runs,
           row'[q] = row[q], accepted'[q] = accepted[q], faults' >= faults,
           SentBy(f, q) => row[q].status # "sending" \/ faults' >= faults + 1,
           ~SentBy(f, q)', HoldsOld(f, q)' => HoldsOld(f, q)
    PROVE  CopyShare(f, q)' <= CopyShare(f, q) /\ AttemptKept(f, q)
PROOF
  <1>1. /\ accepted[q] \in Nat /\ faults \in Nat /\ faults' \in Nat
        /\ row[q].count \in Nat
    BY FinalOutboxAssumption DEF TypeOK, Rows
  <1>2. ~Carries(f, q)' /\ ~CarriesOld(f, q)'
    BY DEF SentBy, Carries, CarriesOld
  <1>3. /\ InFlight(q) /\ ~SentBy(f, q) => InFlight(q)'
        /\ InFlight(q)' => InFlight(q)
    BY OneMoves DEF OnlyOf
  <1>4. Ind(Claimable(q))' - faults' <= Ind(Claimable(q)) - faults
    BY <1>1, <1>3 DEF Claimable, Ind
  <1>5. /\ Ind(Carries(f, q))' = 0 /\ Ind(Carries(f, q)) \in {0, 1}
        /\ Ind(CarriesOld(f, q))' = 0 /\ Ind(CarriesOld(f, q)) \in {0, 1}
        /\ Ind(Claimable(q))' \in {0, 1} /\ Ind(Claimable(q)) \in {0, 1}
        /\ Ind(HoldsOld(f, q))' <= Ind(HoldsOld(f, q))
        /\ Ind(HoldsOld(f, q))' \in {0, 1} /\ Ind(HoldsOld(f, q)) \in {0, 1}
    BY <1>2 DEF Ind
  <1>6. CopyShare(f, q)' <= CopyShare(f, q)
    BY <1>1, <1>4, <1>5 DEF CopyShare
  <1>7. AttemptShare(f, q)' <= AttemptShare(f, q)
    BY <1>1, <1>4, <1>5 DEF AttemptShare
  <1> QED BY <1>6, <1>7 DEF AttemptKept

\* One flusher moves, and its shares stay within what a fault pays for.
Pays(f, r) == CopyShare(f, r)' <= CopyShare(f, r) /\ AttemptKept(f, r)

\* The numbers are natural numbers.
LEMMA Sizes ==
    ASSUME TypeOK, NEW r \in Runs, NEW f \in Flushers
    PROVE  /\ accepted[r] \in Nat /\ faults \in Nat /\ row[r].count \in Nat
           /\ MaxAttempts \in Nat /\ fl[f].n \in Nat
           /\ \A x \in fl[f].todo : x.run \in Runs /\ x.n \in Nat
PROOF
  <1>1. row[r] \in Rows /\ fl[f] \in FlushCalls
    BY DEF TypeOK
  <1>2. accepted[r] \in Nat /\ faults \in Nat /\ MaxAttempts \in Nat
    BY FinalOutboxAssumption DEF TypeOK
  <1>3. row[r].count \in Nat /\ fl[f].n \in Nat
    BY <1>1 DEF Rows, FlushCalls
  <1> QED BY <1>2, <1>3, ItemTypes

\* Listing the due rows costs nothing: what is listed carries the present
\* count.
LEMMA BeginPays ==
    ASSUME TypeOK, TypeOK', NEW f \in Flushers, BeginFlush(f), NEW r \in Runs
    PROVE  Pays(f, r)
PROOF
  <1>1. /\ accepted'[r] = accepted[r] /\ faults' = faults
        /\ row'[r] = Recovered(row[r]) /\ row[r] \in Rows
        /\ OnlyOf(f) /\ fl[f].pc = "drain" /\ fl'[f].pc = "each"
        /\ \A x \in fl'[f].todo : x.n = row'[x.run].count
    BY BeginMove DEF BeginFlush, TypeOK
  <1>2. /\ row'[r].count = row[r].count
        /\ \/ row'[r] = row[r]
           \/ row[r].status = "sending" /\ row[r].stale /\ row'[r].status = "pending"
    BY <1>1 DEF Recovered, Rows
  <1>3. /\ ~SentBy(f, r) /\ ~SentBy(f, r)' /\ ~Carries(f, r) /\ ~Carries(f, r)'
        /\ ~CarriesOld(f, r) /\ ~CarriesOld(f, r)'
    BY <1>1 DEF SentBy, Carries, CarriesOld
  <1>4. InFlight(r)' <=> InFlight(r)
    BY <1>1, <1>3, OneMoves DEF OnlyOf
  <1>5. Ind(Claimable(r))' = Ind(Claimable(r)) /\ Ind(Claimable(r)) \in {0, 1}
    BY <1>2, <1>4 DEF Claimable, Ind
  <1>6. Ind(Carries(f, r))' = 0 /\ Ind(Carries(f, r)) = 0
    BY <1>3 DEF Ind
  <1>7. CopyShare(f, r)' <= CopyShare(f, r)
    BY <1>1, <1>5, <1>6, Sizes DEF CopyShare
  <1>8. CASE row'[r].count + 1 >= MaxAttempts
    <2>1. ~HoldsOld(f, r)'
      <3>1. row'[r].count \in Nat /\ MaxAttempts \in Nat
        BY <1>2, Sizes
      <3> QED BY <1>1, <1>8, <3>1 DEF HoldsOld
    <2>2. /\ Ind(HoldsOld(f, r))' = 0 /\ Ind(HoldsOld(f, r)) \in {0, 1}
          /\ Ind(CarriesOld(f, r))' = 0 /\ Ind(CarriesOld(f, r)) = 0
      BY <1>3, <2>1 DEF Ind
    <2>3. AttemptShare(f, r)' <= AttemptShare(f, r)
      BY <1>1, <1>2, <1>5, <2>2, Sizes DEF AttemptShare
    <2> QED BY <1>2, <1>7, <1>8, <2>3 DEF Pays, AttemptKept
  <1> QED BY <1>7, <1>8 DEF Pays, AttemptKept

\* The claim turns the claimable row into a flight, and the listed copy into a
\* carried one.
LEMMA ClaimPays ==
    ASSUME TypeOK, TypeOK', CallsOK, NEW f \in Flushers, NEW x \in fl[f].todo, Claim(f, x),
           NEW r \in Runs
    PROVE  Pays(f, r)
PROOF
  <1>1. /\ accepted' = accepted /\ faults' = faults /\ faults \in Nat
    BY Sizes DEF Claim
  <1>2. /\ OnlyOf(f) /\ fl[f].pc = "each" /\ fl'[f].todo = fl[f].todo \ {x}
        /\ x.run \in Runs /\ OnlyRow(x.run) /\ x.n \in Nat
        /\ \/ /\ row[x.run].status = "pending" /\ row'[x.run].status = "sending"
              /\ row'[x.run].count = row[x.run].count + 1 /\ ~row'[x.run].stale
              /\ fl'[f].pc = "send" /\ fl'[f].run = {x.run} /\ fl'[f].n = x.n
           \/ row' = row /\ fl'[f].pc = "each"
    BY ClaimMove
  <1>3. HoldsOld(f, r)' => HoldsOld(f, r)
    BY <1>2 DEF HoldsOld
  <1>4. ~SentBy(f, r) /\ ~Carries(f, r) /\ ~CarriesOld(f, r)
    BY <1>2 DEF SentBy, Carries, CarriesOld
  <1>5. CASE row' = row /\ fl'[f].pc = "each"
    <2>1. ~SentBy(f, r)'
      BY <1>5 DEF SentBy
    <2> QED BY <1>1, <1>2, <1>3, <1>4, <1>5, <2>1, Untouched DEF Pays
  <1>6. CASE r # x.run
    <2>1. ~SentBy(f, r)' /\ row'[r] = row[r]
      BY <1>2, <1>6 DEF SentBy, OnlyRow
    <2> QED BY <1>1, <1>2, <1>3, <1>4, <2>1, Untouched DEF Pays
  <1>7. CASE /\ r = x.run /\ row[r].status = "pending" /\ row'[r].status = "sending"
             /\ row'[r].count = row[r].count + 1 /\ ~row'[r].stale
             /\ fl'[f].pc = "send" /\ fl'[f].run = {r} /\ fl'[f].n = x.n
    <2>1. Carries(f, r)' /\ SentBy(f, r)' /\ (CarriesOld(f, r)' <=> x.n + 1 < MaxAttempts)
      BY <1>7 DEF Carries, SentBy, CarriesOld
    <2>2. InFlight(r)'
      BY <1>2, <2>1, OneMoves DEF OnlyOf
    <2>3. Claimable(r) /\ ~Claimable(r)'
      BY <1>7, <2>2 DEF Claimable
    <2>4. ~HoldsOld(f, r)' /\ (x.n + 1 < MaxAttempts => HoldsOld(f, r))
      BY <1>2, <1>7 DEF HoldsOld, CallsOK, CallOK
    <2>5. /\ Ind(Carries(f, r)) = 0 /\ Ind(Carries(f, r))' = 1
          /\ Ind(Claimable(r)) = 1 /\ Ind(Claimable(r))' = 0
          /\ Ind(HoldsOld(f, r))' = 0 /\ Ind(CarriesOld(f, r)) = 0
          /\ Ind(CarriesOld(f, r))' <= Ind(HoldsOld(f, r))
          /\ Ind(CarriesOld(f, r))' \in {0, 1} /\ Ind(HoldsOld(f, r)) \in {0, 1}
      BY <1>4, <2>1, <2>3, <2>4 DEF Ind
    <2>6. CopyShare(f, r)' <= CopyShare(f, r)
      BY <1>1, <2>5, Sizes DEF CopyShare
    <2>7. AttemptShare(f, r)' <= AttemptShare(f, r)
      BY <1>1, <1>7, <2>5, Sizes DEF AttemptShare
    <2>8. row[r].count + 1 >= MaxAttempts \/ row'[r].count + 1 <= MaxAttempts
      BY <1>7, Sizes
    <2> QED BY <2>4, <2>6, <2>7, <2>8 DEF Pays, AttemptKept
  <1> QED BY <1>2, <1>5, <1>6, <1>7

\* A fence only takes weight away.
LEMMA FencePays ==
    ASSUME TypeOK, TypeOK', NEW f \in Flushers, NEW x \in fl[f].todo, FenceOff(f, x),
           NEW r \in Runs
    PROVE  Pays(f, r)
PROOF
  <1>1. /\ accepted' = accepted /\ faults' = faults /\ faults \in Nat
    BY Sizes DEF FenceOff
  <1>2. /\ OnlyOf(f) /\ fl[f].pc = "each" /\ fl'[f].todo = fl[f].todo \ {x}
        /\ fl'[f].pc \in {"fail", "each"} /\ OnlyRow(x.run)
        /\ row' = row \/ Becomes(x.run, "failed_terminal")
    BY FenceMove
  <1>3. /\ HoldsOld(f, r)' => HoldsOld(f, r)
        /\ ~SentBy(f, r) /\ ~SentBy(f, r)' /\ ~Carries(f, r)' /\ ~CarriesOld(f, r)'
    BY <1>2 DEF HoldsOld, SentBy, Carries, CarriesOld
  <1>4. CASE row'[r] = row[r]
    BY <1>1, <1>2, <1>3, <1>4, Untouched DEF Pays
  <1>5. CASE row'[r].status = "failed_terminal" /\ row'[r].count = row[r].count
    <2>1. /\ Ind(Carries(f, r)) \in {0, 1} /\ Ind(Carries(f, r))' = 0
          /\ Ind(Claimable(r)) \in {0, 1} /\ Ind(Claimable(r))' = 0
          /\ Ind(HoldsOld(f, r))' <= Ind(HoldsOld(f, r))
          /\ Ind(HoldsOld(f, r))' \in {0, 1} /\ Ind(HoldsOld(f, r)) \in {0, 1}
          /\ Ind(CarriesOld(f, r)) \in {0, 1} /\ Ind(CarriesOld(f, r))' = 0
      BY <1>3, <1>5 DEF Ind, Claimable
    <2>2. CopyShare(f, r)' <= CopyShare(f, r)
      BY <1>1, <2>1, Sizes DEF CopyShare
    <2>3. AttemptShare(f, r)' <= AttemptShare(f, r)
      BY <1>1, <1>5, <2>1, Sizes DEF AttemptShare
    <2> QED BY <1>5, <2>2, <2>3 DEF Pays, AttemptKept
  <1> QED BY <1>2, <1>4, <1>5 DEF OnlyRow, Becomes

\* An accepted copy uses up the flight; a lost answer is paid for by a fault.
LEMMA SendPays ==
    ASSUME TypeOK, TypeOK', CallsOK, NEW f \in Flushers, SendOk(f) \/ SendErr(f) \/ SendLost(f),
           NEW r \in Runs
    PROVE  Pays(f, r)
PROOF
  <1>1. PICK q \in Runs :
            /\ OnlyOf(f) /\ row' = row /\ fl[f].pc = "send" /\ fl[f].run = {q}
            /\ fl'[f].run = {q} /\ fl'[f].todo = fl[f].todo
            /\ \A p \in Runs \ {q} : accepted'[p] = accepted[p]
            /\ \/ fl'[f].pc = "ok" /\ accepted'[q] = accepted[q] + 1 /\ faults' = faults
               \/ /\ fl'[f].pc = "err" /\ fl'[f].n = fl[f].n
                  /\ \/ accepted'[q] = accepted[q] /\ faults' = faults
                     \/ accepted'[q] = accepted[q] + 1 /\ faults' = faults + 1
    BY SendMove
  <1>2. faults \in Nat /\ faults' \in Nat
    BY FinalOutboxAssumption DEF TypeOK
  <1>3. faults' >= faults
    <2>1. faults' = faults \/ faults' = faults + 1
      BY <1>1
    <2> QED BY <1>2, <2>1
  <1>4. HoldsOld(f, r)' <=> HoldsOld(f, r)
    BY <1>1 DEF HoldsOld
  <1>5. CASE r # q
    <2>1. ~SentBy(f, r) /\ ~SentBy(f, r)' /\ accepted'[r] = accepted[r]
      BY <1>1, <1>5 DEF SentBy
    <2> QED BY <1>1, <1>3, <1>4, <2>1, Untouched DEF Pays
  <1>6. CASE r = q
    <2>1. SentBy(f, r) /\ SentBy(f, r)' /\ Carries(f, r)
      BY <1>1, <1>6 DEF SentBy, Carries
    <2>2. InFlight(r) /\ InFlight(r)'
      BY <1>1, <2>1, OneMoves DEF OnlyOf, InFlight
    <2>3. Claimable(r)' <=> Claimable(r)
      BY <1>1, <2>2 DEF Claimable
    <2>4. CarriesOld(f, r)' => CarriesOld(f, r)
      BY <1>1, <1>6 DEF CarriesOld, Carries
    <2>5. /\ Ind(Carries(f, r)) = 1 /\ Ind(Carries(f, r))' \in {0, 1}
          /\ Ind(Claimable(r)) \in {0, 1} /\ Ind(Claimable(r))' = Ind(Claimable(r))
          /\ Ind(HoldsOld(f, r))' = Ind(HoldsOld(f, r)) /\ Ind(HoldsOld(f, r)) \in {0, 1}
          /\ Ind(CarriesOld(f, r)) \in {0, 1} /\ Ind(CarriesOld(f, r))' \in {0, 1}
          /\ Ind(CarriesOld(f, r))' <= Ind(CarriesOld(f, r))
      BY <1>4, <2>1, <2>3, <2>4 DEF Ind
    <2>6. AttemptShare(f, r)' <= AttemptShare(f, r)
      BY <1>1, <1>2, <1>3, <2>5, Sizes DEF AttemptShare
    <2>7. fl'[f].pc = "ok" => Ind(Carries(f, r))' = 0
      BY DEF Ind, Carries
    <2>8. CopyShare(f, r)' <= CopyShare(f, r)
      BY <1>1, <1>2, <1>6, <2>5, <2>7, Sizes DEF CopyShare
    <2> QED BY <1>1, <2>6, <2>8 DEF Pays, AttemptKept
  <1> QED BY <1>5, <1>6

\* Settling as sent only takes weight away.
LEMMA SentPays ==
    ASSUME TypeOK, TypeOK', CallsOK, NEW f \in Flushers, MarkSent(f), NEW r \in Runs
    PROVE  Pays(f, r)
PROOF
  <1>1. /\ accepted' = accepted /\ faults' = faults /\ faults \in Nat
    BY Sizes DEF MarkSent
  <1>2. PICK q \in Runs :
            /\ OnlyOf(f) /\ OnlyRow(q) /\ fl[f].pc = "ok" /\ fl[f].run = {q}
            /\ fl'[f].todo = fl[f].todo /\ fl'[f].pc \in {"finish", "each"}
            /\ \/ Becomes(q, "sent")
               \/ row[q].status # "sending" /\ row' = row
    BY SentMove
  <1>3. /\ HoldsOld(f, r)' <=> HoldsOld(f, r)
        /\ ~SentBy(f, r)' /\ ~Carries(f, r)' /\ ~CarriesOld(f, r)'
        /\ SentBy(f, r) => r = q
    BY <1>2 DEF HoldsOld, SentBy, Carries, CarriesOld
  <1>4. CASE row'[r] = row[r] /\ (r # q \/ row[r].status # "sending")
    BY <1>1, <1>2, <1>3, <1>4, Untouched DEF Pays
  <1>5. CASE row'[r].status = "sent" /\ row'[r].count = row[r].count
    <2>1. /\ Ind(Carries(f, r)) \in {0, 1} /\ Ind(Carries(f, r))' = 0
          /\ Ind(Claimable(r)) \in {0, 1} /\ Ind(Claimable(r))' = 0
          /\ Ind(HoldsOld(f, r))' = Ind(HoldsOld(f, r)) /\ Ind(HoldsOld(f, r)) \in {0, 1}
          /\ Ind(CarriesOld(f, r)) \in {0, 1} /\ Ind(CarriesOld(f, r))' = 0
      BY <1>3, <1>5 DEF Ind, Claimable
    <2>2. CopyShare(f, r)' <= CopyShare(f, r)
      BY <1>1, <2>1, Sizes DEF CopyShare
    <2>3. AttemptShare(f, r)' <= AttemptShare(f, r)
      BY <1>1, <1>5, <2>1, Sizes DEF AttemptShare
    <2> QED BY <1>5, <2>2, <2>3 DEF Pays, AttemptKept
  <1> QED BY <1>2, <1>4, <1>5 DEF OnlyRow, Becomes

\* A retry turns the flight into a claimable row; it needs a count below the
\* limit.
LEMMA FailedPays ==
    ASSUME TypeOK, TypeOK', CallsOK, NEW f \in Flushers, MarkFailed(f), NEW r \in Runs
    PROVE  Pays(f, r)
PROOF
  <1>1. /\ accepted' = accepted /\ faults' = faults /\ faults \in Nat
    BY Sizes DEF MarkFailed
  <1>2. PICK q \in Runs :
            /\ OnlyOf(f) /\ OnlyRow(q) /\ fl[f].pc = "err" /\ fl[f].run = {q}
            /\ fl'[f].todo \in {fl[f].todo, {}} /\ fl'[f].pc \notin {"send", "ok", "err"}
            /\ \/ Becomes(q, "failed_terminal")
               \/ Becomes(q, "pending") /\ fl[f].n + 1 < MaxAttempts
               \/ row[q].status # "sending" /\ row' = row
    BY FailedMove DEF Over
  <1>3. /\ HoldsOld(f, r)' => HoldsOld(f, r)
        /\ ~SentBy(f, r)' /\ ~Carries(f, r)' /\ ~CarriesOld(f, r)'
        /\ SentBy(f, r) => r = q
    BY <1>2 DEF HoldsOld, SentBy, Carries, CarriesOld
  <1>4. CASE row'[r] = row[r] /\ (r # q \/ row[r].status # "sending")
    BY <1>1, <1>2, <1>3, <1>4, Untouched DEF Pays
  <1>5. CASE /\ r = q /\ row'[r].status \in {"failed_terminal", "pending"}
             /\ row'[r].count = row[r].count
             /\ (row'[r].status = "pending" => fl[f].n + 1 < MaxAttempts)
    <2>1. Carries(f, r) /\ (row'[r].status = "pending" => CarriesOld(f, r))
      BY <1>2, <1>5 DEF Carries, CarriesOld
    <2>2. /\ Ind(Carries(f, r)) = 1 /\ Ind(Carries(f, r))' = 0
          /\ Ind(Claimable(r)) \in {0, 1} /\ Ind(Claimable(r))' \in {0, 1}
          /\ Ind(HoldsOld(f, r))' <= Ind(HoldsOld(f, r))
          /\ Ind(HoldsOld(f, r))' \in {0, 1} /\ Ind(HoldsOld(f, r)) \in {0, 1}
          /\ Ind(CarriesOld(f, r)) \in {0, 1} /\ Ind(CarriesOld(f, r))' = 0
      BY <1>3, <1>5, <2>1 DEF Ind
    <2>3. Ind(Claimable(r))' = 0 \/ Ind(CarriesOld(f, r)) = 1
      BY <1>5, <2>1 DEF Ind, Claimable
    <2>4. CopyShare(f, r)' <= CopyShare(f, r)
      BY <1>1, <2>2, Sizes DEF CopyShare
    <2>5. AttemptShare(f, r)' <= AttemptShare(f, r)
      BY <1>1, <1>5, <2>2, <2>3, Sizes DEF AttemptShare
    <2> QED BY <1>5, <2>4, <2>5 DEF Pays, AttemptKept
  <1> QED BY <1>2, <1>4, <1>5 DEF OnlyRow, Becomes

\* The other actions move no weight, except that a failed statement may strand
\* a claim, which its fault pays for.
LEMMA RestPays ==
    ASSUME TypeOK, TypeOK', NEW f \in Flushers, Rest(f), NEW r \in Runs
    PROVE  Pays(f, r)
PROOF
  <1>1. /\ OnlyOf(f) /\ fl'[f].run = {} /\ fl'[f].todo \in {{}, fl[f].todo}
        /\ accepted' = accepted
        /\ fl[f].pc \in {"send", "ok", "err"} => FlushFails(f)
    BY RestMove
  <1>2. faults \in Nat /\ faults' \in Nat /\ MaxAttempts \in Nat /\ MaxAttempts >= 1
    BY FinalOutboxAssumption DEF TypeOK
  <1>3. /\ HoldsOld(f, r)' => HoldsOld(f, r)
        /\ ~SentBy(f, r)' /\ ~Carries(f, r)' /\ ~CarriesOld(f, r)'
    BY <1>1 DEF HoldsOld, SentBy, Carries, CarriesOld
  <1>4. faults' = faults \/ faults' = faults + 1
    BY DEF Rest, Queue, Notify, BeginWait, WakeByPermit, WakeByTimer, WakeByReconciliation,
           WakeUp, SettleRun, EndFlush, FlushFails
  <1>5. SentBy(f, r) => faults' >= faults + 1
    BY <1>1, <1>2 DEF SentBy, FlushFails
  <1>6. faults' >= faults
    BY <1>2, <1>4
  <1>7. CASE row'[r] = row[r]
    BY <1>1, <1>3, <1>5, <1>6, <1>7, Untouched DEF Pays
  <1>8. ASSUME NEW q \in Runs, Queue(f, q)
        PROVE  row'[r] = row[r] \/ /\ r = q /\ row[r].status = "none" /\ row'[r].status = "pending"
                                   /\ row'[r].count = 0 /\ fl'[f].todo = {} /\ fl[f].pc = "off"
                                   /\ faults' = faults
    BY <1>8 DEF Queue, TypeOK, At
  <1>9. CASE /\ row[r].status = "none" /\ row'[r].status = "pending"
             /\ row'[r].count = 0 /\ fl'[f].todo = {} /\ fl[f].pc = "off" /\ faults' = faults
    <2>1. ~HoldsOld(f, r)'
      BY <1>9 DEF HoldsOld
    <2>2. /\ Ind(Carries(f, r)) = 0 /\ Ind(Carries(f, r))' = 0
          /\ Ind(Claimable(r)) = 1 /\ Ind(Claimable(r))' = 1
      BY <1>3, <1>9 DEF Ind, Claimable, Carries
    <2>3. CopyShare(f, r)' <= CopyShare(f, r)
      BY <1>1, <1>9, <2>2, Sizes DEF CopyShare
    <2> QED BY <1>2, <1>9, <2>1, <2>3 DEF Pays, AttemptKept
  <1>10. (\E q \in Runs : Queue(f, q)) \/ row' = row
    BY DEF Rest, Notify, BeginWait, WakeByPermit, WakeByTimer, WakeByReconciliation,
           WakeUp, SettleRun, EndFlush, FlushFails
  <1> QED BY <1>7, <1>8, <1>9, <1>10

\* Each step leaves the two weights within their bounds.
LEMMA WeightStep ==
    ASSUME TypeOK, TypeOK', CallsOK, CopyInv, AttemptInv, [Next]_vars
    PROVE  CopyInv' /\ AttemptInv'
PROOF
  <1>0. ASSUME NEW f \in Flushers, OnlyOf(f), \A r \in Runs : Pays(f, r)
        PROVE  CopyInv' /\ AttemptInv'
    BY <1>0, Balanced DEF Pays, OnlyOf
  <1>1. ASSUME NEW f \in Flushers, BeginFlush(f) PROVE CopyInv' /\ AttemptInv'
    BY <1>0, <1>1, BeginPays, BeginMove
  <1>2. ASSUME NEW f \in Flushers, NEW x \in fl[f].todo, Claim(f, x)
        PROVE  CopyInv' /\ AttemptInv'
    BY <1>0, <1>2, ClaimPays, ClaimMove
  <1>3. ASSUME NEW f \in Flushers, NEW x \in fl[f].todo, FenceOff(f, x)
        PROVE  CopyInv' /\ AttemptInv'
    BY <1>0, <1>3, FencePays, FenceMove
  <1>4. ASSUME NEW f \in Flushers, SendOk(f) \/ SendErr(f) \/ SendLost(f)
        PROVE  CopyInv' /\ AttemptInv'
    BY <1>0, <1>4, SendPays, SendMove
  <1>5. ASSUME NEW f \in Flushers, MarkSent(f) PROVE CopyInv' /\ AttemptInv'
    BY <1>0, <1>5, SentPays, SentMove
  <1>6. ASSUME NEW f \in Flushers, MarkFailed(f) PROVE CopyInv' /\ AttemptInv'
    BY <1>0, <1>6, FailedPays, FailedMove
  <1>7. ASSUME NEW f \in Flushers, Rest(f) PROVE CopyInv' /\ AttemptInv'
    BY <1>0, <1>7, RestPays, RestMove
  <1>8. ASSUME NEW r \in Runs, BecomeDue(r) \/ BecomeStale(r) \/ SlowSend(r)
        PROVE  CopyInv' /\ AttemptInv'
    <2>1. /\ fl' = fl /\ accepted' = accepted /\ faults \in Nat /\ faults' \in Nat
          /\ OnlyRow(r) /\ row'[r].count = row[r].count /\ row'[r].status = row[r].status
          /\ \/ faults' = faults /\ row'[r].stale = row[r].stale
             \/ faults' = faults /\ ~InFlight(r)
             \/ faults' = faults + 1
      BY <1>8, FinalOutboxAssumption
      DEF BecomeDue, BecomeStale, SlowSend, TypeOK, Rows, OnlyRow
    <2>2. Scheduler \in Flushers /\ OnlyOf(Scheduler)
      BY <2>1 DEF Flushers, OnlyOf
    <2>3. ASSUME NEW q \in Runs PROVE Pays(Scheduler, q)
      <3>1. /\ HoldsOld(Scheduler, q)' <=> HoldsOld(Scheduler, q)
            /\ Carries(Scheduler, q)' <=> Carries(Scheduler, q)
            /\ CarriesOld(Scheduler, q)' <=> CarriesOld(Scheduler, q)
            /\ InFlight(q)' <=> InFlight(q)
        BY <2>1 DEF HoldsOld, Carries, CarriesOld, InFlight, SentBy
      <3>2. row'[q].count = row[q].count
        BY <2>1 DEF OnlyRow
      <3>3. Ind(Claimable(q))' - faults' <= Ind(Claimable(q)) - faults
        <4>1. faults' = faults => (Claimable(q)' <=> Claimable(q))
          BY <2>1, <3>1 DEF Claimable, OnlyRow
        <4>2. faults' = faults \/ faults' = faults + 1
          BY <2>1
        <4>3. /\ Ind(Claimable(q)) \in {0, 1} /\ Ind(Claimable(q))' \in {0, 1}
              /\ faults' = faults => Ind(Claimable(q))' = Ind(Claimable(q))
          BY <4>1 DEF Ind
        <4>4. faults \in Nat
          BY <2>1
        <4> QED BY <4>2, <4>3, <4>4
      <3>4. /\ Ind(Carries(Scheduler, q))' = Ind(Carries(Scheduler, q))
            /\ Ind(HoldsOld(Scheduler, q))' = Ind(HoldsOld(Scheduler, q))
            /\ Ind(CarriesOld(Scheduler, q))' = Ind(CarriesOld(Scheduler, q))
            /\ Ind(Carries(Scheduler, q)) \in {0, 1} /\ Ind(HoldsOld(Scheduler, q)) \in {0, 1}
            /\ Ind(CarriesOld(Scheduler, q)) \in {0, 1}
            /\ Ind(Claimable(q)) \in {0, 1} /\ Ind(Claimable(q))' \in {0, 1}
        BY <3>1 DEF Ind
      <3>5. CopyShare(Scheduler, q)' <= CopyShare(Scheduler, q)
        BY <2>1, <2>2, <3>3, <3>4, Sizes DEF CopyShare
      <3>6. AttemptShare(Scheduler, q)' <= AttemptShare(Scheduler, q)
        BY <2>1, <2>2, <3>2, <3>3, <3>4, Sizes DEF AttemptShare
      <3> QED BY <3>2, <3>5, <3>6 DEF Pays, AttemptKept
    <2> QED BY <1>0, <2>2, <2>3
  <1>9. CASE CrashAndRestart
    <2>1. /\ row' = row /\ accepted' = accepted /\ faults' = faults + 1 /\ faults \in Nat
          /\ \A f \in Flushers : fl'[f].todo = {} /\ fl'[f].run = {}
      BY <1>9, FinalOutboxAssumption DEF CrashAndRestart, At, TypeOK
    <2>2. ASSUME NEW r \in Runs
          PROVE  /\ Copies(r)' <= 1 + faults'
                 /\ row'[r].count + 1 >= MaxAttempts =>
                        Attempts(r)' <= MaxAttempts + (Cardinality(Flushers) - 1) + faults'
      <3>1. Flights(r)' = {} /\ OldFlights(r)' = {} /\ OldCopies(r)' = {}
        BY <2>1 DEF Flights, OldFlights, OldCopies, Carries, CarriesOld, HoldsOld
      <3>2. /\ Flights(r) \in SUBSET Flushers /\ OldFlights(r) \in SUBSET Flushers
            /\ OldCopies(r) \in SUBSET Flushers
        BY DEF Flights, OldFlights, OldCopies
      <3>3. /\ Cardinality(Flights(r)) \in Nat /\ Cardinality(OldFlights(r)) \in Nat
            /\ Cardinality(OldCopies(r)) \in Nat /\ Cardinality(Flushers) \in Nat
            /\ Cardinality({}) = 0
        BY <3>2, FlushersFinite, FS_EmptySet
      <3>4. Ind(Claimable(r)) \in {0, 1} /\ Ind(Claimable(r))' \in {0, 1}
        BY DEF Ind
      <3>5. accepted[r] \in Nat /\ row[r].count \in Nat /\ MaxAttempts \in Nat
        BY Sizes, FlushersFinite DEF Flushers
      <3>6. Copies(r) <= 1 + faults
        BY DEF CopyInv
      <3>7. Copies(r)' <= 1 + faults'
        BY <2>1, <3>1, <3>3, <3>4, <3>5, <3>6 DEF Copies
      <3>8. ASSUME row[r].count + 1 >= MaxAttempts
            PROVE  Attempts(r)' <= MaxAttempts + (Cardinality(Flushers) - 1) + faults'
        <4>1. Attempts(r) <= MaxAttempts + (Cardinality(Flushers) - 1) + faults
          BY <3>8 DEF AttemptInv
        <4> QED BY <2>1, <3>1, <3>3, <3>4, <3>5, <4>1 DEF Attempts
      <3> QED BY <2>1, <3>7, <3>8
    <2> QED BY <2>2 DEF CopyInv, AttemptInv
  <1>10. CASE FenceRises \/ UNCHANGED vars
    <2>1. UNCHANGED <<row, fl, accepted, faults>>
      BY <1>10 DEF FenceRises, vars
    <2>2. ASSUME NEW r \in Runs PROVE Copies(r)' = Copies(r) /\ Attempts(r)' = Attempts(r)
      BY <2>1 DEF Copies, Attempts, Flights, OldFlights, OldCopies, Claimable, Carries,
                  CarriesOld, HoldsOld, InFlight, SentBy, Ind
    <2> QED BY <2>1, <2>2 DEF CopyInv, AttemptInv
  <1> QED
    BY Steps, <1>1, <1>2, <1>3, <1>4, <1>5, <1>6, <1>7, <1>8, <1>9, <1>10

-----------------------------------------------------------------------------
(* The theorems.                                                            *)

\* The initial states satisfy the invariant.
LEMMA InitIInv ==
    ASSUME Init
    PROVE  IInv
PROOF
  <1> USE FinalOutboxAssumption
  <1>1. TypeOK
    <2>1. NoRow \in Rows /\ At("drain") \in FlushCalls /\ At("off") \in FlushCalls
      BY DEF NoRow, Rows, RowStatus, At, FlushCalls
    <2>2. row \in [Runs -> Rows] /\ fl \in [Flushers -> FlushCalls]
      BY <2>1 DEF Init
    <2>3. accepted \in [Runs -> Nat] /\ faults \in 0 .. MaxFaults
      BY DEF Init
    <2>4. run \in [Runs -> {"active", "finished", "failed"}]
      BY DEF Init
    <2> QED BY <2>2, <2>3, <2>4 DEF Init, TypeOK
  <1>2. \A f \in Flushers :
            /\ fl[f].todo = {} /\ fl[f].run = {}
            /\ fl[f].pc = IF f = Scheduler THEN "drain" ELSE "off"
    BY DEF Init, At
  <1>3. CallsOK
    BY <1>2 DEF CallsOK, CallOK
  <1>4. HonestInv
    BY <1>2 DEF Init, HonestInv, SentIsHonest, NoRow
  <1>5. WakeInv
    BY DEF Init, WakeInv, NoRow
  <1>6. ASSUME NEW r \in Runs
        PROVE  /\ Copies(r) <= 1 + faults
               /\ row[r].count + 1 >= MaxAttempts =>
                    Attempts(r) <= MaxAttempts + (Cardinality(Flushers) - 1) + faults
    <2>1. Flights(r) = {} /\ OldFlights(r) = {} /\ OldCopies(r) = {}
      BY <1>2 DEF Flights, OldFlights, OldCopies, Carries, CarriesOld, HoldsOld
    <2>2. Cardinality({}) = 0 /\ Cardinality(Flushers) \in Nat /\ Cardinality(Flushers) >= 1
      BY FlushersFinite, FS_EmptySet
    <2>3. accepted[r] = 0 /\ row[r].count = 0 /\ faults = 0
      BY DEF Init, NoRow
    <2>4. Ind(Claimable(r)) \in {0, 1}
      BY DEF Ind
    <2> QED BY <2>1, <2>2, <2>3, <2>4 DEF Copies, Attempts
  <1> QED BY <1>1, <1>3, <1>4, <1>5, <1>6 DEF IInv, CopyInv, AttemptInv

\* The invariant is inductive.
LEMMA StepIInv ==
    ASSUME IInv, [Next]_vars
    PROVE  IInv'
PROOF
  <1>1. TypeOK'
    BY TypeStep DEF IInv
  <1>2. CallsOK' /\ HonestInv' /\ WakeInv'
    BY <1>1, CallsStep, HonestStep, WakeStep DEF IInv
  <1>3. CopyInv' /\ AttemptInv'
    BY <1>1, WeightStep DEF IInv
  <1> QED BY <1>1, <1>2, <1>3 DEF IInv

\* The inductive invariant holds for any number of runs, of worker threads, of
\* attempts and of faults.
THEOREM Invariant == Spec => []IInv
PROOF
  <1>1. Init => IInv
    BY InitIInv
  <1>2. IInv /\ [Next]_vars => IInv'
    BY StepIInv
  <1> QED BY <1>1, <1>2, PTL DEF Spec

\* The two weights bound the accepted copies and the attempts.
LEMMA BoundsFollow == IInv => SendsBounded
PROOF
  <1> SUFFICES ASSUME IInv PROVE SendsBounded
    OBVIOUS
  <1>1. ASSUME NEW r \in Runs
        PROVE  /\ accepted[r] <= 1 + faults
               /\ row[r].count <= MaxAttempts + (Cardinality(Flushers) - 1) + faults
    <2>1. /\ Flights(r) \in SUBSET Flushers /\ OldFlights(r) \in SUBSET Flushers
          /\ OldCopies(r) \in SUBSET Flushers
      BY DEF Flights, OldFlights, OldCopies
    <2>2. /\ Cardinality(Flights(r)) \in Nat /\ Cardinality(OldFlights(r)) \in Nat
          /\ Cardinality(OldCopies(r)) \in Nat
          /\ Cardinality(Flushers) \in Nat /\ Cardinality(Flushers) >= 1
      BY <2>1, FlushersFinite
    <2>3. Ind(Claimable(r)) \in {0, 1}
      BY DEF Ind
    <2>4. accepted[r] \in Nat /\ row[r].count \in Nat /\ MaxAttempts \in Nat /\ faults \in Nat
      BY Sizes DEF IInv, Flushers
    <2>5. Copies(r) <= 1 + faults
      BY DEF IInv, CopyInv
    <2>6. accepted[r] <= 1 + faults
      BY <2>2, <2>3, <2>4, <2>5 DEF Copies
    <2>7. CASE row[r].count + 1 >= MaxAttempts
      <3>1. Attempts(r) <= MaxAttempts + (Cardinality(Flushers) - 1) + faults
        BY <2>7 DEF IInv, AttemptInv
      <3> QED BY <2>2, <2>3, <2>4, <2>6, <3>1 DEF Attempts
    <2>8. CASE row[r].count + 1 < MaxAttempts
      BY <2>2, <2>4, <2>6, <2>8
    <2> QED BY <2>4, <2>7, <2>8
  <1> QED BY <1>1 DEF IInv, SendsBounded, CopiesExplained, AttemptsBounded

\* However many threads flush the outbox at the same time, the service accepts a
\* reply at most once more than there were faults, and a row is claimed at most
\* MaxAttempts times, once more for each other flusher and once more for each
\* fault (mark_runtime_final_outbox_sending, mark_runtime_final_outbox_retry and
\* the limit compared in flush_runtime_final_outbox).
THEOREM BoundedSends == Spec => []SendsBounded
PROOF
  <1>1. Spec => []IInv
    BY Invariant
  <1> QED BY <1>1, BoundsFollow, PTL

\* A row is sent, and a run finished, only after the service accepted a copy of
\* the reply (mark_runtime_final_outbox_sent, finish_active_runtime_run).
THEOREM HonestOutbox == Spec => []SentIsHonest
PROOF
  <1>1. IInv => SentIsHonest
    BY DEF IInv, HonestInv
  <1>2. Spec => []IInv
    BY Invariant
  <1> QED BY <1>1, <1>2, PTL

\* The scheduler never waits for a pending reply that has no timer, no stored
\* permit and no worker left to notify (next_due, wait_for_queue_wakeup).
THEOREM WakeupKept == Spec => []NoLostWakeup
PROOF
  <1>1. IInv => NoLostWakeup
    BY DEF IInv, WakeInv, NoLostWakeup
  <1>2. Spec => []IInv
    BY Invariant
  <1> QED BY <1>1, <1>2, PTL

-----------------------------------------------------------------------------
(* The outbox keeps the promise made to the task, step by step.             *)

\* What the task sees is a function of the status.
LEMMA FinalValues ==
    ASSUME TypeOK, NEW r \in Runs
    PROVE  /\ Final[r] = "none" <=> row[r].status = "none"
           /\ Final[r] = "pending" <=> row[r].status \in {"pending", "sending"}
           /\ Final[r] = "sent" <=> row[r].status = "sent"
           /\ Final[r] = "failed" <=> row[r].status = "failed_terminal"
           /\ Final[r] \in {"none", "pending", "sent", "failed"}
PROOF
  <1>1. row[r].status \in RowStatus
    BY DEF TypeOK, Rows
  <1> QED BY <1>1 DEF Final, FinalOf, RowStatus

\* What may happen to the status of one row.
Moves(s, t) ==
    \/ s = t
    \/ s = "none" /\ t = "pending"
    \/ s \in {"pending", "sending"} /\ t \in {"pending", "sending", "sent", "failed_terminal"}

\* A legal move of one row is a step of ReplyDelivery or stutters.
LEMMA FinalMoves ==
    ASSUME TypeOK, TypeOK', NEW r \in Runs, OnlyRow(r), Moves(row[r].status, row'[r].status)
    PROVE  [D!NextFinal]_Final
PROOF
  <1>1. ASSUME NEW q \in Runs
        PROVE  (q # r \/ row'[q].status = row[q].status) => Final'[q] = Final[q]
    BY <1>1 DEF Final, OnlyRow
  <1>2. /\ Final = [q \in Runs |-> Final[q]]
        /\ Final' = [q \in Runs |-> Final'[q]]
    BY DEF Final
  <1>a. /\ Final[r] = "none" <=> row[r].status = "none"
        /\ Final[r] = "pending" <=> row[r].status \in {"pending", "sending"}
    BY FinalValues
  <1>b. /\ Final'[r] = "none" <=> row'[r].status = "none"
        /\ Final'[r] = "pending" <=> row'[r].status \in {"pending", "sending"}
        /\ Final'[r] = "sent" <=> row'[r].status = "sent"
        /\ Final'[r] = "failed" <=> row'[r].status = "failed_terminal"
    <2>1. row'[r].status \in RowStatus
      BY DEF TypeOK, Rows
    <2> QED BY <2>1 DEF Final, FinalOf, RowStatus
  <1>3. CASE Final'[r] = Final[r]
    <2>1. Final' = Final
      BY <1>1, <1>2, <1>3
    <2> QED BY <2>1
  <1>4. CASE Final[r] = "none" /\ Final'[r] = "pending"
    <2>1. Final' = [Final EXCEPT ![r] = "pending"]
      BY <1>1, <1>2, <1>4
    <2>2. D!QueueFinal(r)
      BY <1>4, <2>1 DEF D!QueueFinal
    <2> QED BY <2>2 DEF D!NextFinal
  <1>5. CASE Final[r] = "pending" /\ Final'[r] \in {"sent", "failed"}
    <2>1. Final' = [Final EXCEPT ![r] = Final'[r]]
      BY <1>1, <1>2, <1>5
    <2>2. D!Settle(r)
      BY <1>5, <2>1 DEF D!Settle, D!SettleFinal
    <2> QED BY <2>2 DEF D!NextFinal
  <1> QED BY <1>1, <1>a, <1>b, <1>3, <1>4, <1>5 DEF Moves

\* Taking back claims stutters.
LEMMA FinalStill ==
    ASSUME \A r \in Runs : row'[r].status = row[r].status
           \/ (row[r].status = "sending" /\ row'[r].status = "pending")
    PROVE  [D!NextFinal]_Final
PROOF
  <1>1. \A r \in Runs : FinalOf(row'[r].status) = FinalOf(row[r].status)
    BY DEF FinalOf
  <1>2. Final' = Final
    BY <1>1 DEF Final
  <1> QED BY <1>2

\* Every step is a step of ReplyDelivery or stutters.
LEMMA FinalStep ==
    ASSUME TypeOK, TypeOK', CallsOK, [Next]_vars
    PROVE  [D!NextFinal]_Final
PROOF
  <1>0. ASSUME NEW r \in Runs, OnlyRow(r), Moves(row[r].status, row'[r].status)
        PROVE  [D!NextFinal]_Final
    BY <1>0, FinalMoves
  <1>1. ASSUME NEW f \in Flushers, BeginFlush(f) PROVE [D!NextFinal]_Final
    <2>1. ASSUME NEW r \in Runs
          PROVE  \/ row'[r].status = row[r].status
                 \/ row[r].status = "sending" /\ row'[r].status = "pending"
      <3>1. row'[r] = Recovered(row[r]) /\ row[r] \in Rows
        BY <1>1, BeginMove DEF TypeOK
      <3> QED BY <3>1 DEF Recovered, Rows
    <2> QED BY <2>1, FinalStill
  <1>2. ASSUME NEW f \in Flushers, NEW x \in fl[f].todo, Claim(f, x) PROVE [D!NextFinal]_Final
    <2>1. /\ x.run \in Runs /\ OnlyRow(x.run)
          /\ Moves(row[x.run].status, row'[x.run].status)
      BY <1>2, ClaimMove DEF Moves
    <2> QED BY <1>0, <2>1
  <1>3. ASSUME NEW f \in Flushers, NEW x \in fl[f].todo, FenceOff(f, x)
        PROVE  [D!NextFinal]_Final
    <2>1. /\ x.run \in Runs /\ OnlyRow(x.run)
          /\ Moves(row[x.run].status, row'[x.run].status)
      BY <1>3, FenceMove DEF Moves, Becomes
    <2> QED BY <1>0, <2>1
  <1>4. ASSUME NEW f \in Flushers, MarkSent(f) PROVE [D!NextFinal]_Final
    <2>1. \E r \in Runs : OnlyRow(r) /\ Moves(row[r].status, row'[r].status)
      BY <1>4, SentMove DEF Moves, Becomes
    <2> QED BY <1>0, <2>1
  <1>5. ASSUME NEW f \in Flushers, MarkFailed(f) PROVE [D!NextFinal]_Final
    <2>1. \E r \in Runs : OnlyRow(r) /\ Moves(row[r].status, row'[r].status)
      BY <1>5, FailedMove DEF Moves, Becomes
    <2> QED BY <1>0, <2>1
  <1>6. ASSUME NEW w \in Workers, NEW r \in Runs, Queue(w, r) PROVE [D!NextFinal]_Final
    <2>1. OnlyRow(r) /\ Moves(row[r].status, row'[r].status)
      BY <1>6 DEF Queue, Moves, OnlyRow, TypeOK
    <2> QED BY <1>0, <2>1
  <1>7. ASSUME NEW r \in Runs, BecomeDue(r) \/ BecomeStale(r) \/ SlowSend(r)
        PROVE  [D!NextFinal]_Final
    <2>1. \A q \in Runs : row'[q].status = row[q].status
      BY <1>7 DEF BecomeDue, BecomeStale, SlowSend, TypeOK, Rows
    <2> QED BY <2>1, FinalStill
  <1>8. CASE row' = row
    BY <1>8, FinalStill
  <1>9. ASSUME NEW f \in Flushers, SendOk(f) \/ SendErr(f) \/ SendLost(f)
        PROVE row' = row
    BY <1>9 DEF SendOk, SendErr, SendLost
  <1>10. ASSUME NEW f \in Flushers, Rest(f)
         PROVE row' = row \/ \E w \in Workers, r \in Runs : Queue(w, r)
    BY <1>10 DEF Rest, Notify, BeginWait, WakeByPermit, WakeByTimer, WakeByReconciliation,
                 WakeUp, SettleRun, EndFlush, FlushFails
  <1>11. CrashAndRestart \/ FenceRises \/ UNCHANGED vars => row' = row
    BY DEF CrashAndRestart, FenceRises, vars
  <1> QED
    BY Steps, <1>1, <1>2, <1>3, <1>4, <1>5, <1>6, <1>7, <1>8, <1>9, <1>10, <1>11

\* The safety part of ImplementsDelivery: no reply settles before it is queued, a
\* reply settles once, and a settled reply stays settled, whatever the flushers
\* and the faults do to the table.
THEOREM DeliverySteps == Spec => D!InitFinal /\ [][D!NextFinal]_Final
PROOF
  <1>1. Init => D!InitFinal
    BY DEF Init, D!InitFinal, Final, FinalOf, NoRow
  <1>2. IInv /\ IInv' /\ [Next]_vars => [D!NextFinal]_Final
    BY FinalStep DEF IInv
  <1>3. Spec => []IInv
    BY Invariant
  <1> QED BY <1>1, <1>2, <1>3, PTL DEF Spec

=============================================================================
