------------------------- MODULE OutboxPublisherProofs -------------------------
(***************************************************************************)
(* Theorems about the outbox publisher, for any number of events, workers  *)
(* and faults.                                                             *)
(***************************************************************************)
EXTENDS OutboxPublisher, TLAPS, SequenceTheorems

Ids == Workers \X Nat

-----------------------------------------------------------------------------
(* What the operators on leased rows do to the type of a row.              *)

\* The numbers of a lease, in the form the steps below use.
LEMMA LeaseNumbers ==
    Lease \in Nat /\ MaxAttempts \in Nat /\ BackoffMax \in Nat
      /\ MaxLag \in Nat /\ MaxLag < Lease
  BY LeaseAssumption, BackoffAssumption DEF LeaseAssumption, BackoffAssumption

\* A record with the fields of a row keeps its type under typed updates.
LEMMA RecordUpdate ==
    ASSUME NEW St, NEW At, NEW Av, NEW Ow, NEW Le,
           NEW r \in [status : St, attempts : At, avail : Av, owner : Ow, lease : Le],
           NEW st \in St, NEW n \in At, NEW o \in Ow, NEW l \in Le
    PROVE  /\ [r EXCEPT !.status = st, !.owner = o, !.lease = l]
                \in [status : St, attempts : At, avail : Av, owner : Ow, lease : Le]
           /\ [r EXCEPT !.status = st, !.owner = o, !.lease = l, !.attempts = n]
                \in [status : St, attempts : At, avail : Av, owner : Ow, lease : Le]
  OBVIOUS

\* A row stays a row when its fields get values of their ranges.
LEMMA UpdatedRow ==
    ASSUME NEW ids, NEW r \in Row(ids), NEW st \in Claimable \cup Terminal,
           NEW o \in ids \cup {NoOne}, NEW l \in (-MaxLag)..Lease, NEW n \in Nat
    PROVE  /\ [r EXCEPT !.status = st, !.owner = o, !.lease = l] \in Row(ids)
           /\ [r EXCEPT !.status = st, !.owner = o, !.lease = l, !.attempts = n]
                \in Row(ids)
  <1> st \in Claimable \cup Terminal \cup {"absent"}
    OBVIOUS
  <1> QED BY RecordUpdate, Zenon DEF Row

\* Claiming a due row with a clock at most MaxLag old yields a row.
LEMMA ClaimedRow ==
    ASSUME NEW ids, NEW r \in Row(ids), NEW id \in ids, NEW late \in 0..MaxLag
    PROVE  Claimed(r, id, late) \in Row(ids)
  <1>1. Lease - late \in (-MaxLag)..Lease /\ r.attempts + 1 \in Nat
    BY LeaseNumbers DEF Row
  <1> QED BY <1>1, UpdatedRow DEF Claimed, Claimable

\* Releasing a row into a status of the enum yields a row.
LEMMA ReleasedRow ==
    ASSUME NEW ids, NEW r \in Row(ids), NEW st \in Claimable \cup Terminal
    PROVE  Released(r, st) \in Row(ids)
  <1>1. 0 \in (-MaxLag)..Lease
    BY LeaseNumbers
  <1> QED BY <1>1, UpdatedRow DEF Released

\* A retry is scheduled within the cap of the backoff.
LEMMA RetriedRow ==
    ASSUME NEW ids, NEW r \in Row(ids), NEW n, NEW d \in Delays(n)
    PROVE  Retried(r, d) \in Row(ids)
  <1>1. d \in (-MaxLag)..BackoffMax
    BY LeaseNumbers DEF Delays
  <1>2. Released(r, "failed") \in Row(ids)
    BY ReleasedRow DEF Claimable
  <1> QED
    BY <1>1, <1>2 DEF Retried, Row

\* Time keeps a row a row: the timers stop at -MaxLag.
LEMMA AgedRow ==
    ASSUME NEW ids, NEW r \in Row(ids)
    PROVE  Aged(r) \in Row(ids)
  <1>1. /\ Older(r.avail) \in (-MaxLag)..BackoffMax
        /\ Older(r.lease) \in (-MaxLag)..Lease
    BY LeaseNumbers DEF Older, Row
  <1>2. CASE r.status \in Claimable
    <2> DEFINE l == IF r.owner = NoOne THEN r.lease ELSE Older(r.lease)
    <2>1. Aged(r) = [status |-> r.status, attempts |-> r.attempts,
                     avail |-> Older(r.avail), owner |-> r.owner, lease |-> l]
      BY <1>2 DEF Aged, Row
    <2>2. l \in (-MaxLag)..Lease
      BY <1>1 DEF Row
    <2> HIDE DEF l
    <2> QED BY <1>1, <2>1, <2>2 DEF Row
  <1>3. CASE r.status \notin Claimable
    BY <1>3 DEF Aged
  <1> QED BY <1>2, <1>3

-----------------------------------------------------------------------------
(* What the operators keep.                                                *)

\* Time changes neither the status, the owner nor the attempts of a row, and
\* nothing at all of a terminal row.
LEMMA AgedKeeps ==
    ASSUME NEW ids, NEW r \in Row(ids)
    PROVE  /\ Aged(r).status = r.status
           /\ Aged(r).owner = r.owner
           /\ Aged(r).attempts = r.attempts
           /\ r.status \in Terminal => Aged(r) = r
  BY DEF Aged, Row, Claimable, Terminal

\* A claim leaves a row in processing under its new owner, one attempt later.
LEMMA ClaimedIs ==
    ASSUME NEW ids, NEW r \in Row(ids), NEW id, NEW late
    PROVE  /\ Claimed(r, id, late).status = "processing"
           /\ Claimed(r, id, late).owner = id
           /\ Claimed(r, id, late).attempts = r.attempts + 1
  BY DEF Claimed, Row

\* A released row has no owner, its new status and the attempts it had.
LEMMA ReleasedIs ==
    ASSUME NEW ids, NEW r \in Row(ids), NEW st
    PROVE  /\ Released(r, st).status = st
           /\ Released(r, st).owner = NoOne
           /\ Released(r, st).attempts = r.attempts
  BY DEF Released, Row

\* A row to be retried is a released row in status failed.
LEMMA RetriedIs ==
    ASSUME NEW ids, NEW r \in Row(ids), NEW d
    PROVE  /\ Retried(r, d).status = "failed"
           /\ Retried(r, d).owner = NoOne
           /\ Retried(r, d).attempts = r.attempts
  BY DEF Retried, Released, Row

\* claim_next takes due rows of the table only.
LEMMA BatchesAreDue ==
    ASSUME NEW table, NEW late, NEW S \in Batches(table, late)
    PROVE  S \subseteq DOMAIN table /\ \A k \in S : Due(table[k], late)
  BY DEF Batches

\* A row is due only when nobody holds a live lease on it.
LEMMA DueIsNotLive ==
    ASSUME NEW ids, NEW r \in Row(ids), NEW late \in 0..MaxLag, Due(r, late)
    PROVE  ~Live(r) /\ r.status \in Claimable
  BY LeaseNumbers DEF Due, Live, Row

-----------------------------------------------------------------------------
(* Type correctness.                                                       *)

\* Every step that ends an item leaves rows in the table.
LEMMA TransitionTypeOK ==
    ASSUME TypeOK, NEW p \in Workers, pub[p].cur \in Events, Transition(p)
    PROVE  outbox' \in [Events -> Row(Ids)]
  <1> DEFINE e == pub[p].cur
  <1>0. outbox \in [Events -> Row(Ids)] /\ outbox[e] \in Row(Ids)
    BY DEF TypeOK, Ids
  <1>1. CASE MarkPublished(p)
    <2>1. Released(outbox[e], "published") \in Row(Ids)
      BY <1>0, ReleasedRow DEF Terminal
    <2> QED BY <1>0, <1>1, <2>1 DEF MarkPublished, Settle
  <1>2. CASE DeadLetter(p)
    <2>1. Released(outbox[e], "dead_letter") \in Row(Ids)
      BY <1>0, ReleasedRow DEF Terminal
    <2> QED BY <1>0, <1>2, <2>1 DEF DeadLetter, Settle
  <1>3. CASE ScheduleRetry(p)
    <2>1. PICK d \in Delays(pub[p].batch[e]) :
             outbox' = IF Owns(p, e) THEN [outbox EXCEPT ![e] = Retried(@, d)]
                       ELSE outbox
      BY <1>3 DEF ScheduleRetry, Settle
    <2>2. Retried(outbox[e], d) \in Row(Ids)
      BY <1>0, RetriedRow
    <2> QED BY <1>0, <2>1, <2>2
  <1> QED BY <1>1, <1>2, <1>3 DEF Transition
\* What a worker drops when its cycle ends is a batch with no rows.
LEMMA NoBatchType == NoBatch \in [Events -> Nat]
  BY DEF NoBatch

\* Between the XADD of an item and its transaction the item is an event.
CurIsEvent == \A p \in Workers :
    pub[p].pc \in {"mark", "retry", "bury"} => pub[p].cur \in Events

TInv == TypeOK /\ CurIsEvent

\* Initially the types hold.
LEMMA InitTypes == Init => TInv
  <1> SUFFICES ASSUME Init PROVE TInv
    OBVIOUS
  <1>1. Absent \in Row(Ids)
    BY LeaseNumbers DEF Absent, Row
  <1>2. [pc |-> "idle", inc |-> 0, batch |-> NoBatch, cur |-> NoOne] \in Publisher
    BY NoBatchType DEF Publisher
  <1>3. outbox \in [Events -> Row(Ids)] /\ pub \in [Workers -> Publisher]
    BY <1>1, <1>2 DEF Init
  <1>4. stream \in Seq(Events) /\ faults \in Nat
    BY DEF Init
  <1>5. CurIsEvent
    BY DEF Init, CurIsEvent
  <1> QED BY <1>3, <1>4, <1>5 DEF TInv, TypeOK, Ids

\* The bound on faults only ever adds a natural number to them.
LEMMA FaultType == ASSUME faults \in Nat, NEW n \in Nat, Fault(n) PROVE faults' \in Nat
  BY DEF Fault

\* A claim keeps the types.
LEMMA ClaimTypes ==
    ASSUME TInv, NEW p \in Workers, NEW late \in 0..MaxLag, NEW heard \in BOOLEAN,
           ClaimNext(p, late, heard)
    PROVE  TInv'
  <1>1. PICK S \in Batches(outbox, late) :
          /\ outbox' = ClaimRows(outbox, S, Id(p), late)
          /\ IF heard
             THEN pub' = [pub EXCEPT ![p].pc = "batch", ![p].batch =
                    [e \in Events |-> IF e \in S THEN outbox[e].attempts + 1 ELSE 0]]
             ELSE UNCHANGED pub
    BY DEF ClaimNext
  <1>2. Id(p) \in Ids
    BY DEF TInv, TypeOK, Publisher, Id, Ids
  <1>3. \A e \in Events : Claimed(outbox[e], Id(p), late) \in Row(Ids)
    BY <1>2, ClaimedRow DEF TInv, TypeOK, Ids
  <1>4. outbox' \in [Events -> Row(Ids)]
    BY <1>1, <1>3 DEF ClaimRows, TInv, TypeOK, Ids
  <1>5. faults' \in Nat /\ stream' \in Seq(Events)
    <2>1. faults' \in Nat
      BY FaultType DEF ClaimNext, Fault, TInv, TypeOK
    <2> QED BY <2>1 DEF ClaimNext, TInv, TypeOK
  <1>6. CASE heard
    <2> DEFINE b == [e \in Events |-> IF e \in S THEN outbox[e].attempts + 1 ELSE 0]
    <2>1. b \in [Events -> Nat]
      BY DEF TInv, TypeOK, Row
    <2>2. pub' = [pub EXCEPT ![p] = [pub[p] EXCEPT !.pc = "batch", !.batch = b]]
      BY <1>1, <1>6 DEF TInv, TypeOK
    <2> HIDE DEF b
    <2>3. [pub[p] EXCEPT !.pc = "batch", !.batch = b] \in Publisher
      <3>1. pub[p] \in Publisher
        BY DEF TInv, TypeOK
      <3> QED BY ONLY <2>1, <3>1 DEF Publisher
    <2>4. pub' \in [Workers -> Publisher]
      BY <2>2, <2>3 DEF TInv, TypeOK
    <2>5. pub'[p].pc = "batch" /\ \A q \in Workers \ {p} : pub'[q] = pub[q]
      BY <2>2 DEF TInv, TypeOK, Publisher
    <2>6. CurIsEvent'
      BY <2>5 DEF TInv, CurIsEvent
    <2> QED BY <1>4, <1>5, <2>4, <2>6 DEF TInv, TypeOK, Ids
  <1>7. CASE ~heard
    BY <1>1, <1>4, <1>5, <1>7 DEF TInv, TypeOK, CurIsEvent, Ids
  <1> QED BY <1>6, <1>7

\* A step that changes one publisher into a well-typed one, with an event in
\* hand if its state needs one, keeps what TInv says of pub.
LEMMA OnePublisher ==
    ASSUME TInv, NEW p \in Workers, NEW q \in Publisher,
           q.pc \in {"mark", "retry", "bury"} => q.cur \in Events,
           pub' = [pub EXCEPT ![p] = q]
    PROVE  pub' \in [Workers -> Publisher] /\ CurIsEvent'
  <1>1. pub' \in [Workers -> Publisher]
    BY DEF TInv, TypeOK
  <1>2. pub'[p] = q /\ \A w \in Workers \ {p} : pub'[w] = pub[w]
    BY DEF TInv, TypeOK
  <1>3. CurIsEvent'
    BY <1>2 DEF TInv, CurIsEvent
  <1> QED BY <1>1, <1>3

\* An XADD call leaves the stream a sequence of events, forgets no entry and
\* adds none but copies of its event.
LEMMA SendingIs ==
    ASSUME stream \in Seq(Events), NEW e \in Events, NEW n \in Nat, Sending(e, n)
    PROVE  /\ stream' \in Seq(Events)
           /\ Sent \subseteq Sent' /\ Sent' \subseteq Sent \cup {e}
           /\ n > 0 => e \in Sent'
  <1> DEFINE c == [i \in 1..n |-> e]
  <1>1. c \in Seq(Events) /\ Len(c) = n /\ \A i \in 1..n : c[i] = e
    OBVIOUS
  <1>2. stream' = stream \o c
    BY DEF Sending
  <1> HIDE DEF c
  <1>3. /\ stream' \in Seq(Events)
        /\ Len(stream') = Len(stream) + n
        /\ \A i \in 1..(Len(stream) + n) :
             stream'[i] = IF i <= Len(stream) THEN stream[i] ELSE c[i - Len(stream)]
    BY <1>1, <1>2, ConcatProperties
  <1>4. /\ DOMAIN stream = 1..Len(stream) /\ Len(stream) \in Nat
        /\ DOMAIN stream' = 1..(Len(stream) + n)
    BY <1>3
  <1>5. ASSUME NEW i \in 1..Len(stream)
        PROVE  i \in DOMAIN stream' /\ stream'[i] = stream[i]
    BY <1>3, <1>4
  <1>6. ASSUME NEW i \in DOMAIN stream', i \notin DOMAIN stream
        PROVE  stream'[i] = e
    BY <1>1, <1>3, <1>4, <1>6
  <1>7. Sent \subseteq Sent'
    BY <1>4, <1>5 DEF Sent
  <1>8. Sent' \subseteq Sent \cup {e}
    BY <1>4, <1>5, <1>6 DEF Sent
  <1>9. ASSUME n > 0 PROVE e \in Sent'
    <2>1. /\ Len(stream) + 1 \in DOMAIN stream'
          /\ Len(stream) + 1 \notin DOMAIN stream
      BY <1>4, <1>9
    <2> QED BY <1>6, <2>1 DEF Sent
  <1> QED BY <1>3, <1>7, <1>8, <1>9

\* The number of copies an outcome allows is a natural number, positive when
\* the call succeeded.
LEMMA CopiesSentType ==
    ASSUME NEW outcome \in Outcomes, NEW n \in CopiesSent(outcome)
    PROVE  n \in Nat /\ (outcome = "ok" => n > 0)
  BY OutboxAssumption DEF CopiesSent, Outcomes, OutboxAssumption

\* The XADD keeps the types.
LEMMA PublishTypes ==
    ASSUME TInv, NEW p \in Workers, NEW e \in Events, NEW outcome \in Outcomes,
           Publish(p, e, outcome)
    PROVE  TInv'
  <1> DEFINE pc == CASE outcome = "ok" -> "mark" [] outcome = "rejected" -> "bury"
                     [] OTHER -> "retry"
             q == [pub[p] EXCEPT !.cur = e, !.pc = pc]
  <1>1. pc \in {"idle", "batch", "mark", "retry", "bury", "down"}
    OBVIOUS
  <1>2. pub[p] \in Publisher
    BY DEF TInv, TypeOK
  <1>3. pub' = [pub EXCEPT ![p] = q]
    BY DEF Publish, TInv, TypeOK
  <1> HIDE DEF pc
  <1>4. q \in Publisher
    BY <1>1, <1>2 DEF Publisher
  <1>5. q.cur = e
    BY <1>2 DEF Publisher
  <1>6. pub' \in [Workers -> Publisher] /\ CurIsEvent'
    BY <1>3, <1>4, <1>5, OnePublisher
  <1>7. stream' \in Seq(Events) /\ outbox' = outbox /\ faults' = faults
    BY CopiesSentType, SendingIs DEF Publish, TInv, TypeOK
  <1> QED BY <1>6, <1>7 DEF TInv, TypeOK

\* The publisher after an item is well typed, and idle or in its batch.
LEMMA ItemDoneType ==
    ASSUME TInv, NEW p \in Workers, pub[p].cur \in Events
    PROVE  ItemDone(p) \in Publisher /\ ItemDone(p).pc \in {"idle", "batch"}
  <1> DEFINE rest == [pub[p].batch EXCEPT ![pub[p].cur] = 0]
             pc == IF rest = NoBatch THEN "idle" ELSE "batch"
  <1>1. pub[p] \in Publisher
    BY DEF TInv, TypeOK
  <1>2. rest \in [Events -> Nat]
    BY <1>1 DEF Publisher
  <1>3. /\ pc \in {"idle", "batch"}
        /\ pc \in {"idle", "batch", "mark", "retry", "bury", "down"}
    OBVIOUS
  <1>4. ItemDone(p) = [pub[p] EXCEPT !.cur = NoOne, !.batch = rest, !.pc = pc]
    BY DEF ItemDone
  <1> HIDE DEF rest, pc
  <1>5. ItemDone(p) \in Publisher
    <2>1. NoOne \in Events \cup {NoOne}
      OBVIOUS
    <2> QED BY <1>1, <1>2, <1>3, <1>4, <2>1 DEF Publisher
  <1>6. ItemDone(p).pc = pc
    BY <1>1, <1>4 DEF Publisher
  <1> QED BY <1>3, <1>5, <1>6

\* The end of an item keeps the types.
LEMMA FinishTypes ==
    ASSUME TInv, NEW p \in Workers, FinishItem(p)
    PROVE  TInv'
  <1>1. pub[p].cur \in Events
    BY DEF FinishItem, Transition, MarkPublished, DeadLetter, ScheduleRetry,
           TInv, CurIsEvent
  <1>2. outbox' \in [Events -> Row(Ids)]
    BY <1>1, TransitionTypeOK DEF FinishItem, TInv
  <1>3. pub' \in [Workers -> Publisher] /\ CurIsEvent'
    BY <1>1, ItemDoneType, OnePublisher DEF FinishItem
  <1> QED BY <1>2, <1>3 DEF FinishItem, TInv, TypeOK, Ids

\* A worker that drops its batch, by an error, a crash or a stop.
LEMMA DropType ==
    ASSUME TInv, NEW p \in Workers, NEW pc \in {"idle", "down"},
           pub' = [pub EXCEPT ![p] = [@ EXCEPT !.pc = pc, !.batch = NoBatch,
                                               !.cur = NoOne]]
    PROVE  pub' \in [Workers -> Publisher] /\ CurIsEvent'
  <1> DEFINE q == [pub[p] EXCEPT !.pc = pc, !.batch = NoBatch, !.cur = NoOne]
  <1>1. pub[p] \in Publisher /\ pub' = [pub EXCEPT ![p] = q]
    BY DEF TInv, TypeOK
  <1>2. q \in Publisher
    BY <1>1, NoBatchType DEF Publisher
  <1>3. q.pc = pc
    BY <1>1 DEF Publisher
  <1> QED BY <1>1, <1>2, <1>3, OnePublisher

\* A failed transaction, a crash and a stop keep the types.
LEMMA DropTypes ==
    ASSUME TInv, NEW p \in Workers, DatabaseError(p) \/ Crash(p) \/ Stop(p)
    PROVE  TInv'
  <1>1. CASE DatabaseError(p)
    <2>1. pub[p].cur \in Events
      BY <1>1 DEF DatabaseError, TInv, CurIsEvent
    <2>2. outbox' \in [Events -> Row(Ids)]
      BY <1>1, <2>1, TransitionTypeOK DEF DatabaseError, TInv, TypeOK, Ids
    <2>3. faults' \in Nat
      BY <1>1, FaultType DEF DatabaseError, TInv, TypeOK
    <2> QED BY <1>1, <2>2, <2>3, DropType DEF DatabaseError, TInv, TypeOK, Ids
  <1>2. CASE Crash(p) \/ Stop(p)
    <2>1. faults' \in Nat
      BY <1>2, FaultType DEF Crash, Stop, TInv, TypeOK
    <2> QED BY <1>2, <2>1, DropType DEF Crash, Stop, Down, TInv, TypeOK
  <1> QED BY <1>1, <1>2

\* A restart, an insert and the passing of time keep the types.
LEMMA OtherTypes ==
    ASSUME TInv,
           \/ \E p \in Workers : Start(p)
           \/ \E e \in Events : Persist(e)
           \/ Tick
    PROVE  TInv'
  <1>1. ASSUME NEW p \in Workers, Start(p) PROVE TInv'
    <2> DEFINE q == [pub[p] EXCEPT !.pc = "idle", !.inc = pub[p].inc + 1]
    <2>1. pub[p] \in Publisher
      BY DEF TInv, TypeOK
    <2>2. pub' = [pub EXCEPT ![p] = q]
      BY <1>1 DEF Start, TInv, TypeOK
    <2>3. q \in Publisher
      <3>1. pub[p].inc + 1 \in Nat
        BY <2>1 DEF Publisher
      <3>2. "idle" \in {"idle", "batch", "mark", "retry", "bury", "down"}
        OBVIOUS
      <3> QED BY <2>1, <3>1, <3>2 DEF Publisher
    <2>5. q.pc = "idle"
      BY <2>1 DEF Publisher
    <2> HIDE DEF q
    <2>4. pub' \in [Workers -> Publisher] /\ CurIsEvent'
      BY <2>2, <2>3, <2>5, OnePublisher
    <2> QED BY <1>1, <2>4 DEF Start, TInv, TypeOK
  <1>2. ASSUME NEW e \in Events, Persist(e) PROVE TInv'
    <2>1. [outbox[e] EXCEPT !.status = "pending"] \in Row(Ids)
      BY DEF TInv, TypeOK, Ids, Row, Claimable
    <2>2. outbox' = [outbox EXCEPT ![e] = [outbox[e] EXCEPT !.status = "pending"]]
      BY <1>2 DEF Persist, TInv, TypeOK
    <2>3. outbox' \in [Events -> Row(Ids)]
      BY <2>1, <2>2 DEF TInv, TypeOK, Ids
    <2> QED BY <1>2, <2>3 DEF Persist, TInv, TypeOK, CurIsEvent, Ids
  <1>3. ASSUME Tick PROVE TInv'
    <2>1. outbox' \in [Events -> Row(Ids)]
      BY <1>3, AgedRow DEF Tick, AgeOutbox, TInv, TypeOK, Ids
    <2>2. faults' \in Nat
      BY <1>3, FaultType DEF Tick, TInv, TypeOK
    <2> QED BY <1>3, <2>1, <2>2 DEF Tick, TInv, TypeOK, CurIsEvent, Ids
  <1> QED BY <1>1, <1>2, <1>3

\* TInv is inductive.
LEMMA NextTypes == TInv /\ [Next]_outboxVars => TInv'
  <1> SUFFICES ASSUME TInv, [Next]_outboxVars PROVE TInv'
    OBVIOUS
  <1>1. ASSUME NEW p \in Workers, Work(p) PROVE TInv'
    BY <1>1, ClaimTypes, PublishTypes, FinishTypes, DropTypes, OtherTypes DEF Work
  <1>2. CASE UNCHANGED outboxVars
    BY <1>2 DEF outboxVars, TInv, TypeOK, CurIsEvent
  <1> QED BY <1>1, <1>2, OtherTypes DEF Next

\* Whatever workers crash, stop or lose, the rows and the memory of the workers
\* keep their types: no status leaves the enum, no timer its range.
THEOREM TypeCorrect == Spec => []TypeOK
  <1>1. TInv => TypeOK
    BY DEF TInv
  <1> QED BY InitTypes, NextTypes, <1>1, PTL DEF Spec

-----------------------------------------------------------------------------
(* What one step may do to one row.                                        *)

Untouched(e) ==
    /\ outbox'[e].status = outbox[e].status
    /\ outbox'[e].owner = outbox[e].owner
    /\ outbox'[e].attempts = outbox[e].attempts
    /\ outbox[e].status \in Terminal => outbox'[e] = outbox[e]

Inserted(e) ==
    /\ outbox[e].status = "absent" /\ outbox'[e].status = "pending"
    /\ outbox'[e].owner = outbox[e].owner
    /\ outbox'[e].attempts = outbox[e].attempts

Leased(e, p) ==
    /\ pub[p].pc = "idle"
    /\ ~Live(outbox[e]) /\ outbox[e].status \in Claimable
    /\ outbox'[e].status = "processing"
    /\ outbox'[e].owner = Id(p)
    /\ outbox'[e].attempts = outbox[e].attempts + 1

Settled(e, p) ==
    /\ pub[p].cur = e /\ Owns(p, e)
    /\ pub[p].pc \in {"mark", "retry", "bury"}
    /\ outbox'[e].owner = NoOne
    /\ outbox'[e].attempts = outbox[e].attempts
    /\ \/ outbox'[e].status = "published" /\ pub[p].pc = "mark"
       \/ outbox'[e].status = "failed" /\ pub[p].pc = "retry"
       \/ /\ outbox'[e].status = "dead_letter"
          /\ pub[p].pc = "bury" \/ pub[p].batch[e] >= MaxAttempts

\* The transition of an item settles the row in hand, if it is owned, and
\* touches no other row.
LEMMA TransitionRow ==
    ASSUME TInv, NEW p \in Workers, Transition(p),
           pub[p].pc \in {"mark", "retry", "bury"}, NEW e \in Events
    PROVE  outbox'[e] = outbox[e] \/ Settled(e, p)
  <1> DEFINE c == pub[p].cur
  <1>0. outbox \in [Events -> Row(Ids)] /\ c \in Events
    BY DEF TInv, TypeOK, CurIsEvent, Ids
  <1>1. CASE ~Owns(p, c)
    BY <1>1 DEF Transition, MarkPublished, DeadLetter, ScheduleRetry, Settle
  <1>2. CASE Owns(p, c) /\ e # c
    BY <1>0, <1>2 DEF Transition, MarkPublished, DeadLetter, ScheduleRetry, Settle
  <1>3. CASE Owns(p, c) /\ e = c
    <2>0. outbox[e] \in Row(Ids)
      BY <1>0
    <2>1. CASE MarkPublished(p)
      <3>1. outbox'[e] = Released(outbox[e], "published")
        BY <1>0, <1>3, <2>1 DEF MarkPublished, Settle
      <3> QED BY <1>3, <2>0, <2>1, <3>1, ReleasedIs DEF Settled, MarkPublished
    <2>2. CASE DeadLetter(p)
      <3>1. outbox'[e] = Released(outbox[e], "dead_letter")
        BY <1>0, <1>3, <2>2 DEF DeadLetter, Settle
      <3> QED BY <1>3, <2>0, <2>2, <3>1, ReleasedIs DEF Settled, DeadLetter
    <2>3. CASE ScheduleRetry(p)
      <3>1. PICK d : outbox'[e] = Retried(outbox[e], d)
        BY <1>0, <1>3, <2>3 DEF ScheduleRetry, Settle
      <3> QED BY <1>3, <2>0, <2>3, <3>1, RetriedIs DEF Settled, ScheduleRetry
    <2> QED BY <2>1, <2>2, <2>3 DEF Transition
  <1> QED BY <1>1, <1>2, <1>3

\* A claim leases rows that nobody holds a live lease on.
LEMMA ClaimRow ==
    ASSUME TInv, NEW p \in Workers, NEW late \in 0..MaxLag, NEW heard \in BOOLEAN,
           ClaimNext(p, late, heard), NEW e \in Events
    PROVE  outbox'[e] = outbox[e] \/ Leased(e, p)
  <1>1. PICK S \in Batches(outbox, late) : outbox' = ClaimRows(outbox, S, Id(p), late)
    BY DEF ClaimNext
  <1>2. outbox[e] \in Row(Ids) /\ DOMAIN outbox = Events
    BY DEF TInv, TypeOK, Ids
  <1>3. CASE e \in S
    <2>1. Due(outbox[e], late)
      BY <1>3, BatchesAreDue
    <2>2. ~Live(outbox[e]) /\ outbox[e].status \in Claimable
      BY <1>2, <2>1, DueIsNotLive
    <2>3. outbox'[e] = Claimed(outbox[e], Id(p), late)
      BY <1>1, <1>2, <1>3 DEF ClaimRows
    <2> QED BY <1>2, <2>2, <2>3, ClaimedIs DEF Leased, ClaimNext
  <1>4. CASE e \notin S
    BY <1>1, <1>2, <1>4 DEF ClaimRows
  <1> QED BY <1>3, <1>4

\* Every step leaves a row as it is but for its timers, inserts it, leases it
\* or settles it under its owner.
LEMMA RowStep ==
    ASSUME TInv, [Next]_outboxVars, NEW e \in Events
    PROVE  \/ Untouched(e)
           \/ Inserted(e)
           \/ \E p \in Workers : Leased(e, p)
           \/ \E p \in Workers : Settled(e, p) /\ (FinishItem(p) \/ DatabaseError(p))
  <1>0. outbox[e] \in Row(Ids)
    BY DEF TInv, TypeOK, Ids
  <1>1. CASE outbox'[e] = outbox[e]
    BY <1>1 DEF Untouched
  <1>2. ASSUME NEW p \in Workers, FinishItem(p)
        PROVE  outbox'[e] = outbox[e] \/ Settled(e, p)
    BY <1>2, TransitionRow
       DEF FinishItem, Transition, MarkPublished, DeadLetter, ScheduleRetry
  <1>3. ASSUME NEW p \in Workers, DatabaseError(p)
        PROVE  outbox'[e] = outbox[e] \/ Settled(e, p)
    BY <1>3, TransitionRow DEF DatabaseError
  <1>4. CASE \E p \in Workers : Work(p)
    <2>1. PICK p \in Workers : Work(p)
      BY <1>4
    <2>2. CASE FinishItem(p) \/ DatabaseError(p)
      BY <1>1, <1>2, <1>3, <2>2
    <2>3. CASE \E late \in 0..MaxLag, heard \in BOOLEAN : ClaimNext(p, late, heard)
      BY <1>1, <2>3, ClaimRow
    <2>4. CASE \/ \E ev \in Events, outcome \in Outcomes : Publish(p, ev, outcome)
               \/ Crash(p) \/ Stop(p) \/ Start(p)
      BY <1>1, <2>4 DEF Publish, Crash, Stop, Start
    <2> QED BY <2>1, <2>2, <2>3, <2>4 DEF Work
  <1>5. CASE \E ev \in Events : Persist(ev)
    <2>1. PICK ev \in Events : Persist(ev)
      BY <1>5
    <2>2. CASE ev = e
      BY <1>0, <2>1, <2>2 DEF Persist, Inserted, TInv, TypeOK, Row
    <2>3. CASE ev # e
      BY <1>1, <2>1, <2>3 DEF Persist, TInv, TypeOK
    <2> QED BY <2>2, <2>3
  <1>6. CASE Tick
    <2>1. outbox'[e] = Aged(outbox[e])
      BY <1>6 DEF Tick, AgeOutbox
    <2> QED BY <1>0, <2>1, AgedKeeps DEF Untouched
  <1>7. CASE UNCHANGED outboxVars
    BY <1>1, <1>7 DEF outboxVars
  <1> QED BY <1>4, <1>5, <1>6, <1>7 DEF Next

-----------------------------------------------------------------------------
(* Leases, owners and terminal rows.                                       *)

\* No status is in two of the groups that the properties tell apart.
LEMMA StatusesDiffer ==
    /\ Claimable \cap Terminal = {}
    /\ "absent" \notin Claimable \cup Terminal
    /\ "processing" \notin Terminal
  BY DEF Claimable, Terminal

\* While a lease runs no other worker gets the row.
THEOREM LeasesAreExclusive == Spec => LeaseIsExclusive
  <1> DEFINE A == \A e \in Events :
                    Live(outbox[e]) => outbox'[e].owner \in {outbox[e].owner, NoOne}
  <1>1. TInv /\ [Next]_outboxVars => [A]_outboxVars
    <2> SUFFICES ASSUME TInv, [Next]_outboxVars, NEW e \in Events, Live(outbox[e])
                 PROVE  outbox'[e].owner \in {outbox[e].owner, NoOne}
      OBVIOUS
    <2> QED BY RowStep DEF Untouched, Inserted, Leased, Settled
  <1> QED BY InitTypes, NextTypes, <1>1, PTL DEF Spec, LeaseIsExclusive

\* A row leaves processing by the hand of the worker that owns it and has it
\* in hand: a worker whose lease was taken over changes nothing.
THEOREM OwnersSettle == Spec => OnlyOwnerSettles
  <1> DEFINE A == \A e \in Events :
                    outbox[e].status = "processing" /\ outbox'[e].status # "processing"
                      => \E p \in Workers : /\ outbox[e].owner = Id(p)
                                            /\ pub[p].cur = e
                                            /\ pub'[p] # pub[p]
  <1>1. TInv /\ [Next]_outboxVars => [A]_outboxVars
    <2> SUFFICES ASSUME TInv, [Next]_outboxVars, NEW e \in Events,
                        outbox[e].status = "processing", outbox'[e].status # "processing"
                 PROVE  \E p \in Workers : /\ outbox[e].owner = Id(p)
                                           /\ pub[p].cur = e
                                           /\ pub'[p] # pub[p]
      OBVIOUS
    <2>1. PICK p \in Workers : Settled(e, p) /\ (FinishItem(p) \/ DatabaseError(p))
      BY RowStep DEF Untouched, Inserted, Leased
    <2>2. pub[p] \in Publisher /\ pub[p].cur = e /\ e # NoOne
      BY <2>1, OutboxAssumption DEF Settled, TInv, TypeOK, OutboxAssumption
    <2>3. pub'[p].cur = NoOne
      <3>1. pub \in [Workers -> Publisher]
        BY DEF TInv, TypeOK
      <3>2. CASE FinishItem(p)
        <4>1. pub'[p] = ItemDone(p)
          BY <3>1, <3>2 DEF FinishItem
        <4> QED BY <2>2, <4>1 DEF ItemDone, Publisher
      <3>3. CASE DatabaseError(p)
        <4>1. pub'[p] = [pub[p] EXCEPT !.pc = "idle", !.batch = NoBatch, !.cur = NoOne]
          BY <3>1, <3>3 DEF DatabaseError
        <4> QED BY <2>2, <4>1 DEF Publisher
      <3> QED BY <2>1, <3>2, <3>3
    <2> QED BY <2>1, <2>2, <2>3 DEF Settled, Owns
  <1> QED BY InitTypes, NextTypes, <1>1, PTL DEF Spec, OnlyOwnerSettles

\* A published or dead-lettered row never changes again.
THEOREM TerminalRowsAreFinal == Spec => TerminalIsFinal
  <1> DEFINE A == \A e \in Events : outbox[e].status \in Terminal
                                      => outbox'[e] = outbox[e]
  <1>1. TInv /\ [Next]_outboxVars => [A]_outboxVars
    <2> HIDE DEF A
    <2> SUFFICES ASSUME TInv, [Next]_outboxVars
                 PROVE  A
      OBVIOUS
    <2> SUFFICES ASSUME NEW e \in Events, outbox[e].status \in Terminal
                 PROVE  outbox'[e] = outbox[e]
      BY DEF A
    <2>1. CASE Untouched(e)
      BY <2>1 DEF Untouched
    <2>2. ~Inserted(e)
      BY StatusesDiffer DEF Inserted
    <2>3. ASSUME NEW p \in Workers, Leased(e, p) PROVE FALSE
      BY <2>3, StatusesDiffer DEF Leased
    <2>4. ASSUME NEW p \in Workers, Settled(e, p) PROVE FALSE
      BY <2>4, StatusesDiffer, SMTT(30) DEF Settled, Owns
    <2> QED BY <2>1, <2>2, <2>3, <2>4, RowStep
  <1> QED BY InitTypes, NextTypes, <1>1, PTL DEF Spec, TerminalIsFinal

-----------------------------------------------------------------------------
(* Nothing is published that was not sent, nothing sent that was not       *)
(* committed.                                                              *)

\* The worker that is about to mark a row has sent its event.
MarkedWasSent == \A p \in Workers : pub[p].pc = "mark" => pub[p].cur \in Sent

SentInv == TInv /\ PublishedWasSent /\ MarkedWasSent

\* A step sends at most the event of a Publish, and forgets none.
LEMMA SentGrows ==
    ASSUME TInv, [Next]_outboxVars
    PROVE  /\ Sent \subseteq Sent'
           /\ \/ Sent' = Sent
              \/ \E p \in Workers, e \in Events, outcome \in Outcomes :
                   Publish(p, e, outcome) /\ Sent' \subseteq Sent \cup {e}
  <1>1. CASE \E p \in Workers, e \in Events, outcome \in Outcomes : Publish(p, e, outcome)
    <2>1. PICK p \in Workers, e \in Events, outcome \in Outcomes : Publish(p, e, outcome)
      BY <1>1
    <2>2. PICK n \in CopiesSent(outcome) : Sending(e, n)
      BY <2>1 DEF Publish
    <2>3. Sent \subseteq Sent' /\ Sent' \subseteq Sent \cup {e}
      BY <2>2, CopiesSentType, SendingIs DEF TInv, TypeOK
    <2> QED BY <2>1, <2>3
  <1>2. CASE stream' = stream
    BY <1>2 DEF Sent
  <1> QED BY <1>1, <1>2 DEF Next, Work, ClaimNext, FinishItem, DatabaseError, Crash,
             Stop, Start, Persist, Tick, outboxVars

\* A worker comes to mark an event only through its XADD.
LEMMA MarkStep ==
    ASSUME TInv, [Next]_outboxVars, NEW p \in Workers, pub'[p].pc = "mark"
    PROVE  \/ pub'[p] = pub[p]
           \/ \E e \in Events : Publish(p, e, "ok") /\ pub'[p].cur = e
  <1>0. pub[p] \in Publisher
    BY DEF TInv, TypeOK
  <1>1. CASE pub'[p] = pub[p]
    BY <1>1
  <1>2. ASSUME NEW w \in Workers, NEW e \in Events, NEW outcome \in Outcomes,
               Publish(w, e, outcome)
        PROVE  \/ pub'[p] = pub[p]
               \/ \E ev \in Events : Publish(p, ev, "ok") /\ pub'[p].cur = ev
    <2>1. CASE w # p
      BY <1>2, <2>1 DEF Publish, TInv, TypeOK
    <2>2. CASE w = p
      BY <1>0, <1>2, <2>2 DEF Publish, TInv, TypeOK, Publisher, Outcomes
    <2> QED BY <2>1, <2>2
  <1>3. ASSUME NEW w \in Workers, NEW late \in 0..MaxLag, NEW heard \in BOOLEAN,
               ClaimNext(w, late, heard)
        PROVE  pub'[p] = pub[p]
    BY <1>0, <1>3 DEF ClaimNext, TInv, TypeOK, Publisher
  <1>4. ASSUME NEW w \in Workers, FinishItem(w)
        PROVE  pub'[p] = pub[p]
    <2>1. pub[w].cur \in Events
      BY <1>4 DEF FinishItem, Transition, MarkPublished, DeadLetter, ScheduleRetry,
             TInv, CurIsEvent
    <2> QED BY <1>4, <2>1, ItemDoneType DEF FinishItem, TInv, TypeOK
  <1>5. ASSUME NEW w \in Workers, DatabaseError(w) \/ Crash(w) \/ Stop(w) \/ Start(w)
        PROVE  pub'[p] = pub[p]
    <2>0. CASE Start(w)
      <3>1. CASE w = p
        <4>1. pub'[p].pc = "idle"
          BY <1>0, <2>0, <3>1 DEF Start, TInv, TypeOK, Publisher
        <4> QED BY <4>1
      <3>2. CASE w # p
        BY <2>0, <3>2 DEF Start, TInv, TypeOK
      <3> QED BY <3>1, <3>2
    <2>1. ASSUME ~Start(w)
          PROVE  \E x \in Publisher : pub' = [pub EXCEPT ![w] = x] /\ x.pc # "mark"
      <3>1. pub[w] \in Publisher /\ NoBatch \in [Events -> Nat]
        BY DEF TInv, TypeOK, NoBatch
      <3>2. CASE DatabaseError(w)
        <4> DEFINE x == [pub[w] EXCEPT !.pc = "idle", !.batch = NoBatch, !.cur = NoOne]
        <4>1. x \in Publisher /\ x.pc # "mark"
          BY <3>1 DEF Publisher
        <4>2. pub' = [pub EXCEPT ![w] = x]
          BY <3>2 DEF DatabaseError
        <4> HIDE DEF x
        <4> QED BY ONLY <4>1, <4>2
      <3>3. CASE Crash(w) \/ Stop(w)
        <4> DEFINE x == [pub[w] EXCEPT !.pc = "down", !.batch = NoBatch, !.cur = NoOne]
        <4>1. x \in Publisher /\ x.pc # "mark"
          BY <3>1 DEF Publisher
        <4>2. pub' = [pub EXCEPT ![w] = x]
          BY <3>3 DEF Crash, Stop, Down
        <4> HIDE DEF x
        <4> QED BY ONLY <4>1, <4>2
      <3> QED BY <1>5, <2>1, <3>2, <3>3
    <2>2. pub \in [Workers -> Publisher]
      BY DEF TInv, TypeOK
    <2> QED BY <2>0, <2>1, <2>2
  <1>6. CASE pub' = pub
    BY <1>6
  <1> QED BY <1>2, <1>3, <1>4, <1>5, <1>6 DEF Next, Work, Persist, Tick, outboxVars

\* SentInv is inductive.
LEMMA NextSent == SentInv /\ [Next]_outboxVars => SentInv'
  <1> SUFFICES ASSUME SentInv, [Next]_outboxVars PROVE SentInv'
    OBVIOUS
  <1>0. TInv /\ TInv'
    BY NextTypes DEF SentInv
  <1>1. Sent \subseteq Sent'
    BY <1>0, SentGrows
  <1>2. PublishedWasSent'
    <2> SUFFICES ASSUME NEW e \in Events, outbox'[e].status = "published"
                 PROVE  e \in Sent'
      BY DEF PublishedWasSent
    <2>1. CASE outbox[e].status = "published"
      BY <1>1, <2>1 DEF SentInv, PublishedWasSent
    <2>2. CASE outbox[e].status # "published"
      <3>1. \E p \in Workers : pub[p].cur = e /\ pub[p].pc = "mark"
        BY <1>0, <2>2, RowStep DEF Untouched, Inserted, Leased, Settled
      <3> QED BY <1>1, <3>1 DEF SentInv, MarkedWasSent
    <2> QED BY <2>1, <2>2
  <1>3. MarkedWasSent'
    <2> SUFFICES ASSUME NEW p \in Workers, pub'[p].pc = "mark"
                 PROVE  pub'[p].cur \in Sent'
      BY DEF MarkedWasSent
    <2>1. CASE pub'[p] = pub[p]
      BY <1>1, <2>1 DEF SentInv, MarkedWasSent
    <2>2. CASE \E e \in Events : Publish(p, e, "ok") /\ pub'[p].cur = e
      <3>1. PICK e \in Events : Publish(p, e, "ok") /\ pub'[p].cur = e
        BY <2>2
      <3>2. PICK n \in CopiesSent("ok") : Sending(e, n)
        BY <3>1 DEF Publish
      <3>3. e \in Sent'
        BY <1>0, <3>2, CopiesSentType, SendingIs DEF Outcomes, TInv, TypeOK
      <3> QED BY <3>1, <3>3
    <2> QED BY <1>0, <2>1, <2>2, MarkStep
  <1> QED BY <1>0, <1>2, <1>3 DEF SentInv

\* Initially nothing is published and nothing marked.
LEMMA InitSent == Init => SentInv
  BY InitTypes DEF Init, SentInv, PublishedWasSent, MarkedWasSent, Absent

\* A row is marked published only after its event was appended to the stream.
THEOREM PublishedMeansSent == Spec => []PublishedWasSent
  <1>1. SentInv => PublishedWasSent
    BY DEF SentInv
  <1> QED BY <1>1, InitSent, NextSent, PTL DEF Spec

-----------------------------------------------------------------------------
(* The batch of a worker: committed rows, and their attempts while it owns *)
(* them.                                                                   *)

BatchInv ==
    \A p \in Workers :
        /\ pub[p].pc \in {"idle", "down"} => pub[p].batch = NoBatch
        /\ pub[p].pc \in {"mark", "retry", "bury"} => pub[p].batch[pub[p].cur] # 0
        /\ \A e \in Holds(p) :
             /\ outbox[e].status # "absent"
             /\ Owns(p, e) => outbox[e].attempts = pub[p].batch[e]

CommitInv == TInv /\ BatchInv /\ SentWasPersisted

\* A row in the table stays in the table.
LEMMA RowsStay ==
    ASSUME TInv, [Next]_outboxVars, NEW e \in Events, outbox[e].status # "absent"
    PROVE  outbox'[e].status # "absent"
  BY RowStep DEF Untouched, Inserted, Leased, Settled

\* What a step may do to the batch of a worker: a claim fills it, the steps of
\* the cycle keep or empty its entries.
LEMMA BatchStep ==
    ASSUME TInv, BatchInv, [Next]_outboxVars, NEW p \in Workers
    PROVE  \/ /\ pub'[p].inc = pub[p].inc
              /\ \E late \in 0..MaxLag : ClaimNext(p, late, TRUE)
              /\ pub'[p].pc = "batch"
              /\ \A e \in Events : pub'[p].batch[e] # 0 =>
                    /\ outbox[e].status # "absent"
                    /\ outbox'[e].attempts = pub'[p].batch[e]
           \/ /\ pub'[p].inc = pub[p].inc
              /\ \A e \in Events : pub'[p].batch[e] \in {0, pub[p].batch[e]}
              /\ pub'[p].pc \in {"idle", "down"} => pub'[p].batch = NoBatch
              /\ pub'[p].pc \in {"mark", "retry", "bury"} =>
                    pub'[p].batch[pub'[p].cur] # 0
           \/ /\ pub'[p].batch = NoBatch
              /\ pub'[p].pc = "idle"
  <1>0. pub[p] \in Publisher /\ outbox \in [Events -> Row(Ids)]
    BY DEF TInv, TypeOK, Ids
  <1>1. CASE pub'[p] = pub[p]
    BY <1>0, <1>1 DEF BatchInv
  <1>2. ASSUME NEW w \in Workers, Work(w), w # p
        PROVE  pub'[p] = pub[p]
    BY <1>2 DEF Work, ClaimNext, Publish, FinishItem, DatabaseError, Crash, Stop,
                Start, Down, TInv, TypeOK
  <1>3. ASSUME NEW e \in Events, NEW outcome \in Outcomes, Publish(p, e, outcome)
        PROVE  /\ pub'[p].inc = pub[p].inc /\ pub'[p].batch = pub[p].batch
               /\ pub'[p].pc \in {"mark", "retry", "bury"}
               /\ pub'[p].batch[pub'[p].cur] # 0
    BY <1>0, <1>3 DEF Publish, TInv, TypeOK, Publisher, Holds
  <1>4. ASSUME FinishItem(p)
        PROVE  /\ pub'[p].inc = pub[p].inc
               /\ pub'[p].pc \in {"idle", "batch"}
               /\ pub'[p].pc = "idle" => pub'[p].batch = NoBatch
               /\ \A e \in Events : pub'[p].batch[e] \in {0, pub[p].batch[e]}
    <2> DEFINE rest == [pub[p].batch EXCEPT ![pub[p].cur] = 0]
               pc == IF rest = NoBatch THEN "idle" ELSE "batch"
    <2>1. \A e \in Events : rest[e] \in {0, pub[p].batch[e]}
      BY <1>0 DEF Publisher
    <2>2. (pc = "idle" /\ rest = NoBatch) \/ pc = "batch"
      OBVIOUS
    <2>3. pub'[p] = [pub[p] EXCEPT !.cur = NoOne, !.batch = rest, !.pc = pc]
      BY <1>4 DEF FinishItem, ItemDone, TInv, TypeOK
    <2> HIDE DEF rest, pc
    <2>4. pub'[p].inc = pub[p].inc /\ pub'[p].pc = pc /\ pub'[p].batch = rest
      BY <1>0, <2>3 DEF Publisher
    <2> QED BY <2>1, <2>2, <2>4
  <1>5. ASSUME DatabaseError(p) \/ Crash(p) \/ Stop(p) \/ Start(p)
        PROVE  /\ pub'[p].batch = NoBatch
               /\ \/ pub'[p].inc = pub[p].inc /\ pub'[p].pc \in {"idle", "down"}
                  \/ pub'[p].pc = "idle"
    <2>1. CASE Start(p)
      BY <1>0, <2>1 DEF Start, TInv, TypeOK, Publisher, BatchInv
    <2>2. CASE DatabaseError(p) \/ Crash(p) \/ Stop(p)
      <3>1. PICK pc \in {"idle", "down"} :
              pub' = [pub EXCEPT ![p] = [@ EXCEPT !.pc = pc, !.batch = NoBatch,
                                                  !.cur = NoOne]]
        BY <2>2 DEF DatabaseError, Crash, Stop, Down
      <3>2. pub'[p] = [pub[p] EXCEPT !.pc = pc, !.batch = NoBatch, !.cur = NoOne]
        BY <3>1 DEF TInv, TypeOK
      <3> QED BY <1>0, <3>2 DEF Publisher
    <2> QED BY <1>5, <2>1, <2>2
  <1>6. ASSUME NEW late \in 0..MaxLag, NEW heard \in BOOLEAN, ClaimNext(p, late, heard)
        PROVE  \/ pub'[p] = pub[p]
               \/ /\ heard = TRUE /\ pub'[p].pc = "batch" /\ pub'[p].inc = pub[p].inc
                  /\ \A e \in Events : pub'[p].batch[e] # 0 =>
                        /\ outbox[e].status # "absent"
                        /\ outbox'[e].attempts = pub'[p].batch[e]
    <2>1. PICK S \in Batches(outbox, late) :
            /\ outbox' = ClaimRows(outbox, S, Id(p), late)
            /\ IF heard
               THEN pub' = [pub EXCEPT ![p].pc = "batch", ![p].batch =
                      [e \in Events |-> IF e \in S THEN outbox[e].attempts + 1 ELSE 0]]
               ELSE UNCHANGED pub
      BY <1>6 DEF ClaimNext
    <2>2. CASE ~heard
      BY <2>1, <2>2
    <2>3. CASE heard
      <3> DEFINE b == [e \in Events |-> IF e \in S THEN outbox[e].attempts + 1 ELSE 0]
      <3>1. \A e \in Events : b[e] # 0 => e \in S /\ b[e] = outbox[e].attempts + 1
        OBVIOUS
      <3>2. pub'[p] = [pub[p] EXCEPT !.pc = "batch", !.batch = b]
        BY <2>1, <2>3 DEF TInv, TypeOK
      <3> HIDE DEF b
      <3>3. pub'[p].pc = "batch" /\ pub'[p].inc = pub[p].inc /\ pub'[p].batch = b
        BY <1>0, <3>2 DEF Publisher
      <3>4. ASSUME NEW e \in S
            PROVE  e \in Events /\ outbox[e].status # "absent"
                     /\ outbox'[e].attempts = outbox[e].attempts + 1
        <4>1. e \in Events /\ Due(outbox[e], late)
          BY <1>0, BatchesAreDue
        <4>2. outbox[e].status # "absent"
          BY <1>0, <4>1, DueIsNotLive, StatusesDiffer
        <4>3. outbox'[e] = Claimed(outbox[e], Id(p), late)
          BY <1>0, <2>1, <4>1 DEF ClaimRows
        <4> QED BY <1>0, <4>1, <4>2, <4>3, ClaimedIs
      <3> QED BY <2>3, <3>1, <3>3, <3>4
    <2> QED BY <2>2, <2>3
  <1>7. CASE pub' = pub
    BY <1>1, <1>7
  <1>8. CASE Work(p)
    <2>1. CASE \E late \in 0..MaxLag, heard \in BOOLEAN : ClaimNext(p, late, heard)
      BY <1>1, <1>6, <2>1
    <2>2. CASE \E e \in Events, outcome \in Outcomes : Publish(p, e, outcome)
      BY <1>3, <2>2
    <2>3. CASE FinishItem(p)
      BY <1>4, <2>3
    <2>4. CASE DatabaseError(p) \/ Crash(p) \/ Stop(p) \/ Start(p)
      BY <1>5, <2>4 DEF NoBatch
    <2> QED BY <1>8, <2>1, <2>2, <2>3, <2>4 DEF Work
  <1> QED BY <1>1, <1>2, <1>7, <1>8 DEF Next, Persist, Tick, outboxVars

\* A step that finds the types in order keeps the batches in order.
LEMMA NextBatch == TInv /\ BatchInv /\ [Next]_outboxVars => BatchInv'
  <1>0. SUFFICES ASSUME TInv, BatchInv, [Next]_outboxVars PROVE BatchInv'
    OBVIOUS
  <1> SUFFICES ASSUME NEW p \in Workers
               PROVE  /\ pub'[p].pc \in {"idle", "down"} => pub'[p].batch = NoBatch
                      /\ pub'[p].pc \in {"mark", "retry", "bury"}
                           => pub'[p].batch[pub'[p].cur] # 0
                      /\ \A e \in Events : pub'[p].batch[e] # 0 =>
                           /\ outbox'[e].status # "absent"
                           /\ outbox'[e].status = "processing"
                                /\ outbox'[e].owner = <<p, pub'[p].inc>>
                                => outbox'[e].attempts = pub'[p].batch[e]
    BY DEF BatchInv, Holds, Owns, Id
  <1>1. CASE /\ pub'[p].inc = pub[p].inc
             /\ \E late \in 0..MaxLag : ClaimNext(p, late, TRUE)
             /\ pub'[p].pc = "batch"
             /\ \A e \in Events : pub'[p].batch[e] # 0 =>
                  /\ outbox[e].status # "absent"
                  /\ outbox'[e].attempts = pub'[p].batch[e]
    BY <1>0, <1>1, RowsStay
  <1>2. CASE /\ pub'[p].inc = pub[p].inc
             /\ \A e \in Events : pub'[p].batch[e] \in {0, pub[p].batch[e]}
             /\ pub'[p].pc \in {"idle", "down"} => pub'[p].batch = NoBatch
             /\ pub'[p].pc \in {"mark", "retry", "bury"} =>
                  pub'[p].batch[pub'[p].cur] # 0
    <2> SUFFICES ASSUME NEW e \in Events, pub'[p].batch[e] # 0
                 PROVE  /\ outbox'[e].status # "absent"
                        /\ outbox'[e].status = "processing"
                             /\ outbox'[e].owner = <<p, pub'[p].inc>>
                             => outbox'[e].attempts = pub'[p].batch[e]
      BY <1>2
    <2>1. e \in Holds(p) /\ pub'[p].batch[e] = pub[p].batch[e]
      BY <1>2 DEF Holds
    <2>2. outbox[e].status # "absent" /\ outbox'[e].status # "absent"
      BY <1>0, <2>1, RowsStay DEF BatchInv
    <2>3. ASSUME outbox'[e].status = "processing", outbox'[e].owner = Id(p)
          PROVE  outbox'[e].attempts = pub[p].batch[e]
      <3>1. CASE Untouched(e)
        BY <1>0, <2>1, <2>3, <3>1 DEF Untouched, BatchInv, Owns
      <3>2. ASSUME NEW w \in Workers, Leased(e, w)
            PROVE  FALSE
        <4>1. w = p
          BY <2>3, <3>2 DEF Leased, Id
        <4>2. pub[p].batch = NoBatch
          BY <1>0, <3>2, <4>1 DEF Leased, BatchInv
        <4> QED BY <2>1, <4>2 DEF Holds, NoBatch
      <3>3. ASSUME NEW w \in Workers, Settled(e, w)
            PROVE  FALSE
        BY <2>3, <3>3 DEF Settled
      <3> QED BY <1>0, <2>2, <2>3, <3>1, <3>2, <3>3, RowStep DEF Inserted
    <2> QED BY <1>2, <2>1, <2>2, <2>3 DEF Id
  <1>3. CASE pub'[p].batch = NoBatch /\ pub'[p].pc = "idle"
    BY <1>3 DEF NoBatch
  <1> QED BY <1>0, <1>1, <1>2, <1>3, BatchStep

\* CommitInv is inductive.
LEMMA NextCommit == CommitInv /\ [Next]_outboxVars => CommitInv'
  <1> SUFFICES ASSUME CommitInv, [Next]_outboxVars PROVE CommitInv'
    OBVIOUS
  <1>0. TInv /\ TInv' /\ BatchInv
    BY NextTypes DEF CommitInv
  <1>1. BatchInv'
    BY <1>0, NextBatch
  <1>2. SentWasPersisted'
    <2> SUFFICES ASSUME NEW e \in Sent' PROVE outbox'[e].status # "absent"
      BY DEF SentWasPersisted
    <2>1. e \in Events /\ outbox[e].status # "absent"
      <3>1. CASE e \in Sent
        BY <3>1 DEF CommitInv, TInv, TypeOK, SentWasPersisted, Sent
      <3>2. ASSUME NEW p \in Workers, NEW ev \in Events, NEW outcome \in Outcomes,
                   Publish(p, ev, outcome), Sent' \subseteq Sent \cup {ev}
            PROVE  e \in Sent \/ (e \in Events /\ outbox[e].status # "absent")
        BY <1>0, <3>2 DEF Publish, BatchInv
      <3> QED BY <1>0, <3>1, <3>2, SentGrows
    <2> QED BY <1>0, <2>1, RowsStay
  <1> QED BY <1>0, <1>1, <1>2 DEF CommitInv

\* Initially no worker has a batch and nothing was sent.
LEMMA InitCommit == Init => CommitInv
  <1> SUFFICES ASSUME Init PROVE CommitInv
    OBVIOUS
  <1>1. BatchInv
    BY DEF Init, BatchInv, Holds, NoBatch
  <1>2. SentWasPersisted
    BY DEF Init, SentWasPersisted, Sent
  <1> QED BY <1>1, <1>2, InitTypes DEF CommitInv

\* Nothing reaches the stream before its transaction commits.
THEOREM CommittedBeforeSent == Spec => []SentWasPersisted
  <1>1. CommitInv => SentWasPersisted
    BY DEF CommitInv
  <1> QED BY <1>1, InitCommit, NextCommit, PTL DEF Spec

\* A worker gives an event up only when its row has spent all its attempts or
\* Redis rejected the event for good.
THEOREM BurialSpendsBudget == Spec => BudgetSpentBeforeBurial
  <1> DEFINE A == \A e \in Events :
        outbox[e].status # "dead_letter" /\ outbox'[e].status = "dead_letter"
          => \/ outbox[e].attempts >= MaxAttempts
             \/ \E p \in Workers : pub[p].cur = e /\ pub[p].pc = "bury"
  <1>1. CommitInv /\ [Next]_outboxVars => [A]_outboxVars
    <2> SUFFICES ASSUME CommitInv, [Next]_outboxVars, NEW e \in Events,
                        outbox[e].status # "dead_letter",
                        outbox'[e].status = "dead_letter"
                 PROVE  \/ outbox[e].attempts >= MaxAttempts
                        \/ \E p \in Workers : pub[p].cur = e /\ pub[p].pc = "bury"
      OBVIOUS
    <2>1. PICK p \in Workers : Settled(e, p)
      BY RowStep DEF CommitInv, Untouched, Inserted, Leased
    <2>2. CASE pub[p].pc = "bury"
      BY <2>1, <2>2 DEF Settled
    <2>3. CASE pub[p].batch[e] >= MaxAttempts
      <3>1. e \in Holds(p) /\ Owns(p, e)
        BY <2>1 DEF Settled, CommitInv, BatchInv, Holds
      <3> QED BY <2>3, <3>1 DEF CommitInv, BatchInv
    <2> QED BY <2>1, <2>2, <2>3 DEF Settled
  <1> QED BY <1>1, InitCommit, NextCommit, PTL DEF Spec, BudgetSpentBeforeBurial
=============================================================================
