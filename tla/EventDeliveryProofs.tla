-------------------------- MODULE EventDeliveryProofs --------------------------
(***************************************************************************)
(* Theorems about the delivery pipeline, for any number of events,         *)
(* processes of each kind, attempts and faults: it implements              *)
(* ExactlyOnceEffect, and what is published is never lost on the way.      *)
(*                                                                         *)
(* What OutboxPublisherProofs proves about the steps of a publisher is     *)
(* used here for the publishers of the pipeline.                           *)
(***************************************************************************)
EXTENDS EventDelivery, TLAPS, SequenceTheorems, FiniteSetTheorems

Proved == INSTANCE OutboxPublisherProofs

-----------------------------------------------------------------------------
(* The publisher of the pipeline is the publisher of those proofs.         *)

\* The assumptions of the component hold in the pipeline.
LEMMA ComponentAssumptions ==
    Proved!OutboxAssumption /\ Proved!LeaseAssumption /\ Proved!BackoffAssumption
  BY DeliveryAssumption, LeaseAssumption, BackoffAssumption
     DEF DeliveryAssumption, LeaseAssumption, BackoffAssumption,
         Proved!OutboxAssumption, Proved!LeaseAssumption, Proved!BackoffAssumption

LEMMA SamePublisher ==
    ASSUME NEW p \in Workers PROVE Publishing!Work(p) <=> Proved!Work(p)
  <1>1. \A n : Publishing!Fault(n) <=> Proved!Fault(n)
    BY DEF Publishing!Fault, Proved!Fault
  <1>2. Publishing!NoBatch = Proved!NoBatch
    BY DEF Publishing!NoBatch, Proved!NoBatch
  <1>3. Publishing!Down(p) <=> Proved!Down(p)
    BY <1>2 DEF Publishing!Down, Proved!Down
  <1>4. \A e : Publishing!Owns(p, e) <=> Proved!Owns(p, e)
    BY DEF Publishing!Owns, Proved!Owns, Publishing!Id, Proved!Id
  <1>5. /\ \A r, st : Publishing!Released(r, st) = Proved!Released(r, st)
        /\ \A r, d : Publishing!Retried(r, d) = Proved!Retried(r, d)
        /\ \A n : Publishing!Delays(n) = Proved!Delays(n)
    BY DEF Publishing!Released, Proved!Released, Publishing!Retried, Proved!Retried,
           Publishing!Delays, Proved!Delays, Publishing!RawBackoff, Proved!RawBackoff
  <1>6. Publishing!Transition(p) <=> Proved!Transition(p)
    BY <1>4, <1>5
       DEF Publishing!Transition, Proved!Transition,
           Publishing!MarkPublished, Proved!MarkPublished,
           Publishing!DeadLetter, Proved!DeadLetter,
           Publishing!ScheduleRetry, Proved!ScheduleRetry,
           Publishing!Settle, Proved!Settle
  <1>7. Publishing!ItemDone(p) = Proved!ItemDone(p)
    BY <1>2 DEF Publishing!ItemDone, Proved!ItemDone
  <1>8. \A S : Publishing!Cardinality(S) = Proved!Cardinality(S)
    BY DEF Publishing!Cardinality, Proved!Cardinality
  <1>9. /\ \A late : Publishing!Batches(outbox, late) = Proved!Batches(outbox, late)
        /\ \A S, late : Publishing!ClaimRows(outbox, S, Publishing!Id(p), late)
                          = Proved!ClaimRows(outbox, S, Proved!Id(p), late)
    BY <1>8 DEF Publishing!Batches, Proved!Batches, Publishing!Due, Proved!Due,
                Publishing!Claimable, Proved!Claimable,
                Publishing!ClaimRows, Proved!ClaimRows,
                Publishing!Claimed, Proved!Claimed, Publishing!Id, Proved!Id
  <1>10. \A late, heard :
           Publishing!ClaimNext(p, late, heard) <=> Proved!ClaimNext(p, late, heard)
    BY <1>1, <1>9 DEF Publishing!ClaimNext, Proved!ClaimNext
  <1>11. \A e, outcome :
           Publishing!Publish(p, e, outcome) <=> Proved!Publish(p, e, outcome)
    BY <1>1 DEF Publishing!Publish, Proved!Publish, Publishing!Holds, Proved!Holds,
                Publishing!Sending, Proved!Sending,
                Publishing!CopiesSent, Proved!CopiesSent
  <1> QED
    BY <1>1, <1>2, <1>3, <1>6, <1>7, <1>10, <1>11
       DEF Publishing!Work, Proved!Work, Publishing!FinishItem, Proved!FinishItem,
           Publishing!DatabaseError, Proved!DatabaseError, Publishing!Crash, Proved!Crash,
           Publishing!Stop, Proved!Stop, Publishing!Start, Proved!Start,
           Publishing!Outcomes, Proved!Outcomes

\* What those proofs say of the outbox, the publishers and what they sent.
PublisherInv == Proved!SentInv /\ Proved!BatchInv

\* What is on the stream stays where it is.
StreamGrows ==
    /\ DOMAIN stream \subseteq DOMAIN stream'
    /\ \A i \in DOMAIN stream : stream'[i] = stream[i]

\* New entries of the stream are of committed rows, and no row comes or goes.
LEMMA PublisherSteps ==
    ASSUME PublisherInv, NEW p \in Workers, Publishing!Work(p)
    PROVE  /\ PublisherInv' /\ StreamGrows
           /\ \A e \in Events :
                outbox[e].status = "absent" <=> outbox'[e].status = "absent"
           /\ \A i \in DOMAIN stream' \ DOMAIN stream :
                stream'[i] \in Events /\ outbox'[stream'[i]].status # "absent"
  <1>0. /\ Proved!Work(p) /\ [Proved!Next]_Proved!outboxVars
        /\ Proved!TInv /\ Proved!SentInv /\ Proved!BatchInv
    BY SamePublisher DEF Proved!Next, PublisherInv, Proved!SentInv
  <1>1. PublisherInv'
    BY <1>0, ComponentAssumptions, Proved!NextSent, Proved!NextBatch DEF PublisherInv
  <1>2. ASSUME NEW e \in Events
        PROVE  outbox[e].status = "absent" <=> outbox'[e].status = "absent"
    <2>1. /\ outbox'[e] = outbox[e] \/ Proved!Leased(e, p) \/ Proved!Settled(e, p)
      <3>1. CASE \E late \in 0..MaxLag, heard \in BOOLEAN : Proved!ClaimNext(p, late, heard)
        BY <1>0, <3>1, ComponentAssumptions, Proved!ClaimRow
      <3>2. CASE Proved!FinishItem(p) \/ Proved!DatabaseError(p)
        BY <1>0, <3>2, ComponentAssumptions, Proved!TransitionRow
           DEF Proved!FinishItem, Proved!DatabaseError, Proved!Transition,
               Proved!MarkPublished, Proved!DeadLetter, Proved!ScheduleRetry
      <3>3. CASE outbox' = outbox
        BY <3>3
      <3> QED BY <1>0, <3>1, <3>2, <3>3
              DEF Proved!Work, Proved!Publish, Proved!Crash, Proved!Stop, Proved!Start
    <2>2. outbox[e].status \in Proved!Claimable => outbox[e].status # "absent"
      BY DEF Proved!Claimable
    <2> QED BY <2>1, <2>2 DEF Proved!Leased, Proved!Settled, Proved!Owns
  <1>3. CASE \E e \in Events, outcome \in Proved!Outcomes : Proved!Publish(p, e, outcome)
    <2>1. PICK e \in Events, outcome \in Proved!Outcomes : Proved!Publish(p, e, outcome)
      BY <1>3
    <2>2. outbox[e].status # "absent"
      BY <1>0, <2>1 DEF Proved!Publish, Proved!BatchInv
    <2>3. PICK n \in Nat : stream' = stream \o [i \in 1..n |-> e]
      BY <2>1, ComponentAssumptions, Proved!CopiesSentType DEF Proved!Publish, Proved!Sending
    <2>4. /\ DOMAIN stream \subseteq DOMAIN stream'
          /\ \A i \in DOMAIN stream : stream'[i] = stream[i]
          /\ \A i \in DOMAIN stream' \ DOMAIN stream : stream'[i] = e
      <3> DEFINE c == [i \in 1..n |-> e]
      <3>1. c \in Seq(Events) /\ Len(c) = n /\ \A i \in 1..n : c[i] = e
        OBVIOUS
      <3>2. stream \in Seq(Events) /\ stream' = stream \o c
        BY <1>0, <2>3 DEF Proved!TInv, Proved!TypeOK
      <3> HIDE DEF c
      <3>3. /\ stream' \in Seq(Events)
            /\ Len(stream') = Len(stream) + n
            /\ \A i \in 1..(Len(stream) + n) :
                 stream'[i] = IF i <= Len(stream) THEN stream[i] ELSE c[i - Len(stream)]
        BY <3>1, <3>2, ConcatProperties
      <3>4. /\ DOMAIN stream = 1..Len(stream) /\ Len(stream) \in Nat
            /\ DOMAIN stream' = 1..(Len(stream) + n)
            /\ \A i \in 1..(Len(stream) + n) :
                 stream'[i] = IF i <= Len(stream) THEN stream[i] ELSE c[i - Len(stream)]
        BY <3>2, <3>3
      <3>5. \A i \in 1..(Len(stream) + n) : i > Len(stream) => i - Len(stream) \in 1..n
        BY <3>4
      <3>6. ASSUME NEW i \in DOMAIN stream PROVE i \in DOMAIN stream' /\ stream'[i] = stream[i]
        BY <3>4
      <3>7. ASSUME NEW i \in DOMAIN stream', i \notin DOMAIN stream PROVE stream'[i] = e
        <4>1. i \in 1..(Len(stream) + n) /\ ~(i <= Len(stream)) /\ i - Len(stream) \in 1..n
          BY <3>4, <3>5, <3>7
        <4> QED BY <3>1, <3>4, <4>1
      <3> QED BY <3>6, <3>7
    <2> QED BY <1>1, <1>2, <2>1, <2>2, <2>4 DEF Proved!Publish, StreamGrows
  <1>4. CASE stream' = stream
    BY <1>1, <1>2, <1>4 DEF StreamGrows
  <1> QED BY <1>0, <1>3, <1>4
          DEF Proved!Work, Proved!ClaimNext, Proved!FinishItem, Proved!DatabaseError,
              Proved!Crash, Proved!Stop, Proved!Start

\* A row as the publishers see it, when a step leaves it alone but for its timers.
LEMMA PublishersRest ==
    ASSUME PublisherInv, UNCHANGED pub, faults' \in Nat, stream' \in Seq(Events), StreamGrows,
           outbox' \in [Events -> Proved!Row(Proved!Ids)],
           \A e \in Events :
             \/ outbox'[e].status = outbox[e].status
                  /\ outbox'[e].owner = outbox[e].owner
                  /\ outbox'[e].attempts = outbox[e].attempts
             \/ outbox[e].status = "absent" /\ outbox'[e].status = "pending"
    PROVE  PublisherInv'
  <1> USE DEF PublisherInv
  <1>1. Proved!TInv'
    BY DEF Proved!SentInv, Proved!TInv, Proved!TypeOK, Proved!CurIsEvent, Proved!Ids
  <1>2. Proved!Sent \subseteq Proved!Sent'
    BY DEF Proved!Sent, StreamGrows
  <1>3. Proved!PublishedWasSent' /\ Proved!MarkedWasSent'
    BY <1>2 DEF Proved!SentInv, Proved!PublishedWasSent, Proved!MarkedWasSent
  <1>4. Proved!BatchInv'
    BY DEF Proved!BatchInv, Proved!Owns, Proved!Id, Proved!Holds, Proved!NoBatch
  <1> QED BY <1>1, <1>3, <1>4 DEF Proved!SentInv

-----------------------------------------------------------------------------
(* The bridges.                                                            *)

ConsumerIds == Consumers \X Nat

InboxRows == inbox \in [Events -> Row(ConsumerIds)]

Stored(e) == inbox[e].status # "absent"

\* What the memory m of a bridge may hold: entries of the stream, the first of
\* which was stored or does not parse when it is about to be acknowledged.
Carries(m) ==
    /\ m \in Ingress!Bridge
    /\ \A n \in 1..Len(m.todo) : m.todo[n] \in DOMAIN stream
    /\ m.pc \in {"handle", "ack", "drop"} => m.todo # <<>>
    /\ m.pc = "ack" => Stored(stream[Head(m.todo)])
    /\ m.pc = "drop" => stream[Head(m.todo)] \in Malformed

\* An entry the group was given and that is pending no more went somewhere.
Arrives(i) ==
    i > last \/ i \in DOMAIN pel \/ Stored(stream[i]) \/ stream[i] \in Malformed

RelayInv ==
    /\ stream \in Seq(Events)
    /\ last \in Nat /\ last <= Len(stream)
    /\ bridge = [b \in Bridges |-> bridge[b]]
    /\ \A b \in Bridges : Carries(bridge[b])
    /\ \A i \in DOMAIN stream : Arrives(i)

StoredStays == \A e \in Events : Stored(e) => inbox'[e].status # "absent"

\* The bridges keep what they rely on while the stream and the inbox only grow.
LEMMA BridgesRest ==
    ASSUME RelayInv, UNCHANGED <<last, bridge>>, DOMAIN pel' = DOMAIN pel,
           stream' \in Seq(Events), StreamGrows, StoredStays
    PROVE  RelayInv'
  <1>0. /\ DOMAIN stream = 1..Len(stream) /\ DOMAIN stream' = 1..Len(stream')
        /\ Len(stream) \in Nat /\ Len(stream') \in Nat
        /\ \A i \in DOMAIN stream : stream[i] \in Events
    BY DEF RelayInv
  <1>1. last' \in Nat /\ last' <= Len(stream')
    <2>1. Len(stream) <= Len(stream')
      BY <1>0 DEF StreamGrows
    <2> QED BY <1>0, <2>1 DEF RelayInv
  <1>2. ASSUME NEW b \in Bridges PROVE Carries(bridge[b])'
    <2>1. Carries(bridge[b])
      BY DEF RelayInv
    <2>2. bridge[b].todo \in Seq(Nat) /\ Len(bridge[b].todo) \in Nat
      BY <2>1 DEF Carries, Ingress!Bridge
    <2>3. bridge[b].todo # <<>> => Head(bridge[b].todo) \in DOMAIN stream
      <3>1. bridge[b].todo # <<>> =>
              1 \in 1..Len(bridge[b].todo) /\ Head(bridge[b].todo) = bridge[b].todo[1]
        BY <2>2
      <3> QED BY <2>1, <3>1 DEF Carries
    <2> QED BY <1>0, <2>1, <2>3 DEF Carries, StreamGrows, StoredStays, Stored
  <1>3. ASSUME NEW i \in DOMAIN stream' PROVE Arrives(i)'
    <2>1. CASE i \in DOMAIN stream
      BY <1>0, <2>1 DEF RelayInv, Arrives, StreamGrows, StoredStays, Stored
    <2>2. CASE i \notin DOMAIN stream
      BY <1>0, <2>2 DEF RelayInv, Arrives
    <2> QED BY <2>1, <2>2
  <1> QED BY <1>1, <1>2, <1>3 DEF RelayInv

\* A step of one bridge, into a memory that it may hold.
LEMMA OneBridge ==
    ASSUME RelayInv, NEW b \in Bridges, NEW m, bridge' = [bridge EXCEPT ![b] = m],
           UNCHANGED stream, StoredStays, Carries(m), last' \in Nat, last' <= Len(stream),
           \A i \in DOMAIN stream : Arrives(i)'
    PROVE  RelayInv'
  <1>0. \A i \in DOMAIN stream : stream[i] \in Events
    BY DEF RelayInv
  <1>1. bridge' = [q \in Bridges |-> IF q = b THEN m ELSE bridge[q]]
    BY Zenon DEF RelayInv
  <1>2. bridge' = [q \in Bridges |-> bridge'[q]]
    BY <1>1, Zenon
  <1>3. ASSUME NEW q \in Bridges PROVE Carries(bridge[q])'
    <2>1. Carries(bridge'[q])
      BY <1>1 DEF RelayInv
    <2>2. bridge'[q].todo \in Seq(Nat) /\ Len(bridge'[q].todo) \in Nat
      BY <2>1 DEF Carries, Ingress!Bridge
    <2>3. bridge'[q].todo # <<>> => Head(bridge'[q].todo) \in DOMAIN stream
      <3>1. bridge'[q].todo # <<>> =>
              1 \in 1..Len(bridge'[q].todo) /\ Head(bridge'[q].todo) = bridge'[q].todo[1]
        BY <2>2
      <3> QED BY <2>1, <3>1 DEF Carries
    <2> QED BY <1>0, <2>1, <2>3 DEF Carries, StoredStays, Stored
  <1> QED BY <1>2, <1>3 DEF RelayInv

LEMMA AtRestCarries ==
    ASSUME NEW pc \in {"idle", "down"} PROVE Carries(Ingress!AtRest(pc))
  BY DEF Carries, Ingress!AtRest, Ingress!Bridge

\* The entries that are new to the group follow the cursor without a gap.
LEMMA FreshIs ==
    ASSUME RelayInv
    PROVE  LET k == Ingress!Cardinality(Ingress!Fresh)
           IN  /\ k \in Nat /\ last + k <= Len(stream)
               /\ \A i \in DOMAIN stream :
                    i > last /\ ~(i > last + k) => i \in Ingress!Fresh
  <1> DEFINE F == Ingress!Fresh
             k == Cardinality(F)
  <1>1. Ingress!Cardinality(F) = k
    BY DEF Ingress!Cardinality, Cardinality
  <1>2. /\ DOMAIN stream = 1..Len(stream) /\ Len(stream) \in Nat
        /\ last \in Nat /\ last <= Len(stream) /\ Count \in Nat
    BY DeliveryAssumption DEF DeliveryAssumption, RelayInv
  <1>3. F = {i \in DOMAIN stream : i > last /\ i <= last + Count}
    BY DEF Ingress!Fresh, Ingress!Entries
  <1>4. F \subseteq (last + 1)..(last + Count) /\ F \subseteq (last + 1)..Len(stream)
    BY <1>2, <1>3
  <1> HIDE DEF F
  <1>5. k \in Nat /\ k <= Count
    <2>1. /\ IsFiniteSet((last + 1)..(last + Count))
          /\ Cardinality((last + 1)..(last + Count)) <= Count
      <3>1. last + 1 \in Int /\ last + Count \in Int
        BY <1>2
      <3>2. Cardinality((last + 1)..(last + Count))
              = IF last + 1 > last + Count THEN 0 ELSE (last + Count) - (last + 1) + 1
        BY <3>1, FS_Interval
      <3>3. IsFiniteSet((last + 1)..(last + Count))
        BY <3>1, FS_Interval
      <3> QED BY <1>2, <3>2, <3>3
    <2>2. /\ IsFiniteSet(F)
          /\ Cardinality(F) <= Cardinality((last + 1)..(last + Count))
      BY <1>4, <2>1, FS_Subset
    <2>3. Cardinality(F) \in Nat /\ Cardinality((last + 1)..(last + Count)) \in Nat
      BY <2>1, <2>2, FS_CardinalityType
    <2> QED BY <1>2, <2>1, <2>2, <2>3
  <1>6. last + k <= Len(stream)
    <2>1. /\ IsFiniteSet((last + 1)..Len(stream))
          /\ Cardinality((last + 1)..Len(stream)) = Len(stream) - last
      <3>1. last + 1 \in Int /\ Len(stream) \in Int
        BY <1>2
      <3>2. Cardinality((last + 1)..Len(stream))
              = IF last + 1 > Len(stream) THEN 0 ELSE Len(stream) - (last + 1) + 1
        BY <3>1, FS_Interval
      <3>3. IsFiniteSet((last + 1)..Len(stream))
        BY <3>1, FS_Interval
      <3> QED BY <1>2, <3>2, <3>3
    <2>2. Cardinality(F) <= Cardinality((last + 1)..Len(stream))
      BY <1>4, <2>1, FS_Subset
    <2> QED BY <1>2, <1>5, <2>1, <2>2
  <1>7. ASSUME NEW i \in DOMAIN stream, i > last, ~(i > last + k) PROVE i \in F
    BY <1>2, <1>3, <1>5, <1>7
  <1> QED BY <1>1, <1>5, <1>6, <1>7 DEF F
\* The inbox only gains rows, of entries of the stream.
Receives ==
    \A e \in Events :
      \/ inbox'[e] = inbox[e]
      \/ /\ inbox[e].status = "absent" /\ inbox'[e].status = "pending"
         /\ \E i \in DOMAIN stream : stream[i] = e

\* The deduplicating insert of an entry.
LEMMA InsertIs ==
    ASSUME InboxRows, stream \in Seq(Events), NEW i \in DOMAIN stream,
           Ingress!Insert(stream[i])
    PROVE  InboxRows' /\ StoredStays /\ Receives /\ inbox'[stream[i]].status # "absent"
  <1> DEFINE e == stream[i]
  <1>1. e \in Events
    OBVIOUS
  <1>2. \E j \in DOMAIN stream : stream[j] = e
    OBVIOUS
  <1> HIDE DEF e
  <1>3. CASE inbox[e].status = "absent"
    <2>1. inbox' = [inbox EXCEPT ![e] = [inbox[e] EXCEPT !.status = "pending"]]
      BY <1>3 DEF Ingress!Insert, e
    <2>2. inbox[e] \in Row(ConsumerIds)
      BY <1>1 DEF InboxRows
    <2>3. /\ [inbox[e] EXCEPT !.status = "pending"] \in Row(ConsumerIds)
          /\ [inbox[e] EXCEPT !.status = "pending"].status = "pending"
      BY <2>2 DEF Row, Claimable
    <2>4. /\ inbox' \in [Events -> Row(ConsumerIds)]
          /\ \A d \in Events : d # e => inbox'[d] = inbox[d]
          /\ inbox'[e].status = "pending"
      BY <1>1, <2>1, <2>3 DEF InboxRows
    <2> QED BY <1>1, <1>2, <1>3, <2>4 DEF InboxRows, StoredStays, Stored, Receives, e
  <1>4. CASE inbox[e].status # "absent"
    <2>1. inbox' = inbox
      BY <1>4 DEF Ingress!Insert, e
    <2> QED BY <1>4, <2>1 DEF InboxRows, StoredStays, Stored, Receives, e
  <1> QED BY <1>3, <1>4

\* The entry that a bridge handles is on the stream, the rest is carried on.
LEMMA RestCarries ==
    ASSUME RelayInv, NEW b \in Bridges, bridge[b].pc \in {"handle", "ack", "drop"}
    PROVE  /\ Ingress!Current(b) \in DOMAIN stream
           /\ Ingress!NextMessage(b) =>
                \E m : bridge' = [bridge EXCEPT ![b] = m] /\ Carries(m)
  <1> DEFINE t == bridge[b].todo
             rest == Tail(t)
             m == IF rest = <<>> THEN Ingress!AtRest("idle")
                  ELSE [pc |-> "handle", todo |-> rest]
  <1>1. Carries(bridge[b])
    BY DEF RelayInv
  <1>2. t \in Seq(Nat) /\ t # <<>> /\ \A n \in 1..Len(t) : t[n] \in DOMAIN stream
    BY <1>1 DEF Carries, Ingress!Bridge
  <1> HIDE DEF t
  <1>3. Len(t) \in Nat /\ 1 \in 1..Len(t) /\ Head(t) = t[1]
    BY <1>2
  <1>4. /\ rest \in Seq(Nat) /\ Len(rest) = Len(t) - 1
        /\ \A n \in 1..Len(rest) : rest[n] = t[n + 1]
    BY <1>2, HeadTailProperties
  <1> HIDE DEF rest
  <1>5. \A n \in 1..Len(rest) : n + 1 \in 1..Len(t)
    BY <1>3, <1>4
  <1>6. \A n \in 1..Len(rest) : rest[n] \in DOMAIN stream
    BY <1>2, <1>4, <1>5
  <1>7. rest # <<>> => Carries([pc |-> "handle", todo |-> rest])
    BY <1>4, <1>6 DEF Carries, Ingress!Bridge
  <1>8. Carries(m)
    BY <1>7, AtRestCarries
  <1>9. Ingress!NextMessage(b) => bridge' = [bridge EXCEPT ![b] = m]
    BY DEF Ingress!NextMessage, t, rest
  <1> QED BY <1>2, <1>3, <1>8, <1>9 DEF Ingress!Current, t

\* XREADGROUP: what the group was given is pending, and carried if it is heard.
LEMMA ReadsGroup ==
    ASSUME RelayInv, InboxRows, NEW b \in Bridges, NEW heard \in BOOLEAN,
           Ingress!ReadGroup(b, heard)
    PROVE  RelayInv'
  <1> DEFINE k == Ingress!Cardinality(Ingress!Fresh)
             w == [pc |-> "handle", todo |-> [n \in 1..k |-> last + n]]
             m == IF heard THEN w ELSE Ingress!AtRest("idle")
  <1>1. /\ k \in Nat /\ last + k <= Len(stream)
        /\ \A i \in DOMAIN stream : i > last /\ ~(i > last + k) => i \in Ingress!Fresh
    BY FreshIs
  <1>2. /\ bridge' = [bridge EXCEPT ![b] = m] /\ last' = last + k
        /\ pel' = Ingress!Pending(Ingress!Fresh)
        /\ UNCHANGED <<stream, inbox>>
    BY DEF Ingress!ReadGroup
  <1> HIDE DEF k
  <1>3. /\ last \in Nat /\ DOMAIN stream = 1..Len(stream) /\ Len(stream) \in Nat
    BY DEF RelayInv
  <1>4. Carries(w)
    <2> DEFINE t == [n \in 1..k |-> last + n]
    <2>1. t \in Seq(Nat) /\ Len(t) = k /\ \A n \in 1..k : t[n] = last + n
      BY <1>1, <1>3
    <2>2. \A n \in 1..k : last + n \in DOMAIN stream
      BY <1>1, <1>3
    <2>3. k # 0
      <3>1. PICK i \in Ingress!Fresh : TRUE
        BY DEF Ingress!ReadGroup
      <3>2. Ingress!Fresh \subseteq (last + 1)..Len(stream)
        BY <1>3 DEF Ingress!Fresh, Ingress!Entries
      <3>3. IsFiniteSet((last + 1)..Len(stream))
        <4>1. last + 1 \in Int /\ Len(stream) \in Int
          BY <1>3
        <4> QED BY <4>1, FS_Interval
      <3>4. IsFiniteSet(Ingress!Fresh)
        BY <3>2, <3>3, FS_Subset
      <3>5. Cardinality(Ingress!Fresh) # 0
        BY <3>1, <3>4, FS_EmptySet
      <3>6. Ingress!Cardinality(Ingress!Fresh) = Cardinality(Ingress!Fresh)
        BY DEF Ingress!Cardinality, Cardinality
      <3> QED BY <3>5, <3>6 DEF k
    <2>4. t # <<>>
      BY <1>1, <2>1, <2>3
    <2>5. w.pc = "handle" /\ w.todo = t /\ w = [pc |-> "handle", todo |-> t]
      OBVIOUS
    <2> HIDE DEF t
    <2>6. w \in Ingress!Bridge
      BY <2>1, <2>5 DEF Ingress!Bridge
    <2> QED BY <2>1, <2>2, <2>4, <2>5, <2>6 DEF Carries
  <1>5. Carries(m)
    BY <1>4, AtRestCarries
  <1>6. last' \in Nat /\ last' <= Len(stream)
    BY <1>1, <1>2, <1>3
  <1>7. ASSUME NEW i \in DOMAIN stream PROVE Arrives(i)'
    <2>1. DOMAIN pel' = DOMAIN pel \cup Ingress!Fresh
      BY <1>2 DEF Ingress!Pending
    <2> QED BY <1>1, <1>2, <2>1 DEF RelayInv, Arrives, Stored
  <1> HIDE DEF m
  <1> QED BY <1>2, <1>5, <1>6, <1>7, OneBridge DEF StoredStays, Stored

\* What a step of a bridge does to the inbox and to the entries in flight.
LEMMA BridgeSteps ==
    ASSUME RelayInv, InboxRows, faults \in Nat, NEW b \in Bridges, Ingress!Relay(b)
    PROVE  /\ RelayInv' /\ InboxRows' /\ faults' \in Nat /\ Receives
           /\ UNCHANGED stream
  <1>0. /\ DOMAIN stream = 1..Len(stream) /\ \A i \in DOMAIN stream : stream[i] \in Events
        /\ stream \in Seq(Events) /\ last \in Nat /\ last <= Len(stream)
        /\ \A i \in DOMAIN stream : Arrives(i)
        /\ Carries(bridge[b]) /\ bridge[b] \in Ingress!Bridge
    BY DEF RelayInv, Carries
  <1>1. \A n \in {0, 1} : Ingress!Fault(n) => faults' \in Nat
    BY DEF Ingress!Fault
  <1>2. UNCHANGED inbox => InboxRows' /\ StoredStays /\ Receives
    BY DEF InboxRows, StoredStays, Stored, Receives
  <1>3. ASSUME UNCHANGED <<stream, last>>, DOMAIN pel \subseteq DOMAIN pel', StoredStays
        PROVE  \A i \in DOMAIN stream : Arrives(i)'
    BY <1>0, <1>3 DEF Arrives, StoredStays, Stored
  <1>4. ASSUME NEW m, bridge' = [bridge EXCEPT ![b] = m], Carries(m),
               UNCHANGED <<stream, last>>, DOMAIN pel \subseteq DOMAIN pel', StoredStays
        PROVE  RelayInv'
    BY <1>0, <1>3, <1>4, OneBridge
  <1>5. CASE Ingress!ClaimStuck(b)
    <2>1. DOMAIN pel \subseteq DOMAIN pel' /\ UNCHANGED <<stream, last, inbox, faults>>
      BY <1>5 DEF Ingress!ClaimStuck, Ingress!Pending
    <2> DEFINE m == [bridge[b] EXCEPT !.pc = "read"]
    <2>2. Carries(m)
      BY <1>0 DEF Carries, Ingress!Bridge
    <2>3. bridge' = [bridge EXCEPT ![b] = m] \/ bridge' = bridge
      BY <1>5 DEF Ingress!ClaimStuck
    <2>4. bridge' = bridge => bridge' = [bridge EXCEPT ![b] = bridge[b]]
      BY Zenon DEF RelayInv
    <2> HIDE DEF m
    <2> QED BY <1>0, <1>2, <1>4, <2>1, <2>2, <2>3, <2>4
  <1>6. CASE Ingress!ReadNothing(b) \/ Ingress!Start(b) \/ Ingress!GoDown(b)
    <2>1. PICK pc \in {"idle", "down"} :
            bridge' = [bridge EXCEPT ![b] = Ingress!AtRest(pc)]
      BY <1>6 DEF Ingress!ReadNothing, Ingress!Start, Ingress!GoDown
    <2>2. UNCHANGED <<stream, last, pel, inbox>> /\ faults' \in Nat
      BY <1>1, <1>6 DEF Ingress!ReadNothing, Ingress!Start, Ingress!GoDown
    <2> QED BY <1>2, <1>4, <2>1, <2>2, AtRestCarries
  <1>7. CASE \E heard \in BOOLEAN : Ingress!ReadGroup(b, heard)
    <2>1. PICK heard \in BOOLEAN : Ingress!ReadGroup(b, heard)
      BY <1>7
    <2>2. UNCHANGED <<stream, inbox>> /\ faults' \in Nat
      BY <1>1, <2>1 DEF Ingress!ReadGroup
    <2> QED BY <1>2, <2>1, <2>2, ReadsGroup
  <1>8. CASE Ingress!RejectMalformed(b)
    <2> DEFINE m == [bridge[b] EXCEPT !.pc = "drop"]
    <2>1. UNCHANGED <<stream, last, pel, inbox, faults>> /\ bridge' = [bridge EXCEPT ![b] = m]
      BY <1>8 DEF Ingress!RejectMalformed
    <2>2. Carries(m)
      BY <1>0, <1>8 DEF Carries, Ingress!Bridge, Ingress!RejectMalformed, Ingress!Current
    <2> HIDE DEF m
    <2> QED BY <1>2, <1>4, <2>1, <2>2
  <1>9. CASE Ingress!Receive(b)
    <2> DEFINE m == [bridge[b] EXCEPT !.pc = "ack"]
    <2>1. /\ UNCHANGED <<stream, last, pel, faults>> /\ bridge' = [bridge EXCEPT ![b] = m]
          /\ Ingress!Insert(stream[Ingress!Current(b)]) /\ bridge[b].pc = "handle"
      BY <1>9 DEF Ingress!Receive
    <2>2. Ingress!Current(b) \in DOMAIN stream
      BY <2>1, RestCarries
    <2>3. /\ InboxRows' /\ StoredStays /\ Receives
          /\ inbox'[stream[Ingress!Current(b)]].status # "absent"
      BY <1>0, <2>1, <2>2, InsertIs
    <2>4. last' \in Nat /\ last' <= Len(stream) /\ \A i \in DOMAIN stream : Arrives(i)'
      BY <1>0, <1>3, <2>1, <2>3
    <2>5. Carries(m)'
      BY <1>0, <2>1, <2>3 DEF Carries, Ingress!Bridge, Ingress!Current, Stored
    <2>6. bridge' = [q \in Bridges |-> IF q = b THEN m ELSE bridge[q]]
      BY <2>1, Zenon DEF RelayInv
    <2> HIDE DEF m
    <2>7. bridge' = [q \in Bridges |-> bridge'[q]]
      BY <2>6, Zenon
    <2>8. ASSUME NEW q \in Bridges PROVE Carries(bridge[q])'
      <3>1. CASE q = b
        <4>1. bridge'[b] = m
          BY <2>6
        <4>2. m = m'
          BY <2>1 DEF m
        <4> QED BY <2>5, <3>1, <4>1, <4>2
      <3>2. CASE q # b
        <4>1. bridge'[q] = bridge[q] /\ Carries(bridge[q])
          BY <2>6, <3>2 DEF RelayInv
        <4>2. bridge[q].todo # <<>> => Head(bridge[q].todo) \in DOMAIN stream
          <5>1. bridge[q].todo # <<>> =>
                  1 \in 1..Len(bridge[q].todo) /\ Head(bridge[q].todo) = bridge[q].todo[1]
            BY <4>1 DEF Carries, Ingress!Bridge
          <5> QED BY <4>1, <5>1 DEF Carries
        <4> QED BY <1>0, <2>1, <2>3, <4>1, <4>2 DEF Carries, StoredStays, Stored
      <3> QED BY <3>1, <3>2
    <2> QED BY <1>0, <2>1, <2>3, <2>4, <2>7, <2>8 DEF RelayInv
  <1>10. CASE Ingress!ReceiveFails(b)
    <2>1. Ingress!Current(b) \in DOMAIN stream /\ \E m : bridge' = [bridge EXCEPT ![b] = m] /\ Carries(m)
      BY <1>10, RestCarries DEF Ingress!ReceiveFails
    <2>2. UNCHANGED <<stream, last, pel>> /\ faults' \in Nat
      BY <1>1, <1>10 DEF Ingress!ReceiveFails
    <2>3. InboxRows' /\ StoredStays /\ Receives
      BY <1>0, <1>2, <1>10, <2>1, InsertIs DEF Ingress!ReceiveFails
    <2> QED BY <1>4, <2>1, <2>2, <2>3
  <1>11. CASE \E works \in BOOLEAN : Ingress!Ack(b, works)
    <2>1. PICK works \in BOOLEAN : Ingress!Ack(b, works)
      BY <1>11
    <2>2. PICK m : bridge' = [bridge EXCEPT ![b] = m] /\ Carries(m)
      BY <2>1, RestCarries DEF Ingress!Ack
    <2>3. UNCHANGED <<stream, last, inbox>> /\ faults' \in Nat
      BY <1>1, <2>1 DEF Ingress!Ack
    <2>4. Stored(stream[Ingress!Current(b)]) \/ stream[Ingress!Current(b)] \in Malformed
      BY <1>0, <2>1 DEF Carries, Ingress!Ack, Ingress!Current
    <2>5. \A i \in DOMAIN pel : i \in DOMAIN pel' \/ i = Ingress!Current(b)
      BY <2>1 DEF Ingress!Ack, Ingress!Acked
    <2>6. \A i \in DOMAIN stream : Arrives(i)'
      BY <1>0, <2>3, <2>4, <2>5 DEF Arrives, Stored
    <2> QED BY <1>0, <1>2, <2>2, <2>3, <2>6, OneBridge
  <1> QED BY <1>5, <1>6, <1>7, <1>8, <1>9, <1>10, <1>11
          DEF Ingress!Relay, Ingress!Cycle

-----------------------------------------------------------------------------
(* The consumers.                                                          *)

\* The operators on rows are the same in every component, and in the proofs
\* about the publisher.
LEMMA SameRows ==
    /\ Publishing!Absent = Absent /\ Ingress!Absent = Absent /\ Consuming!Absent = Absent
    /\ \A r : Publishing!Aged(r) = Proved!Aged(r) /\ Consuming!Aged(r) = Aged(r)
    /\ \A r, id, late : Consuming!Claimed(r, id, late) = Claimed(r, id, late)
    /\ \A r, st : Consuming!Released(r, st) = Released(r, st)
    /\ \A r, d : Consuming!Retried(r, d) = Retried(r, d)
    /\ \A n : Consuming!Delays(n) = Delays(n)
  BY DEF Publishing!Absent, Ingress!Absent, Consuming!Absent, Absent,
         Publishing!Aged, Publishing!Claimable, Publishing!Older,
         Proved!Aged, Proved!Claimable, Proved!Older,
         Consuming!Aged, Consuming!Claimable, Consuming!Older, Aged, Claimable, Older,
         Consuming!Claimed, Claimed, Consuming!Released, Released,
         Consuming!Retried, Retried,
         Consuming!Delays, Delays, Consuming!RawBackoff, RawBackoff

LEMMA ProvedRows ==
    /\ \A ids : Proved!Row(ids) = Row(ids)
    /\ Proved!Claimable = Claimable /\ Proved!Terminal = Terminal
    /\ \A r : Proved!Aged(r) = Aged(r)
    /\ \A r, id, late : Proved!Claimed(r, id, late) = Claimed(r, id, late)
    /\ \A r, st : Proved!Released(r, st) = Released(r, st)
    /\ \A r, d : Proved!Retried(r, d) = Retried(r, d)
    /\ \A n : Proved!Delays(n) = Delays(n)
  BY DEF Proved!Row, Row, Proved!Claimable, Claimable, Proved!Terminal, Terminal,
         Proved!Aged, Proved!Older, Aged, Older, Proved!Claimed, Claimed,
         Proved!Released, Released, Proved!Retried, Retried,
         Proved!Delays, Delays, Proved!RawBackoff, RawBackoff

\* The numbers of a lease, and the row that is not there.
LEMMA AbsentRow == \A ids : Absent \in Row(ids)
  BY LeaseAssumption, BackoffAssumption
     DEF LeaseAssumption, BackoffAssumption, Absent, Row

\* What is proved about the operators on rows there holds of those here.
LEMMA ClaimedRow ==
    ASSUME NEW ids, NEW r \in Row(ids), NEW id \in ids, NEW late \in 0..MaxLag
    PROVE  Claimed(r, id, late) \in Row(ids) /\ Claimed(r, id, late).status = "processing"
  <1>1. Proved!Claimed(r, id, late) \in Proved!Row(ids)
    BY ProvedRows, ComponentAssumptions, Proved!ClaimedRow
  <1>2. Proved!Claimed(r, id, late).status = "processing"
    BY ProvedRows, Proved!ClaimedIs, ComponentAssumptions
  <1> QED BY <1>1, <1>2, ProvedRows

LEMMA ReleasedRow ==
    ASSUME NEW ids, NEW r \in Row(ids), NEW st \in Claimable \cup Terminal
    PROVE  Released(r, st) \in Row(ids) /\ Released(r, st).status = st
  <1>1. Proved!Released(r, st) \in Proved!Row(ids)
    BY ProvedRows, ComponentAssumptions, Proved!ReleasedRow
  <1>2. Proved!Released(r, st).status = st
    BY ProvedRows, Proved!ReleasedIs, ComponentAssumptions
  <1> QED BY <1>1, <1>2, ProvedRows

LEMMA RetriedRow ==
    ASSUME NEW ids, NEW r \in Row(ids), NEW n, NEW d \in Delays(n)
    PROVE  Retried(r, d) \in Row(ids) /\ Retried(r, d).status = "failed"
  <1>1. Proved!Retried(r, d) \in Proved!Row(ids)
    BY ProvedRows, ComponentAssumptions, Proved!RetriedRow
  <1>2. Proved!Retried(r, d).status = "failed"
    BY ProvedRows, Proved!RetriedIs, ComponentAssumptions
  <1> QED BY <1>1, <1>2, ProvedRows

LEMMA AgedRow ==
    ASSUME NEW ids, NEW r \in Row(ids)
    PROVE  Aged(r) \in Row(ids) /\ Aged(r).status = r.status
  <1>1. Proved!Aged(r) \in Proved!Row(ids)
    BY ProvedRows, ComponentAssumptions, Proved!AgedRow
  <1>2. Proved!Aged(r).status = r.status
    BY ProvedRows, Proved!AgedKeeps, ComponentAssumptions
  <1> QED BY <1>1, <1>2, ProvedRows

\* The effect of an event took place once if its message is processed, and not
\* at all otherwise.
ConsumerInv ==
    /\ con = [c \in Consumers |-> con[c]]
    /\ \A c \in Consumers : /\ con[c] \in Consuming!Consumer
                            /\ con[c].pc = "settle" => con[c].cur \in Events
    /\ effects \in [Events -> Nat]
    /\ \A e \in Events : effects[e] = IF inbox[e].status = "processed" THEN 1 ELSE 0

\* Consumers move messages between the statuses of work to be done, or settle
\* one of them for good, with its effect if it is processed.
KeepsWorking ==
    /\ UNCHANGED effects
    /\ \A e \in Events :
         \/ inbox'[e].status = inbox[e].status
         \/ inbox[e].status \in Claimable /\ inbox'[e].status \in Claimable

SettlesOne ==
    \E e \in Events :
      /\ inbox[e].status = "processing"
      /\ \A d \in Events \ {e} : inbox'[d] = inbox[d]
      /\ \/ /\ inbox'[e].status = "processed"
            /\ effects' = [effects EXCEPT ![e] = @ + 1]
         \/ inbox'[e].status = "dead_letter" /\ UNCHANGED effects

\* One row of the inbox gets a new value.
LEMMA OneMessage ==
    ASSUME InboxRows, NEW e \in Events, NEW r \in Row(ConsumerIds),
           inbox' = [inbox EXCEPT ![e] = r]
    PROVE  InboxRows' /\ inbox'[e] = r /\ \A d \in Events \ {e} : inbox'[d] = inbox[d]
  BY DEF InboxRows

\* The end of a transaction settles the row of its message, if it is owned.
LEMMA TransactionEnds ==
    ASSUME InboxRows, ConsumerInv, NEW c \in Consumers, con[c].pc = "settle",
           Consuming!EndTransaction(c)
    PROVE  InboxRows' /\ (KeepsWorking \/ SettlesOne)
  <1> DEFINE e == con[c].cur
  <1>1. e \in Events /\ con[c].batch[e] \in Nat
    BY DEF ConsumerInv, Consuming!Consumer
  <1>2. inbox[e] \in Row(ConsumerIds)
    BY <1>1 DEF InboxRows
  <1>3. CASE UNCHANGED <<inbox, effects>>
    BY <1>3 DEF InboxRows, KeepsWorking
  <1>4. ASSUME Consuming!ConOwns(c, e) PROVE inbox[e].status = "processing"
    BY <1>4 DEF Consuming!ConOwns
  <1> HIDE DEF e
  <1>5. CASE Consuming!MarkProcessed(c)
    <2>1. SUFFICES ASSUME Consuming!ConOwns(c, e) PROVE InboxRows' /\ SettlesOne
      BY <1>3, <1>5 DEF Consuming!MarkProcessed, e
    <2>2. /\ inbox' = [inbox EXCEPT ![e] = Released(inbox[e], "processed")]
          /\ effects' = [effects EXCEPT ![e] = @ + 1]
      BY <1>5, <2>1, SameRows DEF Consuming!MarkProcessed, e
    <2>3. /\ Released(inbox[e], "processed") \in Row(ConsumerIds)
          /\ Released(inbox[e], "processed").status = "processed"
      BY <1>2, ReleasedRow DEF Terminal
    <2> QED BY <1>1, <1>4, <2>1, <2>2, <2>3, OneMessage DEF SettlesOne
  <1>6. CASE Consuming!BuryMessage(c)
    <2>1. /\ UNCHANGED effects
          /\ inbox' = IF Consuming!ConOwns(c, e)
                      THEN [inbox EXCEPT ![e] = Consuming!Released(inbox[e], "dead_letter")]
                      ELSE inbox
      BY <1>6 DEF Consuming!BuryMessage, Consuming!SettleMessage, e
    <2>2. SUFFICES ASSUME Consuming!ConOwns(c, e) PROVE InboxRows' /\ SettlesOne
      BY <1>3, <2>1
    <2>3. inbox' = [inbox EXCEPT ![e] = Released(inbox[e], "dead_letter")]
      BY <2>1, <2>2, SameRows
    <2>4. /\ Released(inbox[e], "dead_letter") \in Row(ConsumerIds)
          /\ Released(inbox[e], "dead_letter").status = "dead_letter"
      BY <1>2, ReleasedRow DEF Terminal
    <2> QED BY <1>1, <1>4, <2>1, <2>2, <2>3, <2>4, OneMessage DEF SettlesOne
  <1>7. CASE Consuming!MarkFailed(c)
    <2>1. PICK d \in Delays(con[c].batch[e]) :
            /\ UNCHANGED effects
            /\ inbox' = IF Consuming!ConOwns(c, e)
                        THEN [inbox EXCEPT ![e] = Consuming!Retried(inbox[e], d)]
                        ELSE inbox
      BY <1>7, SameRows DEF Consuming!MarkFailed, Consuming!SettleMessage, e
    <2>2. SUFFICES ASSUME Consuming!ConOwns(c, e) PROVE InboxRows' /\ KeepsWorking
      BY <1>3, <2>1
    <2>3. inbox' = [inbox EXCEPT ![e] = Retried(inbox[e], d)]
      BY <2>1, <2>2, SameRows
    <2>4. /\ Retried(inbox[e], d) \in Row(ConsumerIds)
          /\ Retried(inbox[e], d).status = "failed"
      BY <1>1, <1>2, RetriedRow
    <2> QED BY <1>1, <1>4, <2>1, <2>2, <2>3, <2>4, OneMessage DEF KeepsWorking, Claimable
  <1> QED BY <1>5, <1>6, <1>7 DEF Consuming!EndTransaction

\* A claim moves due messages into processing.
LEMMA ClaimsMessages ==
    ASSUME InboxRows, ConsumerInv, NEW c \in Consumers,
           NEW late \in 0..MaxLag, NEW heard \in BOOLEAN,
           Consuming!ClaimMessages(c, late, heard)
    PROVE  /\ InboxRows' /\ KeepsWorking
           /\ \E m \in Consuming!Consumer : /\ con' = [con EXCEPT ![c] = m]
                                            /\ m.pc # "settle"
  <1>1. PICK S \in Consuming!Batches(inbox, late) :
          /\ inbox' = Consuming!ClaimRows(inbox, S, Consuming!ConId(c), late)
          /\ IF heard
             THEN con' = [con EXCEPT ![c].pc = "batch", ![c].batch =
                    [e \in Events |-> IF e \in S THEN inbox[e].attempts + 1 ELSE 0]]
             ELSE UNCHANGED con
    BY DEF Consuming!ClaimMessages
  <1>2. /\ UNCHANGED effects /\ con[c].pc = "idle" /\ con[c] \in Consuming!Consumer
        /\ con = [d \in Consumers |-> con[d]]
    BY DEF Consuming!ClaimMessages, ConsumerInv
  <1>3. Consuming!ConId(c) \in ConsumerIds
    BY <1>2 DEF Consuming!ConId, ConsumerIds, Consuming!Consumer
  <1>4. /\ DOMAIN inbox = Events /\ S \subseteq Events
        /\ \A e \in S : inbox[e].status \in Claimable
    BY DEF Consuming!Batches, Consuming!Due, Consuming!Claimable, Claimable, InboxRows
  <1>5. inbox' = [e \in Events |->
                    IF e \in S THEN Claimed(inbox[e], Consuming!ConId(c), late)
                    ELSE inbox[e]]
    BY <1>1, <1>4, SameRows DEF Consuming!ClaimRows
  <1>6. ASSUME NEW e \in Events
        PROVE  /\ inbox'[e] \in Row(ConsumerIds)
               /\ \/ inbox'[e].status = inbox[e].status
                  \/ inbox[e].status \in Claimable /\ inbox'[e].status \in Claimable
    <2>1. inbox[e] \in Row(ConsumerIds)
      BY DEF InboxRows
    <2>2. CASE e \in S
      <3>1. inbox'[e] = Claimed(inbox[e], Consuming!ConId(c), late)
        BY <1>5, <2>2
      <3>2. inbox'[e] \in Row(ConsumerIds) /\ inbox'[e].status = "processing"
        BY <1>3, <2>1, <3>1, ClaimedRow
      <3> QED BY <1>4, <2>2, <3>2 DEF Claimable
    <2>3. CASE e \notin S
      BY <1>5, <2>1, <2>3
    <2> QED BY <2>2, <2>3
  <1>7. InboxRows' /\ KeepsWorking
    <2>1. inbox' \in [Events -> Row(ConsumerIds)]
      BY <1>5, <1>6
    <2> QED BY <1>2, <1>6, <2>1 DEF InboxRows, KeepsWorking
  <1>8. CASE heard
    <2> DEFINE B == [e \in Events |-> IF e \in S THEN inbox[e].attempts + 1 ELSE 0]
               m == [con[c] EXCEPT !.pc = "batch", !.batch = B]
    <2>1. B \in [Events -> Nat]
      BY DEF InboxRows, Row
    <2>2. con' = [con EXCEPT ![c] = m]
      BY <1>1, <1>2, <1>8, Zenon
    <2> HIDE DEF B
    <2>3. m \in Consuming!Consumer /\ m.pc = "batch"
      BY <1>2, <2>1 DEF Consuming!Consumer
    <2> QED BY <1>7, <2>2, <2>3
  <1>9. CASE ~heard
    <2>1. con' = [con EXCEPT ![c] = con[c]]
      BY <1>1, <1>2, <1>9, Zenon
    <2> QED BY <1>2, <1>7, <2>1
  <1> QED BY <1>8, <1>9

\* The effects stay in step with the messages.
LEMMA EffectsFollow ==
    ASSUME InboxRows, ConsumerInv, KeepsWorking \/ SettlesOne
    PROVE  /\ effects' \in [Events -> Nat]
           /\ \A e \in Events :
                effects'[e] = IF inbox'[e].status = "processed" THEN 1 ELSE 0
  <1>1. CASE KeepsWorking
    BY <1>1 DEF KeepsWorking, ConsumerInv, Claimable
  <1>2. CASE SettlesOne
    <2>1. PICK e \in Events :
            /\ inbox[e].status = "processing"
            /\ \A d \in Events \ {e} : inbox'[d] = inbox[d]
            /\ \/ /\ inbox'[e].status = "processed"
                  /\ effects' = [effects EXCEPT ![e] = @ + 1]
               \/ inbox'[e].status = "dead_letter" /\ UNCHANGED effects
      BY <1>2 DEF SettlesOne
    <2>2. effects \in [Events -> Nat] /\ effects[e] = 0
      BY <2>1 DEF ConsumerInv
    <2>3. CASE inbox'[e].status = "processed" /\ effects' = [effects EXCEPT ![e] = @ + 1]
      <3>1. effects' = [effects EXCEPT ![e] = 1]
        BY <2>2, <2>3
      <3>2. effects' \in [Events -> Nat] /\ effects'[e] = 1
            /\ \A d \in Events \ {e} : effects'[d] = effects[d]
        BY <2>2, <3>1
      <3> QED BY <2>1, <2>3, <3>2 DEF ConsumerInv
    <2>4. CASE inbox'[e].status = "dead_letter" /\ UNCHANGED effects
      BY <2>1, <2>2, <2>4 DEF ConsumerInv
    <2> QED BY <2>1, <2>3, <2>4
  <1> QED BY <1>1, <1>2

\* What a step of a consumer does.
LEMMA ConsumerSteps ==
    ASSUME InboxRows, ConsumerInv, faults \in Nat,
           NEW c \in Consumers, Consuming!Consume(c)
    PROVE  InboxRows' /\ ConsumerInv' /\ faults' \in Nat /\ (KeepsWorking \/ SettlesOne)
  <1>0. /\ con[c] \in Consuming!Consumer /\ con = [d \in Consumers |-> con[d]]
        /\ \A d \in Consumers : con[d] \in Consuming!Consumer
        /\ \A d \in Consumers : con[d].pc = "settle" => con[d].cur \in Events
    BY DEF ConsumerInv
  <1>1. \A n \in {0, 1} : Consuming!Fault(n) => faults' \in Nat
    BY DEF Consuming!Fault
  <1>2. UNCHANGED <<inbox, effects>> => InboxRows' /\ KeepsWorking
    BY DEF InboxRows, KeepsWorking
  <1>3. ASSUME InboxRows', faults' \in Nat, KeepsWorking \/ SettlesOne,
               NEW m \in Consuming!Consumer, con' = [con EXCEPT ![c] = m],
               m.pc = "settle" => m.cur \in Events
        PROVE  ConsumerInv'
    <2>1. con' = [d \in Consumers |-> IF d = c THEN m ELSE con[d]]
      BY <1>0, <1>3, Zenon
    <2>2. con' = [d \in Consumers |-> con'[d]]
      BY <2>1, Zenon
    <2> QED BY <1>0, <1>3, <2>1, <2>2, EffectsFollow DEF ConsumerInv
  <1>4. NoOne \in Events \cup {NoOne} /\ Consuming!NoBatch \in [Events -> Nat]
    BY DEF Consuming!NoBatch
  <1>5. Consuming!NextRow(c) =>
          \E m \in Consuming!Consumer : con' = [con EXCEPT ![c] = m] /\ m.pc # "settle"
    <2> DEFINE rest == [con[c].batch EXCEPT ![con[c].cur] = 0]
               m == [con[c] EXCEPT !.cur = NoOne, !.batch = rest, !.verdict = "applied",
                                   !.pc = IF rest = Consuming!NoBatch
                                          THEN "idle" ELSE "batch"]
    <2>1. rest \in [Events -> Nat]
      BY <1>0 DEF Consuming!Consumer
    <2>2. Consuming!NextRow(c) => con' = [con EXCEPT ![c] = m]
      BY DEF Consuming!NextRow
    <2> HIDE DEF rest
    <2>3. m \in Consuming!Consumer /\ m.pc # "settle"
      BY <1>0, <1>4, <2>1 DEF Consuming!Consumer, Consuming!Verdicts
    <2> QED BY <2>2, <2>3
  <1>6. CASE \E late \in 0..MaxLag, heard \in BOOLEAN :
               Consuming!ClaimMessages(c, late, heard)
    <2>1. PICK late \in 0..MaxLag, heard \in BOOLEAN :
            Consuming!ClaimMessages(c, late, heard)
      BY <1>6
    <2>2. faults' \in Nat
      BY <1>1, <2>1 DEF Consuming!ClaimMessages
    <2> QED BY <1>3, <2>1, <2>2, ClaimsMessages
  <1>7. CASE \E e \in Events, v \in Consuming!Verdicts : Consuming!RunHandler(c, e, v)
    <2>1. PICK e \in Events, v \in Consuming!Verdicts : Consuming!RunHandler(c, e, v)
      BY <1>7
    <2> DEFINE m == [con[c] EXCEPT !.pc = "settle", !.cur = e, !.verdict = v]
    <2>2. con' = [con EXCEPT ![c] = m] /\ UNCHANGED <<inbox, effects, faults>>
      BY <2>1 DEF Consuming!RunHandler
    <2>3. m \in Consuming!Consumer /\ m.cur = e
      BY <1>0 DEF Consuming!Consumer
    <2> HIDE DEF m
    <2> QED BY <1>2, <1>3, <2>2, <2>3
  <1>8. CASE Consuming!ProcessRow(c) \/ Consuming!TransactionFails(c)
    <2>1. /\ con[c].pc = "settle" /\ Consuming!NextRow(c) /\ faults' \in Nat
          /\ Consuming!EndTransaction(c) \/ UNCHANGED <<inbox, effects>>
      BY <1>1, <1>8 DEF Consuming!ProcessRow, Consuming!TransactionFails
    <2>2. InboxRows' /\ (KeepsWorking \/ SettlesOne)
      BY <1>2, <2>1, TransactionEnds
    <2> QED BY <1>3, <1>5, <2>1, <2>2
  <1>9. CASE Consuming!Halt(c)
    <2> DEFINE m == [con[c] EXCEPT !.pc = "down", !.batch = Consuming!NoBatch,
                                   !.cur = NoOne, !.verdict = "applied"]
    <2>1. con' = [con EXCEPT ![c] = m] /\ UNCHANGED <<inbox, effects>> /\ faults' \in Nat
      BY <1>1, <1>9 DEF Consuming!Halt
    <2>2. m \in Consuming!Consumer /\ m.pc # "settle"
      BY <1>0, <1>4 DEF Consuming!Consumer, Consuming!Verdicts
    <2> HIDE DEF m
    <2> QED BY <1>2, <1>3, <2>1, <2>2
  <1>10. CASE Consuming!Restart(c)
    <2> DEFINE m == [con[c] EXCEPT !.pc = "idle", !.inc = con[c].inc + 1]
    <2>1. con \in [Consumers -> Consuming!Consumer]
      BY <1>0
    <2>2. con' = [con EXCEPT ![c] = m] /\ UNCHANGED <<inbox, effects, faults>>
      BY <1>10, <2>1 DEF Consuming!Restart
    <2>3. con[c].inc + 1 \in Nat
      BY <1>0 DEF Consuming!Consumer
    <2>4. m \in Consuming!Consumer /\ m.pc # "settle"
      BY <1>0, <2>3 DEF Consuming!Consumer
    <2> HIDE DEF m
    <2> QED BY <1>2, <1>3, <2>2, <2>4
  <1> QED BY <1>6, <1>7, <1>8, <1>9, <1>10 DEF Consuming!Consume

-----------------------------------------------------------------------------
(* The pipeline.                                                           *)

\* Nobody invents an event: what is on the stream or in the inbox was committed,
\* by a row of the outbox unless it is somebody else's.
Chain ==
    /\ \A e \in Foreign : outbox[e].status = "absent"
    /\ \A i \in DOMAIN stream : Committed(stream[i])
    /\ \A e \in Events : Stored(e) => Committed(e)

DeliveryInv ==
    PublisherInv /\ RelayInv /\ InboxRows /\ ConsumerInv /\ Chain

\* Numbers and types that every step below uses.
LEMMA DeliveryTypes ==
    ASSUME DeliveryInv
    PROVE  /\ outbox \in [Events -> Proved!Row(Proved!Ids)]
           /\ stream \in Seq(Events) /\ DOMAIN stream = 1..Len(stream)
           /\ faults \in Nat
           /\ \A i \in DOMAIN stream : stream[i] \in Events
  <1>1. Proved!TypeOK /\ stream \in Seq(Events)
    BY DEF DeliveryInv, PublisherInv, Proved!SentInv, Proved!TInv, RelayInv
  <1>2. outbox \in [Events -> Proved!Row(Proved!Ids)] /\ faults \in Nat
    BY <1>1 DEF Proved!TypeOK, Proved!Ids
  <1> QED BY <1>1, <1>2

\* The effects stay as they are, with the messages, unless a consumer acts.
LEMMA ConsumersRest ==
    ASSUME ConsumerInv, UNCHANGED <<con, effects>>,
           \A e \in Events : \/ inbox'[e].status = inbox[e].status
                             \/ inbox[e].status = "absent" /\ inbox'[e].status = "pending"
    PROVE  ConsumerInv'
  BY DEF ConsumerInv

\* Initially there is nothing.
LEMMA InitDelivery == Init => DeliveryInv
  <1> SUFFICES ASSUME Init PROVE DeliveryInv
    OBVIOUS
  <1>1. PublisherInv
    <2>1. Proved!Init
      BY DEF Init, Publishing!Init, Proved!Init, Publishing!Absent, Proved!Absent,
             Publishing!NoBatch, Proved!NoBatch
    <2>2. Proved!SentInv
      BY <2>1, ComponentAssumptions, Proved!InitSent
    <2>3. Proved!BatchInv
      BY <2>1, ComponentAssumptions, Proved!InitCommit DEF Proved!CommitInv
    <2> QED BY <2>2, <2>3 DEF PublisherInv
  <1>2. RelayInv
    <2>1. /\ stream = <<>> /\ last = 0
          /\ bridge = [b \in Bridges |-> Ingress!AtRest("idle")]
      BY DEF Init, Ingress!Init
    <2>2. \A b \in Bridges : Carries(bridge[b])
      BY <2>1, AtRestCarries
    <2> QED BY <2>1, <2>2 DEF RelayInv
  <1>3. inbox = [e \in Events |-> Absent] /\ effects = [e \in Events |-> 0]
    BY SameRows DEF Init, Consuming!Init
  <1>4. InboxRows
    <2>1. Absent \in Row(ConsumerIds)
      BY AbsentRow
    <2> QED BY <1>3, <2>1 DEF InboxRows
  <1>5. ConsumerInv
    <2> DEFINE m == [pc |-> "idle", inc |-> 0, batch |-> Consuming!NoBatch,
                     cur |-> NoOne, verdict |-> "applied"]
    <2>1. con = [c \in Consumers |-> m]
      BY DEF Init, Consuming!Init
    <2>2. m \in Consuming!Consumer /\ m.pc # "settle"
      BY DEF Consuming!Consumer, Consuming!NoBatch, Consuming!Verdicts
    <2> HIDE DEF m
    <2> QED BY <1>3, <2>1, <2>2 DEF ConsumerInv, Absent
  <1>6. Chain
    <2>1. /\ outbox = [e \in Events |-> Absent] /\ stream = <<>>
          /\ Foreign \subseteq Events
      BY SameRows, DeliveryAssumption DEF DeliveryAssumption, Init, Publishing!Init
    <2> QED BY <1>3, <2>1 DEF Chain, Absent, Stored
  <1> QED BY <1>1, <1>2, <1>4, <1>5, <1>6 DEF DeliveryInv

\* What is committed stays so while rows stay in the outbox and the stream grows.
LEMMA CommittedStays ==
    ASSUME StreamGrows, NEW e \in Events, Committed(e),
           outbox[e].status # "absent" => outbox'[e].status # "absent"
    PROVE  Committed(e)'
  BY DEF StreamGrows, Committed

\* Messages go on from where they are, and the chain holds when the new entries
\* and the new messages are committed.
LEMMA ChainStays ==
    ASSUME DeliveryInv, StreamGrows, stream' \in Seq(Events),
           \A e \in Events : outbox[e].status # "absent" => outbox'[e].status # "absent",
           \A e \in Foreign : outbox'[e].status = "absent",
           \A i \in DOMAIN stream' \ DOMAIN stream : Committed(stream[i])',
           \A e \in Events : inbox'[e].status # "absent" => Stored(e) \/ Committed(e)
    PROVE  Chain'
  <1>1. \A e \in Events : Committed(e) => Committed(e)'
    BY CommittedStays
  <1>2. ASSUME NEW i \in DOMAIN stream' PROVE Committed(stream[i])'
    <2>1. CASE i \in DOMAIN stream
      <3>1. stream'[i] = stream[i] /\ stream[i] \in Events /\ Committed(stream[i])
        BY <2>1, DeliveryTypes DEF StreamGrows, DeliveryInv, Chain
      <3> QED BY <1>1, <3>1 DEF Committed
    <2>2. CASE i \notin DOMAIN stream
      BY <2>2
    <2> QED BY <2>1, <2>2
  <1>3. ASSUME NEW e \in Events, Stored(e)' PROVE Committed(e)'
    BY <1>1, <1>3 DEF Stored, DeliveryInv, Chain
  <1> QED BY <1>2, <1>3 DEF Chain

-----------------------------------------------------------------------------
(* The steps.  Each keeps the invariant and, seen through Fate, is a step  *)
(* of ExactlyOnceEffect or changes nothing.                                *)

FateOf == [e \in Events |-> Fate(e)]

Unseen == UNCHANGED <<FateOf, effects>>

\* An event becomes committed, and nothing else happens.
Seen(e) ==
    /\ Fate(e) = "unknown" /\ Fate(e)' = "committed"
    /\ \A d \in Events \ {e} : Fate(d)' = Fate(d)
    /\ UNCHANGED effects

\* A message keeps its fate while neither its row nor its commit are touched.
LEMMA FateStays ==
    ASSUME NEW e \in Events, Committed(e)' <=> Committed(e),
           \/ inbox'[e].status = inbox[e].status
           \/ /\ inbox[e].status \notin {"processed", "dead_letter"}
              /\ inbox'[e].status \notin {"processed", "dead_letter"}
    PROVE  Fate(e)' = Fate(e)
  BY DEF Fate

\* Time passes.
LEMMA TickStep == ASSUME DeliveryInv, Tick PROVE DeliveryInv' /\ Unseen
  <1>0. /\ PublisherInv /\ RelayInv /\ InboxRows /\ ConsumerInv
        /\ UNCHANGED <<pub, stream, last, bridge, con, effects>>
    BY DEF DeliveryInv, Tick
  <1>1. outbox' = [e \in Events |-> Proved!Aged(outbox[e])]
    BY SameRows DEF Tick, Publishing!AgeOutbox
  <1>2. inbox' = [e \in Events |-> Aged(inbox[e])]
    BY SameRows DEF Tick, Consuming!AgeInbox
  <1>3. faults' \in Nat
    <2>1. faults \in Nat
      BY DeliveryTypes
    <2> QED BY <2>1 DEF Tick
  <1>4. ASSUME NEW e \in Events
        PROVE  /\ outbox'[e] \in Proved!Row(Proved!Ids)
               /\ outbox'[e].status = outbox[e].status
               /\ outbox'[e].owner = outbox[e].owner
               /\ outbox'[e].attempts = outbox[e].attempts
    <2>1. outbox[e] \in Proved!Row(Proved!Ids) /\ outbox'[e] = Proved!Aged(outbox[e])
      BY <1>1, DeliveryTypes
    <2>2. Proved!Aged(outbox[e]) \in Proved!Row(Proved!Ids)
      BY <2>1, ComponentAssumptions, Proved!AgedRow
    <2>3. /\ Proved!Aged(outbox[e]).status = outbox[e].status
          /\ Proved!Aged(outbox[e]).owner = outbox[e].owner
          /\ Proved!Aged(outbox[e]).attempts = outbox[e].attempts
      BY <2>1, ComponentAssumptions, Proved!AgedKeeps
    <2> QED BY <2>1, <2>2, <2>3
  <1>5. ASSUME NEW e \in Events
        PROVE  inbox'[e] \in Row(ConsumerIds) /\ inbox'[e].status = inbox[e].status
    <2>1. inbox[e] \in Row(ConsumerIds) /\ inbox'[e] = Aged(inbox[e])
      BY <1>0, <1>2 DEF InboxRows
    <2> QED BY <2>1, AgedRow
  <1>6. /\ outbox' \in [Events -> Proved!Row(Proved!Ids)]
        /\ inbox' \in [Events -> Row(ConsumerIds)]
    BY <1>1, <1>2, <1>4, <1>5
  <1>7. StreamGrows /\ stream' \in Seq(Events)
    BY <1>0, DeliveryTypes DEF StreamGrows
  <1>8. PublisherInv'
    BY <1>0, <1>3, <1>4, <1>6, <1>7, PublishersRest
  <1>9. RelayInv'
    <2>1. DOMAIN pel' = DOMAIN pel
      BY DEF Tick, Ingress!AgePending
    <2> QED BY <1>0, <1>5, <1>7, <2>1, BridgesRest DEF StoredStays, Stored
  <1>10. ConsumerInv'
    BY <1>0, <1>5, ConsumersRest
  <1>11. Foreign \subseteq Events /\ \A e \in Foreign : outbox[e].status = "absent"
    BY DeliveryAssumption DEF DeliveryAssumption, DeliveryInv, Chain
  <1>12. Chain'
    BY <1>0, <1>4, <1>5, <1>7, <1>11, ChainStays DEF Stored
  <1>13. Unseen
    <2>1. \A e \in Events : Committed(e)' <=> Committed(e)
      BY <1>0, <1>4 DEF Committed
    <2>2. \A e \in Events : Fate(e)' = Fate(e)
      BY <1>5, <2>1, FateStays
    <2> QED BY <1>0, <2>2 DEF Unseen, FateOf
  <1> QED BY <1>6, <1>8, <1>9, <1>10, <1>12, <1>13 DEF DeliveryInv, InboxRows

\* The producer commits a row.
LEMMA PersistStep ==
    ASSUME DeliveryInv, NEW e \in Events \ Foreign, Persist(e)
    PROVE  DeliveryInv' /\ Seen(e)
  <1>0. /\ PublisherInv /\ RelayInv /\ InboxRows /\ ConsumerInv
        /\ UNCHANGED <<pub, stream, last, pel, inbox, bridge, con, effects, faults>>
        /\ outbox[e].status = "absent"
        /\ outbox' = [outbox EXCEPT ![e].status = "pending"]
    BY DEF DeliveryInv, Persist, Publishing!Persist
  <1>1. outbox[e] \in Proved!Row(Proved!Ids)
    BY DeliveryTypes
  <1>2. [outbox[e] EXCEPT !.status = "pending"] \in Proved!Row(Proved!Ids)
    BY <1>1 DEF Proved!Row, Proved!Claimable
  <1>3. outbox' = [outbox EXCEPT ![e] = [outbox[e] EXCEPT !.status = "pending"]]
    BY <1>0
  <1>4. /\ outbox' \in [Events -> Proved!Row(Proved!Ids)]
        /\ outbox'[e] = [outbox[e] EXCEPT !.status = "pending"]
        /\ \A d \in Events \ {e} : outbox'[d] = outbox[d]
    BY <1>2, <1>3, DeliveryTypes
  <1>5. outbox'[e].status = "pending"
    BY <1>1, <1>4 DEF Proved!Row
  <1>6. StreamGrows /\ stream' \in Seq(Events) /\ faults' \in Nat
    BY <1>0, DeliveryTypes DEF StreamGrows
  <1>7. PublisherInv'
    BY <1>0, <1>4, <1>5, <1>6, PublishersRest
  <1>8. RelayInv' /\ InboxRows'
    BY <1>0, <1>6, BridgesRest DEF StoredStays, Stored, InboxRows
  <1>9. ConsumerInv'
    BY <1>0, ConsumersRest
  <1>10. Foreign \subseteq Events /\ \A d \in Foreign : outbox'[d].status = "absent"
    BY <1>4, DeliveryAssumption DEF DeliveryAssumption, DeliveryInv, Chain
  <1>11. Chain'
    BY <1>0, <1>4, <1>5, <1>6, <1>10, ChainStays DEF Stored
  <1>12. Seen(e)
    <2>1. ~Committed(e) /\ Committed(e)' /\ ~Stored(e)
      BY <1>0, <1>5 DEF Committed, DeliveryInv, Chain
    <2>2. Fate(e) = "unknown" /\ Fate(e)' = "committed"
      BY <1>0, <2>1 DEF Fate, Stored
    <2>3. \A d \in Events \ {e} : Committed(d)' <=> Committed(d)
      BY <1>0, <1>4 DEF Committed
    <2> QED BY <1>0, <2>2, <2>3, FateStays DEF Seen
  <1> QED BY <1>7, <1>8, <1>9, <1>11, <1>12 DEF DeliveryInv

\* Somebody else's event is on the stream.
LEMMA IntrudeStep ==
    ASSUME DeliveryInv, NEW e \in Foreign, Intrude(e)
    PROVE  DeliveryInv' /\ Seen(e)
  <1>0. /\ PublisherInv /\ RelayInv /\ InboxRows /\ ConsumerInv
        /\ UNCHANGED <<outbox, pub, last, pel, inbox, bridge, con, effects>>
        /\ stream = <<>> /\ stream' = <<e>> /\ e \in Events
    BY DeliveryAssumption DEF DeliveryAssumption, DeliveryInv, Intrude
  <1>1. faults' \in Nat
    BY DeliveryTypes DEF Intrude, Ingress!Fault
  <1>2. /\ StreamGrows /\ stream' \in Seq(Events)
        /\ DOMAIN stream = {} /\ DOMAIN stream' = {1} /\ stream'[1] = e
    BY <1>0 DEF StreamGrows
  <1>3. PublisherInv'
    BY <1>0, <1>1, <1>2, DeliveryTypes, PublishersRest
  <1>4. RelayInv' /\ InboxRows'
    BY <1>0, <1>2, BridgesRest DEF StoredStays, Stored, InboxRows
  <1>5. ConsumerInv'
    BY <1>0, ConsumersRest
  <1>6. Committed(e)' /\ ~Committed(e)
    BY <1>0, <1>2 DEF Committed, DeliveryInv, Chain
  <1>7. Chain'
    <2>1. \A i \in DOMAIN stream' \ DOMAIN stream : Committed(stream[i])'
      BY <1>2, <1>6 DEF Committed
    <2>2. \A d \in Foreign : outbox'[d].status = "absent"
      BY <1>0 DEF DeliveryInv, Chain
    <2> QED BY <1>0, <1>2, <2>1, <2>2, ChainStays DEF Stored
  <1>8. Seen(e)
    <2>1. ~Stored(e)
      BY <1>0, <1>6 DEF DeliveryInv, Chain
    <2>2. Fate(e) = "unknown" /\ Fate(e)' = "committed"
      BY <1>0, <1>6, <2>1 DEF Fate, Stored
    <2>3. \A d \in Events \ {e} : Committed(d)' <=> Committed(d)
      BY <1>0, <1>2 DEF Committed
    <2> QED BY <1>0, <2>2, <2>3, FateStays DEF Seen
  <1> QED BY <1>3, <1>4, <1>5, <1>7, <1>8 DEF DeliveryInv

\* A publisher works.  What it appends to the stream was committed before.
LEMMA PublishStep ==
    ASSUME DeliveryInv, NEW p \in Workers, PublisherStep(p)
    PROVE  DeliveryInv' /\ Unseen
  <1>0. /\ PublisherInv /\ RelayInv /\ InboxRows /\ ConsumerInv
        /\ Publishing!Work(p) /\ UNCHANGED <<last, pel, inbox, bridge, con, effects>>
    BY DEF DeliveryInv, PublisherStep
  <1>1. /\ PublisherInv' /\ StreamGrows
        /\ \A e \in Events : outbox[e].status = "absent" <=> outbox'[e].status = "absent"
        /\ \A i \in DOMAIN stream' \ DOMAIN stream :
             stream'[i] \in Events /\ outbox'[stream'[i]].status # "absent"
    BY <1>0, PublisherSteps
  <1>2. stream' \in Seq(Events)
    BY <1>1 DEF PublisherInv, Proved!SentInv, Proved!TInv, Proved!TypeOK
  <1>3. RelayInv' /\ InboxRows'
    BY <1>0, <1>1, <1>2, BridgesRest DEF StoredStays, Stored, InboxRows
  <1>4. ConsumerInv'
    BY <1>0, ConsumersRest
  <1>5. Foreign \subseteq Events /\ \A d \in Foreign : outbox'[d].status = "absent"
    BY <1>1, DeliveryAssumption DEF DeliveryAssumption, DeliveryInv, Chain
  <1>6. \A i \in DOMAIN stream' \ DOMAIN stream : Committed(stream[i])'
    BY <1>1 DEF Committed
  <1>7. Chain'
    BY <1>0, <1>1, <1>2, <1>5, <1>6, ChainStays DEF Stored
  <1>8. Unseen
    <2>1. ASSUME NEW e \in Events PROVE Committed(e)' <=> Committed(e)
      <3>1. Committed(e) => Committed(e)'
        BY <1>1, CommittedStays
      <3>2. Committed(e)' => Committed(e)
        BY <1>1, <1>5 DEF Committed, StreamGrows
      <3> QED BY <3>1, <3>2
    <2>2. \A e \in Events : Fate(e)' = Fate(e)
      BY <1>0, <2>1, FateStays
    <2> QED BY <1>0, <2>2 DEF Unseen, FateOf
  <1> QED BY <1>1, <1>3, <1>4, <1>7, <1>8 DEF DeliveryInv

\* A bridge works.  What it stores is an entry of the stream.
LEMMA RelayStep ==
    ASSUME DeliveryInv, NEW b \in Bridges, BridgeStep(b)
    PROVE  DeliveryInv' /\ Unseen
  <1>0. /\ PublisherInv /\ RelayInv /\ InboxRows /\ ConsumerInv /\ faults \in Nat
        /\ Ingress!Relay(b) /\ UNCHANGED <<outbox, pub, con, effects>>
    BY DeliveryTypes DEF DeliveryInv, BridgeStep
  <1>1. RelayInv' /\ InboxRows' /\ faults' \in Nat /\ Receives /\ UNCHANGED stream
    BY <1>0, BridgeSteps
  <1>2. StreamGrows /\ stream' \in Seq(Events)
    BY <1>1, DeliveryTypes DEF StreamGrows
  <1>3. PublisherInv'
    BY <1>0, <1>1, <1>2, DeliveryTypes, PublishersRest
  <1>4. ConsumerInv'
    BY <1>0, <1>1, ConsumersRest DEF Receives
  <1>5. Chain'
    <2>1. \A e \in Events : inbox'[e].status # "absent" => Stored(e) \/ Committed(e)
      BY <1>1 DEF Receives, Stored, DeliveryInv, Chain
    <2>2. \A d \in Foreign : outbox'[d].status = "absent"
      BY <1>0 DEF DeliveryInv, Chain
    <2> QED BY <1>0, <1>1, <1>2, <2>1, <2>2, ChainStays
  <1>6. Unseen
    <2>1. \A e \in Events : Committed(e)' <=> Committed(e)
      BY <1>0, <1>1 DEF Committed
    <2>2. ASSUME NEW e \in Events
          PROVE  \/ inbox'[e].status = inbox[e].status
                 \/ /\ inbox[e].status \notin {"processed", "dead_letter"}
                    /\ inbox'[e].status \notin {"processed", "dead_letter"}
      <3>1. CASE inbox'[e] = inbox[e]
        BY <3>1
      <3>2. CASE inbox[e].status = "absent" /\ inbox'[e].status = "pending"
        BY <3>2
      <3> QED BY <1>1, <3>1, <3>2 DEF Receives
    <2>3. \A e \in Events : Fate(e)' = Fate(e)
      BY <2>1, <2>2, FateStays
    <2> QED BY <1>0, <2>3 DEF Unseen, FateOf
  <1> QED BY <1>1, <1>3, <1>4, <1>5, <1>6 DEF DeliveryInv

\* A message is settled for good: its effect took place, or it was given up.
Settles(e) ==
    /\ Fate(e) = "committed"
    /\ \/ Fate(e)' = "applied" /\ effects' = [effects EXCEPT ![e] = 1]
       \/ Fate(e)' = "given_up" /\ UNCHANGED effects
    /\ \A d \in Events \ {e} : Fate(d)' = Fate(d)

\* A consumer works.
LEMMA ConsumeStep ==
    ASSUME DeliveryInv, NEW c \in Consumers, ConsumerStep(c)
    PROVE  DeliveryInv' /\ (Unseen \/ \E e \in Events : Settles(e))
  <1>0. /\ PublisherInv /\ RelayInv /\ InboxRows /\ ConsumerInv /\ faults \in Nat
        /\ Consuming!Consume(c) /\ UNCHANGED <<outbox, pub, stream, last, pel, bridge>>
    BY DeliveryTypes DEF DeliveryInv, ConsumerStep
  <1>1. InboxRows' /\ ConsumerInv' /\ faults' \in Nat /\ (KeepsWorking \/ SettlesOne)
    BY <1>0, ConsumerSteps
  <1>2. StreamGrows /\ stream' \in Seq(Events)
    BY <1>0, DeliveryTypes DEF StreamGrows
  <1>3. \A e \in Events : Stored(e) <=> inbox'[e].status # "absent"
    BY <1>1 DEF KeepsWorking, SettlesOne, Stored, Claimable
  <1>4. PublisherInv'
    BY <1>0, <1>1, <1>2, DeliveryTypes, PublishersRest
  <1>5. RelayInv'
    BY <1>0, <1>2, <1>3, BridgesRest DEF StoredStays
  <1>6. Chain'
    <2>1. \A d \in Foreign : outbox'[d].status = "absent"
      BY <1>0 DEF DeliveryInv, Chain
    <2> QED BY <1>0, <1>2, <1>3, <2>1, ChainStays
  <1>7. \A e \in Events : Committed(e)' <=> Committed(e)
    BY <1>0 DEF Committed
  <1>8. CASE KeepsWorking
    <2>1. ASSUME NEW e \in Events PROVE Fate(e)' = Fate(e)
      <3>1. CASE inbox'[e].status = inbox[e].status
        BY <1>7, <3>1, FateStays
      <3>2. CASE inbox[e].status \in Claimable /\ inbox'[e].status \in Claimable
        BY <1>7, <3>2, FateStays DEF Claimable
      <3> QED BY <1>8, <3>1, <3>2 DEF KeepsWorking
    <2>2. Unseen
      BY <1>8, <2>1 DEF KeepsWorking, Unseen, FateOf
    <2> QED BY <1>1, <1>4, <1>5, <1>6, <2>2 DEF DeliveryInv
  <1>9. CASE SettlesOne
    <2>1. PICK e \in Events :
            /\ inbox[e].status = "processing"
            /\ \A d \in Events \ {e} : inbox'[d] = inbox[d]
            /\ \/ /\ inbox'[e].status = "processed"
                  /\ effects' = [effects EXCEPT ![e] = @ + 1]
               \/ inbox'[e].status = "dead_letter" /\ UNCHANGED effects
      BY <1>9 DEF SettlesOne
    <2>2. Fate(e) = "committed"
      <3>1. Committed(e)
        BY <2>1 DEF DeliveryInv, Chain, Stored
      <3> QED BY <2>1, <3>1 DEF Fate
    <2>3. effects[e] = 0
      BY <1>0, <2>1 DEF ConsumerInv
    <2>4. \A d \in Events \ {e} : Fate(d)' = Fate(d)
      BY <1>7, <2>1, FateStays
    <2>5. \/ Fate(e)' = "applied" /\ effects' = [effects EXCEPT ![e] = 1]
          \/ Fate(e)' = "given_up" /\ UNCHANGED effects
      BY <2>1, <2>3 DEF Fate
    <2> QED BY <1>1, <1>4, <1>5, <1>6, <2>2, <2>4, <2>5 DEF DeliveryInv, Settles
  <1> QED BY <1>1, <1>8, <1>9

\* What one step of the pipeline may do.
LEMMA NextDelivery ==
    ASSUME DeliveryInv, [Next]_deliveryVars
    PROVE  /\ DeliveryInv'
           /\ Unseen \/ (\E e \in Events : Seen(e) \/ Settles(e))
  <1>1. CASE UNCHANGED deliveryVars
    <2>1. StreamGrows /\ stream' \in Seq(Events)
      BY <1>1, DeliveryTypes DEF StreamGrows, deliveryVars
    <2>2. PublisherInv'
      BY <1>1, <2>1, DeliveryTypes, PublishersRest DEF DeliveryInv, deliveryVars
    <2>3. RelayInv' /\ InboxRows' /\ ConsumerInv'
      BY <1>1, <2>1, BridgesRest, ConsumersRest
         DEF DeliveryInv, deliveryVars, StoredStays, Stored, InboxRows
    <2>4. Chain' /\ Unseen
      BY <1>1 DEF DeliveryInv, deliveryVars, Chain, Stored, Committed, Unseen, FateOf, Fate
    <2> QED BY <2>2, <2>3, <2>4 DEF DeliveryInv
  <1>2. Foreign \subseteq Events
    BY DeliveryAssumption DEF DeliveryAssumption
  <1> QED BY <1>1, <1>2, TickStep, PersistStep, IntrudeStep, PublishStep, RelayStep,
             ConsumeStep DEF Next

\* What the inductive invariant says of an event whose row is published.
LEMMA PublishedOnTheWay == DeliveryInv => PublishedIsInFlight
  <1> SUFFICES ASSUME DeliveryInv, NEW e \in Events, outbox[e].status = "published"
               PROVE  \/ inbox[e].status # "absent"
                      \/ \E i \in DOMAIN stream :
                           stream[i] = e /\ (i > last \/ i \in DOMAIN pel)
    BY DEF PublishedIsInFlight
  <1>1. PICK i \in DOMAIN stream : stream[i] = e
    BY DEF DeliveryInv, PublisherInv, Proved!SentInv, Proved!PublishedWasSent, Proved!Sent
  <1>2. Arrives(i)
    BY DEF DeliveryInv, RelayInv
  <1>3. e \notin Malformed
    BY DeliveryAssumption DEF DeliveryAssumption, DeliveryInv, Chain
  <1> QED BY <1>1, <1>2, <1>3 DEF Arrives, Stored

-----------------------------------------------------------------------------
(* The theorems.                                                           *)

\* No published event is lost between the outbox and the inbox, whatever the
\* processes, the database and Redis do: it is stored, or its entry is still to
\* be delivered or pending.
THEOREM NothingIsLost == Spec => []PublishedIsInFlight
  BY InitDelivery, NextDelivery, PublishedOnTheWay, PTL DEF Spec

\* The pipeline implements exactly-once effect: through the fate of the events
\* every step of it is a commit, an effect, a surrender or no step at all.
THEOREM ExactlyOnce == Spec => ImplementsExactlyOnce
  <1>1. Init => Abstract!Init
    <2> SUFFICES ASSUME Init PROVE Abstract!Init
      OBVIOUS
    <2>1. /\ outbox = [e \in Events |-> Absent] /\ inbox = [e \in Events |-> Absent]
          /\ stream = <<>> /\ effects = [e \in Events |-> 0]
      BY SameRows DEF Init, Publishing!Init, Consuming!Init
    <2>2. \A e \in Events : Fate(e) = "unknown"
      BY <2>1 DEF Fate, Committed, Absent
    <2> QED BY <2>1, <2>2 DEF Abstract!Init
  <1>2. DeliveryInv /\ [Next]_deliveryVars => [Abstract!Next]_Abstract!effectVars
    <2> SUFFICES ASSUME DeliveryInv, [Next]_deliveryVars
                 PROVE  [Abstract!Next]_Abstract!effectVars
      OBVIOUS
    <2>1. CASE Unseen
      BY <2>1 DEF Unseen, FateOf, Abstract!effectVars
    <2>2. ASSUME NEW e \in Events, NEW f, Fate(e)' = f,
                 \A d \in Events \ {e} : Fate(d)' = Fate(d)
          PROVE  [d \in Events |-> Fate(d)]' = [[d \in Events |-> Fate(d)] EXCEPT ![e] = f]
      BY <2>2
    <2>3. ASSUME NEW e \in Events, Seen(e) PROVE Abstract!Commit(e)
      BY <2>2, <2>3 DEF Seen, Abstract!Commit, Abstract!Become
    <2>4. ASSUME NEW e \in Events, Settles(e) PROVE Abstract!Apply(e) \/ Abstract!GiveUp(e)
      BY <2>2, <2>4 DEF Settles, Abstract!Apply, Abstract!GiveUp, Abstract!Become
    <2> QED BY <2>1, <2>3, <2>4, NextDelivery DEF Abstract!Next
  <1>3. DeliveryInv /\ [Next]_deliveryVars => DeliveryInv'
    BY NextDelivery
  <1> QED BY <1>1, <1>2, <1>3, InitDelivery, PTL DEF Spec, ImplementsExactlyOnce, Abstract!Spec

=============================================================================
