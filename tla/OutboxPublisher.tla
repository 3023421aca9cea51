---------------------------- MODULE OutboxPublisher ----------------------------
(***************************************************************************)
(* The transactional outbox and the workers that publish it.               *)
(*                                                                         *)
(*   application/services/operational_persistence.py  writes the row       *)
(*   database/repositories/outbox.py                  claims, transitions  *)
(*   workers/outbox_publisher.py                      the polling worker   *)
(*                                                                         *)
(* Every database transaction of the code is one action; the XADD to the   *)
(* Redis stream happens between two of them, with no transaction open.     *)
(***************************************************************************)
EXTENDS LeasedRows, Sequences

CONSTANTS
    Events,       \* event ids, the unique key of outbox_events
    Workers,      \* publisher processes
    Resends,      \* times the Redis client itself repeats an unanswered XADD
    MaxFaults     \* bound: crashes, stops, database errors, lease overruns

ASSUME OutboxAssumption ==
    /\ NoOne \notin Events \cup (Workers \X Nat)
    /\ Resends \in Nat /\ MaxFaults \in Nat

VARIABLES
    outbox,   \* the rows of outbox_events; status "absent" before the insert
    pub,      \* the memory of each publisher process
    stream,   \* the Redis stream: event ids in the order of their XADDs
    faults    \* faults so far, for the bound only

outboxVars == <<outbox, pub, stream, faults>>

\* batch[e] is the attempts value of the claimed row object, 0 if e is not
\* (or no longer) in the batch; inc numbers the processes started in a slot,
\* so that Id(p) is as fresh as the uuid each of them takes for its worker_id.
Publisher == [pc    : {"idle", "batch", "mark", "retry", "bury", "down"},
              inc   : Nat,
              batch : [Events -> Nat],
              cur   : Events \cup {NoOne}]

NoBatch == [e \in Events |-> 0]

Id(p)     == <<p, pub[p].inc>>
Holds(p)  == {e \in Events : pub[p].batch[e] # 0}
Sent      == {stream[i] : i \in DOMAIN stream}

\* Mutant of Owns: the UPDATE lacks `claimed_by = worker'.
OwnsByStatus(p, e) == outbox[e].status = "processing"

Owns(p, e) == outbox[e].status = "processing" /\ outbox[e].owner = Id(p)

Init ==
    /\ outbox = [e \in Events |-> Absent]
    /\ pub = [p \in Workers |->
                [pc |-> "idle", inc |-> 0, batch |-> NoBatch, cur |-> NoOne]]
    /\ stream = <<>>
    /\ faults = 0

Fault(n) == faults + n <= MaxFaults /\ faults' = faults + n

-----------------------------------------------------------------------------
(* The producer: fact, event, audit and outbox row in one transaction.     *)
(* A second persist of the same event writes nothing (a replay).           *)

Persist(e) ==
    /\ outbox[e].status = "absent"
    /\ outbox' = [outbox EXCEPT ![e].status = "pending"]
    /\ UNCHANGED <<pub, stream, faults>>

-----------------------------------------------------------------------------
(* claim_next: lease the oldest due rows.  late is the age of the clock    *)
(* value that run_once read before it opened the transaction.              *)

\* heard is FALSE when the claim commits but its reply is lost: the rows are
\* leased to a worker that never sees them.
ClaimNext(p, late, heard) ==
    /\ pub[p].pc = "idle"
    /\ \E S \in Batches(outbox, late) :
        /\ outbox' = ClaimRows(outbox, S, Id(p), late)
        /\ IF heard
           THEN pub' = [pub EXCEPT ![p].pc = "batch", ![p].batch =
                  [e \in Events |-> IF e \in S THEN outbox[e].attempts + 1 ELSE 0]]
           ELSE UNCHANGED pub
    /\ Fault(IF heard THEN 0 ELSE 1)
    /\ UNCHANGED stream

-----------------------------------------------------------------------------
(* One item of the batch: XADD, then the transition of its row.            *)

Outcomes == {"ok", "error", "rejected"}

\* How many copies an XADD call with this outcome may leave on the stream: an
\* error may hide lost replies, and redis-py 6 repeats a command by itself.
CopiesSent(outcome) == CASE outcome = "ok" -> 1..(1 + Resends)
                         [] outcome = "error" -> 0..(1 + Resends)
                         [] OTHER -> {0}

Sending(e, n) == stream' = stream \o [i \in 1..n |-> e]

Publish(p, e, outcome) ==
    /\ pub[p].pc = "batch"
    /\ e \in Holds(p)
    /\ \E n \in CopiesSent(outcome) : Sending(e, n)
    /\ pub' = [pub EXCEPT ![p].cur = e,
                          ![p].pc = CASE outcome = "ok" -> "mark"
                                      [] outcome = "rejected" -> "bury"
                                      [] OTHER -> "retry"]
    /\ UNCHANGED <<outbox, faults>>

\* After an item the for loop goes on to the next row, or the cycle ends.
ItemDone(p) ==
    LET rest == [pub[p].batch EXCEPT ![pub[p].cur] = 0]
    IN  [pub[p] EXCEPT !.cur = NoOne, !.batch = rest,
                       !.pc = IF rest = NoBatch THEN "idle" ELSE "batch"]

\* UPDATE ... WHERE status = 'processing' AND claimed_by = worker: a row whose
\* lease was lost is left as its new owner has it.
Settle(p, settled(_)) ==
    LET e == pub[p].cur
    IN  outbox' = IF Owns(p, e) THEN [outbox EXCEPT ![e] = settled(@)] ELSE outbox

\* The row update of the transaction that ends an item.
MarkPublished(p) ==
    /\ pub[p].pc = "mark"
    /\ Settle(p, LAMBDA r : Released(r, "published"))

\* Mutant of DeadLetter: the last attempt is never made.
DeadLetterEarly(p) ==
    /\ \/ pub[p].pc = "bury"
       \/ pub[p].pc = "retry" /\ pub[p].batch[pub[p].cur] + 1 >= MaxAttempts
    /\ Settle(p, LAMBDA r : Released(r, "dead_letter"))

DeadLetter(p) ==
    /\ \/ pub[p].pc = "bury"
       \/ pub[p].pc = "retry" /\ pub[p].batch[pub[p].cur] >= MaxAttempts
    /\ Settle(p, LAMBDA r : Released(r, "dead_letter"))

ScheduleRetry(p) ==
    /\ pub[p].pc = "retry"
    /\ pub[p].batch[pub[p].cur] < MaxAttempts
    /\ \E d \in Delays(pub[p].batch[pub[p].cur]) :
         Settle(p, LAMBDA r : Retried(r, d))

Transition(p) == MarkPublished(p) \/ DeadLetter(p) \/ ScheduleRetry(p)

FinishItem(p) ==
    /\ Transition(p)
    /\ pub' = [pub EXCEPT ![p] = ItemDone(p)]
    /\ UNCHANGED <<stream, faults>>

\* The transaction fails, before or after its commit took effect.  The error
\* leaves run_once, run_forever logs it, and the rest of the batch is dropped
\* with its leases still on the rows.
DatabaseError(p) ==
    /\ pub[p].pc \in {"mark", "retry", "bury"}
    /\ Transition(p) \/ UNCHANGED outbox
    /\ pub' = [pub EXCEPT ![p] = [@ EXCEPT !.pc = "idle", !.batch = NoBatch,
                                           !.cur = NoOne]]
    /\ Fault(1)
    /\ UNCHANGED stream

-----------------------------------------------------------------------------
(* Process life cycle and time.                                            *)

Down(p) == pub' = [pub EXCEPT ![p] = [@ EXCEPT !.pc = "down", !.batch = NoBatch,
                                               !.cur = NoOne]]

Crash(p) ==
    /\ pub[p].pc # "down"
    /\ Down(p)
    /\ Fault(1)
    /\ UNCHANGED <<outbox, stream>>

\* request_stop is honoured between cycles and between the items of a batch.
Stop(p) ==
    /\ pub[p].pc \in {"idle", "batch"}
    /\ Down(p)
    /\ Fault(1)
    /\ UNCHANGED <<outbox, stream>>

Start(p) ==
    /\ pub[p].pc = "down"
    /\ pub' = [pub EXCEPT ![p].pc = "idle", ![p].inc = @ + 1]
    /\ UNCHANGED <<outbox, stream, faults>>

\* A tick that lets the lease of a row run out under a worker that still has
\* it in its batch counts as a fault.
Overrun == \E p \in Workers : \E e \in Holds(p) : Owns(p, e) /\ outbox[e].lease = 1

AgeOutbox == outbox' = [e \in Events |-> Aged(outbox[e])]

Tick ==
    /\ AgeOutbox
    /\ Fault(IF Overrun THEN 1 ELSE 0)
    /\ UNCHANGED <<pub, stream>>

-----------------------------------------------------------------------------
Work(p) ==
    \/ \E late \in 0..MaxLag, heard \in BOOLEAN : ClaimNext(p, late, heard)
    \/ \E e \in Events, outcome \in Outcomes : Publish(p, e, outcome)
    \/ FinishItem(p)
    \/ DatabaseError(p)
    \/ Crash(p)
    \/ Stop(p)
    \/ Start(p)

Next == Tick \/ (\E e \in Events : Persist(e)) \/ (\E p \in Workers : Work(p))

Spec == Init /\ [][Next]_outboxVars

\* run_forever keeps cycling, an item in flight is finished, a process that
\* went down is started again by its supervisor, and the clock advances.
Progress(p) ==
    \/ ClaimNext(p, 0, TRUE)
    \/ \E e \in Events, outcome \in Outcomes : Publish(p, e, outcome)
    \/ FinishItem(p)
    \/ Start(p)

Fairness == WF_outboxVars(Tick) /\ \A p \in Workers : WF_outboxVars(Progress(p))

FairSpec == Spec /\ Fairness

-----------------------------------------------------------------------------
(* Properties.                                                             *)

\* Every variable keeps its type: statuses stay in the enum of migration 016
\* and the timers inside the range that the bounds give them.
TypeOK ==
    /\ outbox \in [Events -> Row(Workers \X Nat)]
    /\ pub \in [Workers -> Publisher]
    /\ stream \in Seq(Events)
    /\ faults \in Nat

\* A row marked published was appended to the stream by someone: neither a
\* lost lease nor a failed XADD may turn into a published row.
PublishedWasSent == \A e \in Events : outbox[e].status = "published" => e \in Sent

\* Only a committed row reaches Redis, so nothing is published before the
\* transaction of its business state commits.
SentWasPersisted == \A e \in Sent : outbox[e].status # "absent"

\* A live lease is exclusive: a row whose lease still runs is not handed to
\* another worker, it is at most released.
LeaseIsExclusive ==
    [][\A e \in Events :
         Live(outbox[e])
           => outbox'[e].owner \in {outbox[e].owner, NoOne}]_outboxVars

\* Only the current owner settles a row: a worker that lost its lease never
\* publishes, fails or buries the row under its new owner.
OnlyOwnerSettles ==
    [][\A e \in Events :
         outbox[e].status = "processing" /\ outbox'[e].status # "processing"
           => \E p \in Workers : /\ outbox[e].owner = Id(p)
                                 /\ pub[p].cur = e
                                 /\ pub'[p] # pub[p]]_outboxVars

\* published and dead_letter are final, whatever a late worker still does.
TerminalIsFinal ==
    [][\A e \in Events : outbox[e].status \in Terminal
                           => outbox'[e] = outbox[e]]_outboxVars

\* An event is given up only when its retry budget is spent, unless Redis
\* rejected it for good.
BudgetSpentBeforeBurial ==
    [][\A e \in Events :
         outbox[e].status # "dead_letter" /\ outbox'[e].status = "dead_letter"
           => \/ outbox[e].attempts >= MaxAttempts
              \/ \E p \in Workers : pub[p].cur = e /\ pub[p].pc = "bury"]_outboxVars

\* Every committed event is published or dead-lettered in the end: no crash,
\* stop, database error or overrun leaves a row leased for ever.
EventuallySettled ==
    \A e \in Events :
        outbox[e].status = "pending" ~> outbox[e].status \in Terminal
=============================================================================
