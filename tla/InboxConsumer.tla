----------------------------- MODULE InboxConsumer -----------------------------
(***************************************************************************)
(* The inbox table and the workers that turn its messages into effects.    *)
(*                                                                         *)
(*   repositories/inbox.py                 claims, guarded transitions     *)
(*   workers/inbox_consumer.py             the polling worker              *)
(*   workers/operational_effects.py,                                       *)
(*   application/services/evidence_linkage.py, its repository              *)
(*                                         the effect: an evidence request *)
(*                                                                         *)
(* The effect and the transition of the row are one transaction.  What the *)
(* handler wrote is invisible until it commits, and the UPDATE that settles*)
(* the row locks it until then, so the transaction takes effect in one     *)
(* step; the handler's run before it is a step of its own, in which the    *)
(* lease may run out and another worker may reclaim the row.               *)
(***************************************************************************)
EXTENDS LeasedRows

CONSTANTS
    Events,      \* source_message_id of the messages
    Registered,  \* those whose type has an effect: OPERATIONAL_EFFECT_TYPES
    Wired,       \* those whose type the worker was given a handler for
    Consumers,   \* consumer processes
    MaxFaults    \* bound: crashes, stops, database errors, lease overruns

VARIABLES
    inbox,     \* the rows of inbox_messages
    con,       \* the memory of each consumer process
    effects,   \* committed runs of the effect handler, per event
    faults     \* faults so far, for the bound only

consumerVars == <<inbox, con, effects, faults>>

Verdicts == {"applied", "raised", "rejected", "unhandled"}

\* batch[e]: attempts of the claimed row object, 0 if e is not in the batch.
Consumer == [pc      : {"idle", "batch", "settle", "down"},
             inc     : Nat,
             batch   : [Events -> Nat],
             cur     : Events \cup {NoOne},
             verdict : Verdicts]

NoBatch == [e \in Events |-> 0]

ConId(c)      == <<c, con[c].inc>>
ConHolds(c)   == {e \in Events : con[c].batch[e] # 0}

ConOwns(c, e) == inbox[e].status = "processing" /\ inbox[e].owner = ConId(c)

Init ==
    /\ inbox = [e \in Events |-> Absent]
    /\ con = [c \in Consumers |-> [pc |-> "idle", inc |-> 0, batch |-> NoBatch,
                                   cur |-> NoOne, verdict |-> "applied"]]
    /\ effects = [e \in Events |-> 0]
    /\ faults = 0

Fault(n) == faults + n <= MaxFaults /\ faults' = faults + n

\* The ingress bridge inserted the row (module InboxIngress).
Received(e) ==
    /\ inbox[e].status = "absent"
    /\ inbox' = [inbox EXCEPT ![e].status = "pending"]
    /\ UNCHANGED <<con, effects, faults>>

-----------------------------------------------------------------------------
\* heard is FALSE when the claim commits but its reply is lost.
ClaimMessages(c, late, heard) ==
    /\ con[c].pc = "idle"
    /\ \E S \in Batches(inbox, late) :
        /\ inbox' = ClaimRows(inbox, S, ConId(c), late)
        /\ IF heard
           THEN con' = [con EXCEPT ![c].pc = "batch", ![c].batch =
                  [e \in Events |-> IF e \in S THEN inbox[e].attempts + 1 ELSE 0]]
           ELSE UNCHANGED con
    /\ Fault(IF heard THEN 0 ELSE 1)
    /\ UNCHANGED effects

\* What running the handler inside the savepoint may end in.
VerdictsOn(e) == IF e \in Wired THEN {"applied", "raised", "rejected"}
                 ELSE {"unhandled"}

RunHandler(c, e, v) ==
    /\ con[c].pc = "batch"
    /\ e \in ConHolds(c)
    /\ v \in VerdictsOn(e)
    /\ con' = [con EXCEPT ![c] = [@ EXCEPT !.pc = "settle", !.cur = e, !.verdict = v]]
    /\ UNCHANGED <<inbox, effects, faults>>

-----------------------------------------------------------------------------
(* The end of the transaction: UPDATE ... WHERE status = 'processing' AND  *)
(* claimed_by = worker, then COMMIT.                                       *)

\* Mutant of MarkProcessed: no savepoint rollback when the claim was lost.
MarkProcessedNoRollback(c) ==
    LET e == con[c].cur
    IN  /\ con[c].verdict = "applied"
        /\ inbox' = IF ConOwns(c, e)
                    THEN [inbox EXCEPT ![e] = Released(@, "processed")] ELSE inbox
        /\ effects' = [effects EXCEPT ![e] = @ + 1]

\* mark_processed: if the claim was lost the savepoint takes the effect back.
MarkProcessed(c) ==
    LET e == con[c].cur
    IN  /\ con[c].verdict = "applied"
        /\ IF ConOwns(c, e)
           THEN /\ inbox' = [inbox EXCEPT ![e] = Released(@, "processed")]
                /\ effects' = [effects EXCEPT ![e] = @ + 1]
           ELSE UNCHANGED <<inbox, effects>>

\* Every other ending rolls the savepoint back and settles the row if owned.
SettleMessage(c, settled(_)) ==
    LET e == con[c].cur
    IN  /\ inbox' = IF ConOwns(c, e) THEN [inbox EXCEPT ![e] = settled(@)] ELSE inbox
        /\ UNCHANGED effects

BuryMessage(c) ==
    /\ \/ con[c].verdict \in {"rejected", "unhandled"}
       \/ con[c].verdict = "raised" /\ con[c].batch[con[c].cur] >= MaxAttempts
    /\ SettleMessage(c, LAMBDA r : Released(r, "dead_letter"))

MarkFailed(c) ==
    /\ con[c].verdict = "raised"
    /\ con[c].batch[con[c].cur] < MaxAttempts
    /\ \E d \in Delays(con[c].batch[con[c].cur]) :
         SettleMessage(c, LAMBDA r : Retried(r, d))

EndTransaction(c) == MarkProcessed(c) \/ BuryMessage(c) \/ MarkFailed(c)

\* The for loop of run_once goes on with the next row, or the cycle ends.
NextRow(c) ==
    LET rest == [con[c].batch EXCEPT ![con[c].cur] = 0]
    IN  con' = [con EXCEPT ![c] =
                  [@ EXCEPT !.cur = NoOne, !.batch = rest, !.verdict = "applied",
                            !.pc = IF rest = NoBatch THEN "idle" ELSE "batch"]]

ProcessRow(c) ==
    /\ con[c].pc = "settle"
    /\ EndTransaction(c)
    /\ NextRow(c)
    /\ UNCHANGED faults

\* The transaction fails, before or after its commit took effect.  run_once
\* logs the error and goes on: a row that was not settled keeps its lease.
TransactionFails(c) ==
    /\ con[c].pc = "settle"
    /\ EndTransaction(c) \/ UNCHANGED <<inbox, effects>>
    /\ NextRow(c)
    /\ Fault(1)

-----------------------------------------------------------------------------
(* Process life cycle and time.                                            *)

\* A crash anywhere, or a stop seen between two cycles or two rows.
Halt(c) ==
    /\ con[c].pc # "down"
    /\ con' = [con EXCEPT ![c] = [@ EXCEPT !.pc = "down", !.batch = NoBatch,
                                           !.cur = NoOne, !.verdict = "applied"]]
    /\ Fault(1)
    /\ UNCHANGED <<inbox, effects>>

Restart(c) ==
    /\ con[c].pc = "down"
    /\ con' = [con EXCEPT ![c].pc = "idle", ![c].inc = @ + 1]
    /\ UNCHANGED <<inbox, effects, faults>>

AgeInbox == inbox' = [e \in Events |-> Aged(inbox[e])]

ConsumerOverrun ==
    \E c \in Consumers : \E e \in ConHolds(c) : ConOwns(c, e) /\ inbox[e].lease = 1

Tick ==
    /\ AgeInbox
    /\ Fault(IF ConsumerOverrun THEN 1 ELSE 0)
    /\ UNCHANGED <<con, effects>>

-----------------------------------------------------------------------------
Consume(c) ==
    \/ \E late \in 0..MaxLag, heard \in BOOLEAN : ClaimMessages(c, late, heard)
    \/ \E e \in Events, v \in Verdicts : RunHandler(c, e, v)
    \/ ProcessRow(c)
    \/ TransactionFails(c)
    \/ Halt(c)
    \/ Restart(c)

Next == Tick \/ (\E e \in Events : Received(e)) \/ (\E c \in Consumers : Consume(c))

Spec == Init /\ [][Next]_consumerVars

\* run_forever keeps cycling, a row in flight is finished, a process that went
\* down is started again, and the clock advances.
ConsumerProgress(c) ==
    \/ ClaimMessages(c, 0, TRUE)
    \/ \E e \in Events, v \in Verdicts : RunHandler(c, e, v)
    \/ ProcessRow(c)
    \/ Restart(c)

Fairness ==
    WF_consumerVars(Tick) /\ \A c \in Consumers : WF_consumerVars(ConsumerProgress(c))

FairSpec == Spec /\ Fairness

-----------------------------------------------------------------------------
(* Properties.                                                             *)
=============================================================================
