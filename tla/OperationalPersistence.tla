------------------------- MODULE OperationalPersistence -------------------------
(***************************************************************************)
(* The persistence boundary: a fact, its event, an audit row and an outbox *)
(* row in one transaction, or nothing (services/operational_persistence.py,*)
(* services/outbox.py, OutboxRepository.enqueue).                          *)
(*                                                                         *)
(* The unit of work flushes the audit and outbox rows before the event and *)
(* the fact.  An INSERT waits while another open transaction holds the     *)
(* same unique key; it fails when that transaction commits.                *)
(***************************************************************************)
EXTENDS Naturals, FiniteSets

CONSTANTS
    Events,     \* event ids
    Facts,      \* fact ids (occupancy snapshots)
    FactOf,     \* FactOf[e]: the fact that produced event e
    Producers,  \* sessions that persist
    NoEvent,    \* no persist is under way
    MaxAborts   \* bound: transactions that fail for another reason

ASSUME PersistenceAssumption ==
    /\ FactOf \in [Events -> Facts]
    /\ NoEvent \notin Events
    /\ MaxAborts \in Nat

VARIABLES
    facts,    \* committed rows of temporal_facts
    events,   \* committed rows of operational_events
    audits,   \* audits[e]: committed audit rows of event e
    outbox,   \* committed rows of outbox_events
    txn,      \* the open transaction of each producer
    aborts    \* aborted transactions, for the bound only

persistVars == <<facts, events, audits, outbox, txn, aborts>>

\* result is what the last persist of the producer returned or raised.
Txn == [pc     : {"idle", "enqueue", "facts", "commit"},
        event  : Events \cup {NoEvent},
        result : {"none", "created", "replayed", "error", "aborted"}]

Ended(result) == [pc |-> "idle", event |-> NoEvent, result |-> result]

Init ==
    /\ facts = {} /\ events = {} /\ outbox = {}
    /\ audits = [e \in Events |-> 0]
    /\ txn = [p \in Producers |-> Ended("none")]
    /\ aborts = 0

\* Keys that other open transactions have inserted and not yet committed.
OthersEvents(p) ==
    {txn[q].event : q \in {q \in Producers \ {p} : txn[q].pc \in {"facts", "commit"}}}
OthersFacts(p) ==
    {FactOf[txn[q].event] : q \in {q \in Producers \ {p} : txn[q].pc = "commit"}}

Goto(p, pc) == txn' = [txn EXCEPT ![p].pc = pc]
Return(p, result) == txn' = [txn EXCEPT ![p] = Ended(result)]

IsDuplicate(constraint) ==
    constraint \in {"uq_outbox_events_event_id", "pk_temporal_facts",
                    "pk_operational_events"}

-----------------------------------------------------------------------------
\* The idempotency pre-check: a committed event is a replay, nothing is written.
Check(p, e) ==
    /\ txn[p].pc = "idle"
    /\ txn' = [txn EXCEPT ![p] =
          IF e \in outbox THEN Ended("replayed")
          ELSE [pc |-> "enqueue", event |-> e, result |-> "none"]]
    /\ UNCHANGED <<facts, events, audits, outbox, aborts>>

\* A violated constraint rolls the savepoint back: a duplicate is a replay,
\* anything else leaves persist as an IntegrityError and ends the transaction.
\* Mutant: the insert is tried again in the same transaction.
ConflictRetried(p, constraint) == Goto(p, "enqueue")
Conflict(p, constraint) ==
    Return(p, IF IsDuplicate(constraint) THEN "replayed" ELSE "error")

\* INSERT of the audit row and of the outbox row, unique by event id.
Enqueue(p) ==
    /\ txn[p].pc = "enqueue"
    /\ txn[p].event \notin OthersEvents(p)
    /\ IF txn[p].event \in outbox
       THEN Conflict(p, "uq_outbox_events_event_id")
       ELSE Goto(p, "facts")
    /\ UNCHANGED <<facts, events, audits, outbox, aborts>>

\* INSERT of the event row and of the fact row, by their primary keys.
WriteFacts(p) ==
    /\ txn[p].pc = "facts"
    /\ FactOf[txn[p].event] \notin OthersFacts(p)
    /\ CASE txn[p].event \in events -> Conflict(p, "operational_events_pkey")
         [] txn[p].event \notin events /\ FactOf[txn[p].event] \in facts ->
              Conflict(p, "temporal_facts_pkey")
         [] OTHER -> Goto(p, "commit")
    /\ UNCHANGED <<facts, events, audits, outbox, aborts>>

\* The caller's COMMIT makes the four rows visible together.
\* Mutant: the audit row is committed on its own, before the rest.
CommitAuditOnly(p) ==
    /\ txn[p].pc = "commit"
    /\ audits' = [audits EXCEPT ![txn[p].event] = @ + 1]
    /\ Return(p, "created")
    /\ UNCHANGED <<facts, events, outbox, aborts>>

Commit(p) ==
    LET e == txn[p].event
    IN  /\ txn[p].pc = "commit"
        /\ facts' = facts \cup {FactOf[e]}
        /\ events' = events \cup {e}
        /\ audits' = [audits EXCEPT ![e] = @ + 1]
        /\ outbox' = outbox \cup {e}
        /\ Return(p, "created")
        /\ UNCHANGED aborts

\* The caller raises, the process dies or the database fails: a rollback.
Abort(p) ==
    /\ txn[p].pc # "idle"
    /\ aborts < MaxAborts /\ aborts' = aborts + 1
    /\ Return(p, "aborted")
    /\ UNCHANGED <<facts, events, audits, outbox>>

Step(p) == Enqueue(p) \/ WriteFacts(p) \/ Commit(p)

Next == \E p \in Producers : Step(p) \/ Abort(p) \/ (\E e \in Events : Check(p, e))

Spec == Init /\ [][Next]_persistVars

\* Strong: a statement that waits for a key is woken each time a transaction
\* that holds the key ends, and the lock queue serves waiters in turn.
FairSpec == Spec /\ \A p \in Producers : SF_persistVars(Step(p))

-----------------------------------------------------------------------------
\* Every variable keeps its type.
TypeOK ==
    /\ facts \subseteq Facts /\ events \subseteq Events /\ outbox \subseteq Events
    /\ audits \in [Events -> Nat]
    /\ txn \in [Producers -> Txn]
    /\ \A p \in Producers : txn[p].pc = "idle" <=> txn[p].event = NoEvent
    /\ aborts \in Nat

\* Business state and event cannot diverge: however producers race and abort,
\* an event has all its rows, each of them once, or none.
AllOrNothing ==
    /\ events = outbox
    /\ facts = {FactOf[e] : e \in outbox}
    /\ \A e \in Events : audits[e] = IF e \in outbox THEN 1 ELSE 0

\* Producers that wait for each other's keys do not wait for ever: a persist
\* that was begun returns.
PersistReturns == \A p \in Producers : txn[p].pc # "idle" ~> txn[p].pc = "idle"
=============================================================================
