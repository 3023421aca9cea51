----------------------------- MODULE EventDelivery -----------------------------
(***************************************************************************)
(* The delivery pipeline: outbox, publisher, Redis stream, ingress bridge, *)
(* inbox, consumer, effect.  The three components share the stream and the *)
(* inbox table, and time passes for all of them at once.                   *)
(***************************************************************************)
EXTENDS LeasedRows, Sequences

CONSTANTS
    Events,
    Foreign,                     \* events of others on the stream
    Malformed,                   \* see InboxIngress
    Registered, Wired,           \* see InboxConsumer
    Workers, Bridges, Consumers, \* the processes of each kind
    Resends,                     \* see OutboxPublisher
    Count, ClaimIdle,            \* see InboxIngress
    MaxFaults                    \* bound on the faults of all components

ASSUME DeliveryAssumption ==
    /\ Malformed \subseteq Foreign /\ Foreign \cup Registered \cup Wired \subseteq Events
    /\ {Count, ClaimIdle} \subseteq Nat \ {0} /\ {Resends, MaxFaults} \subseteq Nat
    /\ NoOne \notin Events \cup (Workers \X Nat)

VARIABLES outbox, pub, stream, last, pel, inbox, bridge, con, effects, faults

\* One foreign entry; the attempts of the rows bound the others.
MaxStream == 1 + Cardinality(Events \ Foreign) * (MaxAttempts + MaxFaults) * (1 + Resends)

Publishing == INSTANCE OutboxPublisher
Ingress    == INSTANCE InboxIngress
Consuming  == INSTANCE InboxConsumer

deliveryVars ==
    <<outbox, pub, stream, last, pel, inbox, bridge, con, effects, faults>>

Init == Publishing!Init /\ Ingress!Init /\ Consuming!Init

Persist(e) ==
    Publishing!Persist(e) /\ UNCHANGED <<last, pel, inbox, bridge, con, effects>>

\* Somebody else writes to the stream before anybody: what does not parse or, as
\* one of the faults, what no consumer has a handler for.  The payload of an
\* outbox row always parses.
Intrude(e) ==
    /\ stream = <<>>
    /\ stream' = <<e>>
    /\ Ingress!Fault(IF e \in Malformed THEN 0 ELSE 1)
    /\ UNCHANGED <<outbox, pub, last, pel, inbox, bridge, con, effects>>

PublisherStep(p) ==
    Publishing!Work(p) /\ UNCHANGED <<last, pel, inbox, bridge, con, effects>>

BridgeStep(b) ==
    Ingress!Relay(b) /\ UNCHANGED <<outbox, pub, con, effects>>

ConsumerStep(c) ==
    Consuming!Consume(c) /\ UNCHANGED <<outbox, pub, stream, last, pel, bridge>>

\* Time passes everywhere; a lease that runs out under its worker is a fault.
Tick ==
    /\ Publishing!AgeOutbox /\ Ingress!AgePending /\ Consuming!AgeInbox
    /\ faults' = faults + (IF Publishing!Overrun THEN 1 ELSE 0)
                        + (IF Consuming!ConsumerOverrun THEN 1 ELSE 0)
    /\ faults' <= MaxFaults
    /\ UNCHANGED <<pub, stream, last, bridge, con, effects>>

Next ==
    \/ Tick
    \/ \E e \in Events \ Foreign : Persist(e)
    \/ \E e \in Foreign : Intrude(e)
    \/ \E p \in Workers : PublisherStep(p)
    \/ \E b \in Bridges : BridgeStep(b)
    \/ \E c \in Consumers : ConsumerStep(c)

Spec == Init /\ [][Next]_deliveryVars

\* The fairness of the components: every process keeps cycling.
Fairness ==
    /\ WF_deliveryVars(Tick)
    /\ \A p \in Workers :
         WF_deliveryVars(Publishing!Progress(p)
                           /\ UNCHANGED <<last, pel, inbox, bridge, con, effects>>)
    /\ \A b \in Bridges :
         /\ WF_deliveryVars((Ingress!Cycle(b) \/ Ingress!ClaimStuck(b))
                             /\ UNCHANGED <<outbox, pub, con, effects>>)
         /\ SF_deliveryVars(Ingress!FindsNothingStuck(b)
                             /\ UNCHANGED <<outbox, pub, con, effects>>)
    /\ \A c \in Consumers :
         WF_deliveryVars(Consuming!ConsumerProgress(c)
                           /\ UNCHANGED <<outbox, pub, stream, last, pel, bridge>>)

FairSpec == Spec /\ Fairness

-----------------------------------------------------------------------------
(* Properties.                                                             *)

\* A foreign event is committed when it is on the stream.
Committed(e) ==
    \/ outbox[e].status # "absent"
    \/ e \in Foreign /\ \E i \in DOMAIN stream : stream[i] = e

\* How far an event came.  A dead-lettered outbox row is still committed: a
\* worker that lost its lease may yet publish it.
Fate(e) ==
    CASE inbox[e].status = "processed"   -> "applied"
      [] inbox[e].status = "dead_letter" -> "given_up"
      [] OTHER -> IF Committed(e) THEN "committed" ELSE "unknown"

Abstract == INSTANCE ExactlyOnceEffect WITH fate <- [e \in Events |-> Fate(e)]

\* The pipeline implements exactly-once effect: duplicates on the stream, lost
\* leases, crashes and lost replies never apply an effect twice, before the
\* commit of the event or after the message was given up.
ImplementsExactlyOnce == Abstract!Spec

\* Nothing in between is lost: a published event is stored in the inbox or its
\* entry is still to be delivered or pending.
PublishedIsInFlight ==
    \A e \in Events :
        outbox[e].status = "published" =>
            \/ inbox[e].status # "absent"
            \/ \E i \in DOMAIN stream :
                 stream[i] = e /\ (i > last \/ i \in DOMAIN pel)

\* An entry of e that the group delivered and no bridge acknowledged.
LeftPending(e) == \E i \in DOMAIN pel : stream[i] = e

\* Every committed event has its effect or is dead-lettered, in the outbox or
\* in the inbox, whatever crashes, fails or overruns; the only way to lose it
\* is an entry that stays in the pending list for ever.
EventuallyDelivered ==
    \A e \in Events \ Foreign :
        outbox[e].status = "pending"
            ~> \/ inbox[e].status \in Terminal
               \/ outbox[e].status = "dead_letter"
               \/ []LeftPending(e)
=============================================================================
