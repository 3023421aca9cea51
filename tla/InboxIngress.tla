----------------------------- MODULE InboxIngress -----------------------------
(***************************************************************************)
(* The bridge from the Redis stream to the inbox table.                    *)
(*                                                                         *)
(*   workers/inbox_ingress.py             one read -> receive -> ack cycle *)
(*   transport/redis_streams.py           XREADGROUP, XAUTOCLAIM, XACK     *)
(*   application/services/inbox.py,                                        *)
(*   repositories/inbox.py (receive)      the deduplicating insert         *)
(*                                                                         *)
(* The consumer group is a cursor into the stream and the pending entries  *)
(* list, which maps the index of a delivered and unacknowledged entry to   *)
(* the time it has been idle.  Redis itself is external: its commands are  *)
(* modelled from how the transport calls them.                             *)
(***************************************************************************)
EXTENDS LeasedRows, Sequences

CONSTANTS
    Events,      \* event ids: source_message_id, unique per source in the inbox
    Malformed,   \* those whose envelope does not validate
    Bridges,     \* ingress bridge processes, consumers of one group
    Count,       \* entries one read or one XAUTOCLAIM may return
    ClaimIdle,   \* REDIS_STREAM_CLAIM_IDLE_SECONDS
    MaxStream,   \* bound: length of the stream
    MaxFaults  \* bound: lost replies, failed inserts and acks, crashes, stops

VARIABLES
    stream,    \* event ids in the order of their XADDs
    last,      \* last-delivered-id of the consumer group
    pel,       \* pending entries list of the group: index -> idle time
    inbox,     \* the rows of inbox_messages
    bridge,    \* the memory of each bridge
    faults   \* faults so far, for the bound only

ingressVars == <<stream, last, pel, inbox, bridge, faults>>

Entries == DOMAIN stream

\* todo: the messages of this cycle that are still to be handled, in order.
Bridge == [pc   : {"idle", "read", "handle", "ack", "drop", "down"},
           todo : Seq(Nat)]

AtRest(pc) == [pc |-> pc, todo |-> <<>>]

\* ensure_group creates the group at id 0: it sees the stream from the start.
Init ==
    /\ stream = <<>>
    /\ last = 0
    /\ pel = [i \in {} |-> 0]
    /\ inbox = [e \in Events |-> Absent]
    /\ bridge = [b \in Bridges |-> AtRest("idle")]
    /\ faults = 0

Fault(n) == faults + n <= MaxFaults /\ faults' = faults + n

\* The publisher appends; it may append the same event more than once.
Arrive(e) ==
    /\ Len(stream) < MaxStream
    /\ stream' = Append(stream, e)
    /\ UNCHANGED <<last, pel, inbox, bridge, faults>>

-----------------------------------------------------------------------------
(* The Redis commands.                                                     *)

Stuck == {i \in DOMAIN pel : pel[i] >= ClaimIdle}

\* XAUTOCLAIM hands over the first Count idle entries; their idle time restarts.
AutoClaimed == {i \in Stuck : Cardinality({j \in Stuck : j < i}) < Count}

\* Mutant of Fresh: the range of new entries starts one too late.
FreshLate == {i \in Entries : i > last + 1 /\ i <= last + Count}

\* XREADGROUP > delivers the entries after the cursor.
Fresh == {i \in Entries : i > last /\ i <= last + Count}

Pending(S) == [i \in DOMAIN pel \cup S |-> IF i \in S THEN 0 ELSE pel[i]]

Acked(i) == [j \in DOMAIN pel \ {i} |-> pel[j]]

-----------------------------------------------------------------------------
(* One cycle: claim_stuck, read_group, then receive and ack per message.   *)

\* _parse_entries reads the XAUTOCLAIM reply, a flat list of (id, fields), as
\* the nested reply of XREADGROUP.  With an entry to unpack it raises: the
\* cycle fails, and the entries are idle for 0 seconds again.
ClaimStuck(b) ==
    /\ bridge[b].pc = "idle"
    /\ pel' = Pending(AutoClaimed)
    /\ bridge' = IF AutoClaimed = {} THEN [bridge EXCEPT ![b].pc = "read"]
                 ELSE bridge
    /\ UNCHANGED <<stream, last, inbox, faults>>

\* BLOCK 0 waits until the socket times out: with nothing new the cycle fails.
ReadNothing(b) ==
    /\ bridge[b].pc = "read"
    /\ Fresh = {}
    /\ bridge' = [bridge EXCEPT ![b] = AtRest("idle")]
    /\ UNCHANGED <<stream, last, pel, inbox, faults>>

\* heard is FALSE when Redis delivers to a connection that has timed out.
ReadGroup(b, heard) ==
    /\ bridge[b].pc = "read"
    /\ Fresh # {}
    /\ last' = last + Cardinality(Fresh)
    /\ pel' = Pending(Fresh)
    /\ bridge' = [bridge EXCEPT ![b] =
          IF heard THEN [pc   |-> "handle",
                         todo |-> [n \in 1..Cardinality(Fresh) |-> last + n]]
          ELSE AtRest("idle")]
    /\ Fault(IF heard THEN 0 ELSE 1)
    /\ UNCHANGED <<stream, inbox>>

Current(b) == Head(bridge[b].todo)

NextMessage(b) ==
    LET rest == Tail(bridge[b].todo)
    IN  bridge' = [bridge EXCEPT ![b] =
            IF rest = <<>> THEN AtRest("idle") ELSE [pc |-> "handle", todo |-> rest]]

\* INSERT ... ON CONFLICT (source, source_message_id) DO NOTHING.
Insert(e) == inbox' = IF inbox[e].status = "absent"
                      THEN [inbox EXCEPT ![e].status = "pending"] ELSE inbox

\* A message that does not parse is going to be acknowledged and dropped.
RejectMalformed(b) ==
    /\ bridge[b].pc = "handle"
    /\ stream[Current(b)] \in Malformed
    /\ bridge' = [bridge EXCEPT ![b].pc = "drop"]
    /\ UNCHANGED <<stream, last, pel, inbox, faults>>

Receive(b) ==
    /\ bridge[b].pc = "handle"
    /\ stream[Current(b)] \notin Malformed
    /\ Insert(stream[Current(b)])
    /\ bridge' = [bridge EXCEPT ![b].pc = "ack"]
    /\ UNCHANGED <<stream, last, pel, faults>>

\* Mutant of ReceiveFails: the entry is acknowledged after a failed insert.
ReceiveFailsAcked(b) ==
    /\ bridge[b].pc = "handle"
    /\ bridge' = [bridge EXCEPT ![b].pc = "ack"]
    /\ Fault(1)
    /\ UNCHANGED <<stream, last, pel, inbox>>

\* The transaction fails, before or after its commit took effect: no ack.
ReceiveFails(b) ==
    /\ bridge[b].pc = "handle"
    /\ stream[Current(b)] \notin Malformed
    /\ Insert(stream[Current(b)]) \/ UNCHANGED inbox
    /\ NextMessage(b)
    /\ Fault(1)
    /\ UNCHANGED <<stream, last, pel>>

Ack(b, works) ==
    /\ bridge[b].pc \in {"ack", "drop"}
    /\ pel' = IF works THEN Acked(Current(b)) ELSE pel
    /\ NextMessage(b)
    /\ Fault(IF works THEN 0 ELSE 1)
    /\ UNCHANGED <<stream, last, inbox>>

-----------------------------------------------------------------------------
(* Process life cycle and time.                                            *)

\* A crash at any point, or a stop that is seen between two messages.
GoDown(b) ==
    /\ bridge[b].pc # "down"
    /\ bridge' = [bridge EXCEPT ![b] = AtRest("down")]
    /\ Fault(1)
    /\ UNCHANGED <<stream, last, pel, inbox>>

Start(b) ==
    /\ bridge[b].pc = "down"
    /\ bridge' = [bridge EXCEPT ![b] = AtRest("idle")]
    /\ UNCHANGED <<stream, last, pel, inbox, faults>>

\* Entries that were not acknowledged grow idle, up to the claim threshold.
AgePending ==
    pel' = [i \in DOMAIN pel |-> IF pel[i] < ClaimIdle THEN pel[i] + 1 ELSE pel[i]]

Tick ==
    /\ AgePending
    /\ UNCHANGED <<stream, last, inbox, bridge, faults>>

-----------------------------------------------------------------------------
Cycle(b) ==
    \/ ReadNothing(b)
    \/ ReadGroup(b, TRUE)
    \/ RejectMalformed(b)
    \/ Receive(b)
    \/ Ack(b, TRUE)
    \/ Start(b)

FindsNothingStuck(b) == AutoClaimed = {} /\ ClaimStuck(b)

Relay(b) ==
    \/ ClaimStuck(b)
    \/ Cycle(b)
    \/ ReadGroup(b, FALSE)
    \/ ReceiveFails(b)
    \/ Ack(b, FALSE)
    \/ GoDown(b)

Next == Tick \/ (\E e \in Events : Arrive(e)) \/ (\E b \in Bridges : Relay(b))

Spec == Init /\ [][Next]_ingressVars

\* run_forever keeps cycling and time passes.  Strong fairness on a claim that
\* finds nothing stuck: the poll interval (1s) is far below the claim idle time
\* (120s), so entries that were just claimed are not idle again at every cycle.
Fairness ==
    /\ WF_ingressVars(Tick)
    /\ \A b \in Bridges : /\ WF_ingressVars(Cycle(b))
                          /\ SF_ingressVars(FindsNothingStuck(b))

FairSpec == Spec /\ Fairness /\ \A b \in Bridges : WF_ingressVars(ClaimStuck(b))

-----------------------------------------------------------------------------
(* Properties.                                                             *)

Stored(e) == inbox[e].status # "absent"

\* The entry reached the inbox, or was dropped because it does not parse.
Relayed(i) == i \in Entries /\ (Stored(stream[i]) \/ stream[i] \in Malformed)

\* What inbox_ingress.py says of a message left in the pending entries list:
\* it `stays in the PEL and is reclaimed/redelivered'.
StuckIsRedelivered == \A i \in 1..MaxStream : i \in DOMAIN pel ~> Relayed(i)
=============================================================================
