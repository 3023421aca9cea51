---------------------- MODULE OperationalPersistenceProofs ----------------------
(***************************************************************************)
(* Theorems about the persistence boundary, for any number of events,      *)
(* facts and producers, with several events of one fact or with none.      *)
(***************************************************************************)
EXTENDS OperationalPersistence, TLAPS

Inserted == {"facts", "commit"}

\* No two open transactions have inserted the same outbox row, nor the same
\* fact, and what they have inserted is not committed yet.
KeysAreHeld ==
    \A p \in Producers :
        /\ txn[p].pc \in Inserted =>
             /\ txn[p].event \notin outbox
             /\ \A q \in Producers \ {p} :
                  txn[q].pc \in Inserted => txn[q].event # txn[p].event
        /\ txn[p].pc = "commit" =>
             /\ FactOf[txn[p].event] \notin facts
             /\ \A q \in Producers \ {p} :
                  txn[q].pc = "commit" => FactOf[txn[q].event] # FactOf[txn[p].event]

Inv == TypeOK /\ AllOrNothing /\ KeysAreHeld

-----------------------------------------------------------------------------
\* Every way a transaction ends leaves a record of an idle session.
LEMMA EndedType ==
    ASSUME NEW result \in {"none", "created", "replayed", "error", "aborted"}
    PROVE  /\ Ended(result) \in Txn
           /\ Ended(result).pc = "idle" /\ Ended(result).event = NoEvent
  BY DEF Ended, Txn

\* Writing well-typed records into txn keeps its part of the type invariant.
LEMMA TxnType ==
    ASSUME TypeOK, NEW p \in Producers, NEW t \in Txn,
           t.pc = "idle" <=> t.event = NoEvent,
           txn' = [txn EXCEPT ![p] = t]
    PROVE  /\ txn' \in [Producers -> Txn]
           /\ \A q \in Producers : txn'[q].pc = "idle" <=> txn'[q].event = NoEvent
           /\ txn'[p] = t /\ \A q \in Producers \ {p} : txn'[q] = txn[q]
  BY DEF TypeOK

\* A transaction that is under way is about an event, and moves on as one.
LEMMA GotoType ==
    ASSUME TypeOK, NEW p \in Producers, txn[p].pc # "idle",
           NEW pc \in {"enqueue", "facts", "commit"}, Goto(p, pc)
    PROVE  /\ txn[p].event \in Events
           /\ txn' \in [Producers -> Txn]
           /\ \A q \in Producers : txn'[q].pc = "idle" <=> txn'[q].event = NoEvent
           /\ txn'[p].pc = pc /\ txn'[p].event = txn[p].event
           /\ \A q \in Producers \ {p} : txn'[q] = txn[q]
  <1>1. txn[p] \in Txn /\ txn[p].event \in Events /\ txn[p].event # NoEvent
    BY PersistenceAssumption DEF TypeOK, Txn
  <1> DEFINE t == [txn[p] EXCEPT !.pc = pc]
  <1>2. t \in Txn /\ t.pc = pc /\ t.event = txn[p].event
    BY <1>1 DEF Txn
  <1>3. txn' = [txn EXCEPT ![p] = t]
    BY DEF Goto
  <1> QED BY <1>1, <1>2, <1>3, TxnType

\* What a step does to the memory of the sessions: one of them begins, moves on
\* with its event, or ends.
LEMMA TxnStep ==
    ASSUME TypeOK, NEW p \in Producers,
           Step(p) \/ Abort(p) \/ (\E e \in Events : Check(p, e))
    PROVE  /\ txn' \in [Producers -> Txn]
           /\ \A q \in Producers : txn'[q].pc = "idle" <=> txn'[q].event = NoEvent
           /\ \A q \in Producers \ {p} : txn'[q] = txn[q]
           /\ txn'[p].pc \in Inserted =>
                /\ txn'[p].event = txn[p].event /\ txn[p].event \in Events
                /\ \/ Enqueue(p) /\ txn'[p].pc = "facts" /\ txn[p].event \notin outbox
                   \/ WriteFacts(p) /\ txn'[p].pc = "commit"
                        /\ FactOf[txn[p].event] \notin facts
           /\ txn'[p].pc \notin Inserted => txn'[p].pc \in {"idle", "enqueue"}
  <1> USE DEF Inserted
  <1>1. ASSUME NEW r \in {"none", "created", "replayed", "error", "aborted"}, Return(p, r)
        PROVE  /\ txn' \in [Producers -> Txn]
               /\ \A q \in Producers : txn'[q].pc = "idle" <=> txn'[q].event = NoEvent
               /\ \A q \in Producers \ {p} : txn'[q] = txn[q]
               /\ txn'[p].pc = "idle"
    BY <1>1, EndedType, TxnType DEF Return
  <1>2. ASSUME NEW c, Conflict(p, c)
        PROVE  Return(p, "replayed") \/ Return(p, "error")
    BY <1>2 DEF Conflict
  <1>3. CASE Enqueue(p)
    <2>1. CASE txn[p].event \in outbox
      BY <1>1, <1>2, <1>3, <2>1 DEF Enqueue
    <2>2. CASE txn[p].event \notin outbox
      BY <1>3, <2>2, GotoType DEF Enqueue
    <2> QED BY <2>1, <2>2
  <1>4. CASE WriteFacts(p)
    <2>1. CASE txn[p].event \in events \/ FactOf[txn[p].event] \in facts
      <3>1. Conflict(p, "operational_events_pkey") \/ Conflict(p, "temporal_facts_pkey")
        BY <1>4, <2>1 DEF WriteFacts
      <3> QED BY <1>1, <1>2, <3>1
    <2>2. CASE txn[p].event \notin events /\ FactOf[txn[p].event] \notin facts
      <3>1. Goto(p, "commit") /\ txn[p].pc # "idle"
        BY <1>4, <2>2 DEF WriteFacts
      <3> QED BY <1>4, <2>2, <3>1, GotoType
    <2> QED BY <2>1, <2>2
  <1>5. CASE Commit(p)
    BY <1>1, <1>5 DEF Commit
  <1>6. CASE Abort(p)
    BY <1>1, <1>6 DEF Abort
  <1>7. ASSUME NEW e \in Events, Check(p, e)
        PROVE  /\ txn' \in [Producers -> Txn]
               /\ \A q \in Producers : txn'[q].pc = "idle" <=> txn'[q].event = NoEvent
               /\ \A q \in Producers \ {p} : txn'[q] = txn[q]
               /\ txn'[p].pc \in {"idle", "enqueue"}
    <2> DEFINE t == IF e \in outbox THEN Ended("replayed")
                    ELSE [pc |-> "enqueue", event |-> e, result |-> "none"]
    <2>1. t \in Txn /\ (t.pc = "idle" <=> t.event = NoEvent) /\ t.pc \in {"idle", "enqueue"}
      BY EndedType, PersistenceAssumption DEF Txn
    <2>2. txn' = [txn EXCEPT ![p] = t]
      BY <1>7 DEF Check
    <2> HIDE DEF t
    <2> QED BY <2>1, <2>2, TxnType
  <1> QED BY <1>3, <1>4, <1>5, <1>6, <1>7 DEF Step

\* Only a commit changes the tables.
LEMMA TablesStay ==
    ASSUME NEW p \in Producers,
           Step(p) \/ Abort(p) \/ (\E e \in Events : Check(p, e))
    PROVE  Commit(p) \/ UNCHANGED <<facts, events, audits, outbox>>
  BY DEF Step, Enqueue, WriteFacts, Abort, Check

-----------------------------------------------------------------------------
\* Initially nothing is committed and nobody persists.
LEMMA InitInv == Init => Inv
  <1> SUFFICES ASSUME Init PROVE Inv
    OBVIOUS
  <1>1. Ended("none") \in Txn /\ Ended("none").pc = "idle" /\ Ended("none").event = NoEvent
    BY EndedType
  <1>2. TypeOK
    BY <1>1 DEF Init, TypeOK
  <1>3. AllOrNothing
    BY DEF Init, AllOrNothing
  <1>4. KeysAreHeld
    BY <1>1 DEF Init, KeysAreHeld, Inserted
  <1> QED BY <1>2, <1>3, <1>4 DEF Inv

\* A step of a session keeps the keys apart: it takes a key that nobody holds,
\* or commits its own.
LEMMA KeysStayHeld ==
    ASSUME Inv, NEW p \in Producers,
           Step(p) \/ Abort(p) \/ (\E e \in Events : Check(p, e))
    PROVE  KeysAreHeld'
  <1> USE DEF Inv
  <1>1. CASE Commit(p)
    <2>1. txn'[p].pc = "idle"
      BY <1>1, EndedType DEF Commit, Return, TypeOK
    <2>2. \A q \in Producers \ {p} : txn'[q] = txn[q]
      BY TxnStep
    <2>3. outbox' = outbox \cup {txn[p].event} /\ facts' = facts \cup {FactOf[txn[p].event]}
      BY <1>1 DEF Commit
    <2> QED BY <1>1, <2>1, <2>2, <2>3 DEF KeysAreHeld, Inserted, Commit
  <1>2. CASE ~Commit(p)
    <2>1. UNCHANGED <<facts, events, audits, outbox>>
      BY <1>2, TablesStay
    <2>2. \A q \in Producers \ {p} : txn'[q] = txn[q]
      BY TxnStep
    <2>3. CASE txn'[p].pc \notin Inserted
      BY <2>1, <2>2, <2>3 DEF KeysAreHeld, Inserted
    <2>4. CASE txn'[p].pc \in Inserted
      <3>1. /\ txn'[p].event = txn[p].event
            /\ \/ Enqueue(p) /\ txn'[p].pc = "facts" /\ txn[p].event \notin outbox
               \/ WriteFacts(p) /\ txn'[p].pc = "commit"
                    /\ FactOf[txn[p].event] \notin facts
        BY <2>4, TxnStep
      <3>2. CASE Enqueue(p) /\ txn'[p].pc = "facts" /\ txn[p].event \notin outbox
        <4>1. \A q \in Producers \ {p} :
                txn[q].pc \in Inserted => txn[q].event # txn[p].event
          BY <3>2 DEF Enqueue, OthersEvents, Inserted
        <4> QED BY <2>1, <2>2, <3>1, <3>2, <4>1 DEF KeysAreHeld, Inserted
      <3>3. CASE /\ WriteFacts(p) /\ txn'[p].pc = "commit"
                 /\ FactOf[txn[p].event] \notin facts
        <4>1. \A q \in Producers \ {p} :
                txn[q].pc = "commit" => FactOf[txn[q].event] # FactOf[txn[p].event]
          BY <3>3 DEF WriteFacts, OthersFacts
        <4>2. txn[p].pc = "facts"
          BY <3>3 DEF WriteFacts
        <4> QED BY <2>1, <2>2, <3>1, <3>3, <4>1, <4>2 DEF KeysAreHeld, Inserted
      <3> QED BY <3>1, <3>2, <3>3
    <2> QED BY <2>3, <2>4
  <1> QED BY <1>1, <1>2

\* The commit of a transaction writes all rows of an event that had none.
LEMMA CommitIsWhole ==
    ASSUME Inv, NEW p \in Producers, Commit(p)
    PROVE  /\ AllOrNothing'
           /\ facts' \subseteq Facts /\ events' \subseteq Events /\ outbox' \subseteq Events
           /\ audits' \in [Events -> Nat]
  <1> DEFINE e == txn[p].event
  <1>1. e \in Events /\ e \notin outbox /\ FactOf[e] \in Facts
    BY PersistenceAssumption DEF Inv, TypeOK, Txn, KeysAreHeld, Inserted, Commit
  <1>2. /\ facts' = facts \cup {FactOf[e]} /\ events' = events \cup {e}
        /\ outbox' = outbox \cup {e} /\ audits' = [audits EXCEPT ![e] = @ + 1]
    BY DEF Commit
  <1> HIDE DEF e
  <1>3. facts' = {FactOf[d] : d \in outbox'}
    BY <1>2 DEF Inv, AllOrNothing
  <1>4. \A d \in Events : audits'[d] = IF d \in outbox' THEN 1 ELSE 0
    BY <1>1, <1>2 DEF Inv, AllOrNothing, TypeOK
  <1>5. audits' \in [Events -> Nat]
    BY <1>1, <1>2 DEF Inv, TypeOK
  <1> QED BY <1>1, <1>2, <1>3, <1>4, <1>5 DEF Inv, AllOrNothing, TypeOK

\* Every step keeps the invariant.
LEMMA NextInv == Inv /\ [Next]_persistVars => Inv'
  <1> SUFFICES ASSUME Inv, [Next]_persistVars PROVE Inv'
    OBVIOUS
  <1>1. ASSUME NEW p \in Producers,
               Step(p) \/ Abort(p) \/ (\E e \in Events : Check(p, e))
        PROVE  Inv'
    <2>1. KeysAreHeld'
      BY <1>1, KeysStayHeld
    <2>2. /\ AllOrNothing'
          /\ facts' \subseteq Facts /\ events' \subseteq Events /\ outbox' \subseteq Events
          /\ audits' \in [Events -> Nat]
      <3>1. CASE Commit(p)
        BY <3>1, CommitIsWhole
      <3>2. CASE ~Commit(p)
        <4>1. UNCHANGED <<facts, events, audits, outbox>>
          BY <1>1, <3>2, TablesStay
        <4> QED BY <4>1 DEF Inv, AllOrNothing, TypeOK
      <3> QED BY <3>1, <3>2
    <2>3. aborts' \in Nat
      BY <1>1 DEF Inv, TypeOK, Step, Enqueue, WriteFacts, Commit, Abort, Check
    <2>4. /\ txn' \in [Producers -> Txn]
          /\ \A q \in Producers : txn'[q].pc = "idle" <=> txn'[q].event = NoEvent
      BY <1>1, TxnStep DEF Inv
    <2> QED BY <2>1, <2>2, <2>3, <2>4 DEF Inv, TypeOK
  <1>2. CASE UNCHANGED persistVars
    BY <1>2 DEF Inv, TypeOK, AllOrNothing, KeysAreHeld, persistVars
  <1> QED BY <1>1, <1>2 DEF Next

\* Sessions, tables and counters keep their types through every race.
THEOREM TypeCorrect == Spec => []TypeOK
  <1>1. Inv => TypeOK
    BY DEF Inv
  <1> QED BY InitInv, NextInv, <1>1, PTL DEF Spec

\* Fact, event, audit and outbox row exist together, each once, or not at all,
\* however many producers persist, race for a key and abort.
THEOREM RowsStandTogether == Spec => []AllOrNothing
  <1>1. Inv => AllOrNothing
    BY DEF Inv
  <1> QED BY InitInv, NextInv, <1>1, PTL DEF Spec

\* Two transactions never commit the same key: no COMMIT fails on a duplicate.
THEOREM CommitsNeverCollide == Spec => []KeysAreHeld
  <1>1. Inv => KeysAreHeld
    BY DEF Inv
  <1> QED BY InitInv, NextInv, <1>1, PTL DEF Spec
=============================================================================
