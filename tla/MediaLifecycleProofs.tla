------------------------- MODULE MediaLifecycleProofs -------------------------
(***************************************************************************)
(* Theorems about media records and their bytes, for any number of media,  *)
(* requests, workers, keys, holds and crashes: one media per idempotency   *)
(* key, states that follow the lifecycle and are true of the bytes, and    *)
(* bytes that are erased only where nobody relies on them.                 *)
(*                                                                         *)
(* Storage is called outside of transactions, so what an actor has seen    *)
(* there may be old when it commits.  Two things make up for it: the row   *)
(* that a request holds does not change its state under it, and no bytes   *)
(* appear any more under a key whose upload was completed.                 *)
(***************************************************************************)
EXTENDS MediaLifecycle, TLAPS

Lifecycle ==
    {<<"none", "uploading">>, <<"uploading", "uploaded">>,
     <<"uploaded", "available">>, <<"available", "deletion_pending">>}
    \cup ({"uploading", "uploaded", "available"} \X {"failed"})
    \cup ((States \ {"none", "deleted"}) \X {"deleted"})

\* What a step does to a media: it follows the lifecycle, fails and deletes only
\* without bytes, brings bytes only while they are uploaded, and calls nothing
\* available that is not good.
Lawful(m) ==
    LET was == State(m)
        is == media'[m].state
    IN /\ is # was => <<was, is>> \in Lifecycle
       /\ is # was /\ was \in Completed /\ is \in {"failed", "deleted"} => bytes'[m] = "none"
       /\ bytes'[m] # bytes[m] =>
            \/ bytes'[m] = "none"
            \/ is = was /\ was \in {"uploading", "failed", "deleted"}
       /\ is = "available" => bytes'[m] # "bad"

\* The row that a request has keeps its state.
Respects(q) == \A m \in Media : HoldsRow(q, m) => media'[m].state = State(m)

Steps == {"abort", "verify", "delete"}

\* Where a request is, and what it knows of its media: one that has the row finds
\* the state it compared until it is through, and the bytes as it has seen or
\* left them.
Requested(r) ==
    LET t == txn[r]
        m == t.media
    IN /\ t.pc \in {"claim", "register"} => t.op = "initiate" /\ t.key \in Keys
       /\ t.pc = "head" => t.op = "complete"
       /\ t.pc \in {"mark", "storage"} => t.op \in Steps
       /\ t.pc = "finish" => t.op \in Steps \cup {"complete"}
       /\ t.pc \in {"head", "mark", "storage", "finish"} => m \in Media /\ State(m) # "none"
       /\ t.pc = "mark" => /\ t.op = "abort" => t.seen = "uploading"
                           /\ t.op = "verify" => t.seen = "uploaded"
                           /\ t.op = "delete" => t.seen \notin {"none", "deleted", "deletion_pending"}
       /\ t.pc \in {"storage", "finish"} =>
            /\ t.op = "abort" => State(m) = "uploading" /\ t.seen = "none"
            /\ t.op = "verify" => State(m) = "uploaded" /\ t.seen = "none"
            /\ t.op = "delete" =>
                 \/ t.seen = "none" /\ State(m) # "deleted"
                 \/ t.seen = "deletion_pending" /\ State(m) \in {"deletion_pending", "deleted"}
       /\ t.pc = "finish" =>
            /\ t.op = "verify" => bytes[m] # "bad"
            /\ t.op = "delete" /\ State(m) \in Completed => bytes[m] = "none"

Over == Completed \cup {"failed", "deleted"}

\* What the worker knows of a record it listed as s, in the sweeps that are about
\* records whose upload was completed.
Known(m, s) ==
    /\ s \in Reconcilable /\ State(m) \in Over
    /\ s = "deletion_pending" => State(m) \in {"deletion_pending", "deleted"}

\* Where a worker is, and what it knows: a record that it is about to delete is
\* marked, and one that it found without bytes, or left so, has none.
Cleaning(w) ==
    LET c == worker[w]
        m == c.item[1]
    IN /\ c.step # "next" => c.sweep # 0 /\ c.item \in Items
       /\ c.sweep = 1 => \A i \in c.todo : i[2] \in {"available", "deletion_pending"}
       /\ c.sweep \in {1, 3} => \A i \in c.todo : Known(i[1], i[2])
       /\ c.step # "next" /\ c.sweep = 1 => State(m) \in {"deletion_pending", "deleted"}
       /\ c.step # "next" /\ c.sweep = 3 => Known(m, c.item[2])
       /\ c.step = "finish" =>
            /\ c.sweep \in {1, 2, 3}
            /\ c.sweep \in {1, 3} /\ State(m) \in Completed => bytes[m] = "none"

KeysAreKept == \A m \in Media : State(m) # "none" => media[m].key \in Keys

Types ==
    /\ media \in [Media -> Record]
    /\ bytes \in [Media -> Contents]
    /\ claims \in [Keys -> Media \cup {None}]
    /\ txn \in [Requests -> Txn]
    /\ worker \in [Workers -> Cycle]
    /\ crashes \in 0 .. MaxCrashes

InOrder ==
    /\ order \subseteq Registered \X Registered
    /\ \A m, n \in Registered :
         /\ m # n => (<<m, n>> \in order <=> <<n, m>> \notin order)
         /\ <<m, m>> \notin order

AtRest ==
    /\ \A r \in Requests : txn[r].pc = "idle" => txn[r] = Idle
    /\ \A w \in Workers : worker[w].sweep = 0 => worker[w] = Resting

MediaInv ==
    /\ Types /\ InOrder /\ AtRest
    /\ \A r \in Requests : Requested(r)
    /\ \A w \in Workers : Cleaning(w)
    /\ KeysAreKept /\ OneMediaPerKey
    /\ AvailableWasVerified
-----------------------------------------------------------------------------
(* Records.                                                                *)

LEMMA MediaNumbers ==
    /\ MaxCrashes \in Nat /\ Held \subseteq Media /\ Temporary \subseteq Media
    /\ None \notin Media /\ None \notin Keys
    /\ BatchSize \in Nat \ {0}
  BY MediaAssumption DEF MediaAssumption

LEMMA TypesAre == ASSUME MediaInv PROVE MediaTypeOK
  BY DEF MediaInv, Types, InOrder, AtRest, MediaTypeOK

\* The record that is touched is the youngest.
LEMMA TouchedIs ==
    ASSUME InOrder, NEW m \in Media, order' = Touched(m),
           Registered' = Registered \cup {m}
    PROVE  InOrder'
  <1>1. \A p : p \in order' <=> \/ p \in order /\ p[1] # m
                                \/ p \in (Registered \ {m}) \X {m}
    BY DEF Touched
  <1>2. \A a, b : <<a, b>> \in order' <=> \/ <<a, b>> \in order /\ a # m
                                          \/ a \in Registered \ {m} /\ b = m
    BY <1>1
  <1>3. order' \subseteq Registered' \X Registered'
    <2> SUFFICES ASSUME NEW p \in order' PROVE p \in Registered' \X Registered'
      OBVIOUS
    <2> QED BY <1>1 DEF InOrder
  <1>4. ASSUME NEW x \in Registered', NEW y \in Registered'
        PROVE  /\ x # y => (<<x, y>> \in order' <=> <<y, x>> \notin order')
               /\ <<x, x>> \notin order'
    <2>1. /\ x = m \/ x \in Registered
          /\ y = m \/ y \in Registered
      OBVIOUS
    <2>2. ASSUME NEW z, <<z, m>> \in order \/ <<m, z>> \in order PROVE m \in Registered
      BY <2>2 DEF InOrder
    <2> QED BY <1>2, <2>1 DEF InOrder
  <1> QED BY <1>3, <1>4 DEF InOrder

LEMMA RegisteredStays ==
    ASSUME \A n \in Media : media'[n].state = "none" <=> State(n) = "none"
    PROVE  Registered' = Registered
  BY DEF Registered, State

\* A committed transition.
LEMMA BecomesIs ==
    ASSUME MediaInv, NEW m \in Media, NEW s \in States, s # "none", State(m) # "none",
           Becomes(m, s)
    PROVE  /\ media' \in [Media -> Record] /\ InOrder'
           /\ media'[m].state = s
           /\ \A n \in Media : /\ media'[n].key = media[n].key
                               /\ n # m => media'[n] = media[n]
           /\ \A n \in Media : media'[n].state = "none" <=> State(n) = "none"
  <1>1. media \in [Media -> Record] /\ InOrder
    BY DEF MediaInv, Types
  <1>2. media' = [media EXCEPT ![m].state = s, ![m].settled = FALSE,
                               ![m].expired = @ /\ s \in {"available", "deletion_pending"}]
        /\ order' = Touched(m)
    BY DEF Becomes
  <1> DEFINE e == media[m].expired /\ s \in {"available", "deletion_pending"}
             x == [media[m] EXCEPT !.state = s, !.settled = FALSE, !.expired = e]
  <1>3. media' = [media EXCEPT ![m] = x]
    BY <1>1, <1>2
  <1>4. e \in BOOLEAN /\ media[m] \in Record
    BY <1>1
  <1> HIDE DEF e
  <1>5. x \in Record /\ x.state = s /\ x.key = media[m].key
    BY <1>4 DEF Record
  <1> HIDE DEF x
  <1>6. /\ media' \in [Media -> Record] /\ media'[m] = x
        /\ \A n \in Media : n # m => media'[n] = media[n]
    BY <1>1, <1>3, <1>5
  <1>7. \A n \in Media : media'[n].state = "none" <=> State(n) = "none"
    BY <1>5, <1>6 DEF State
  <1>8. InOrder'
    <2>1. Registered' = Registered \cup {m}
      BY <1>7, RegisteredStays DEF Registered
    <2> QED BY <1>1, <1>2, <2>1, TouchedIs
  <1> QED BY <1>5, <1>6, <1>7, <1>8

LEMMA GotoIs ==
    ASSUME Types, NEW r \in Requests,
           NEW pc \in {"register", "finish"}, Goto(r, pc)
    PROVE  /\ txn' \in [Requests -> Txn] /\ txn'[r].pc = pc
           /\ txn'[r].op = txn[r].op /\ txn'[r].media = txn[r].media
           /\ txn'[r].key = txn[r].key /\ txn'[r].seen = txn[r].seen
           /\ \A q \in Requests \ {r} : txn'[q] = txn[q]
  BY DEF Types, Goto, Txn

LEMMA IdleIs ==
    /\ Idle \in Txn /\ Idle.pc = "idle" /\ Idle.op = "none" /\ Idle.media = None
    /\ Idle.key = None /\ Idle.seen = "none"
  BY DEF Idle, Txn, Ops, States

LEMMA EndIs ==
    ASSUME Types, NEW r \in Requests, End(r)
    PROVE  /\ txn' \in [Requests -> Txn] /\ txn'[r] = Idle
           /\ \A q \in Requests \ {r} : txn'[q] = txn[q]
  BY IdleIs DEF Types, End

-----------------------------------------------------------------------------
(* What the others know stays true.                                        *)

LEMMA OthersRequested ==
    ASSUME MediaInv, NEW q \in Requests, txn'[q] = txn[q], Respects(q),
           \A m \in Media : Lawful(m)
    PROVE  Requested(q)'
  <1> DEFINE t == txn[q]
             m == t.media
  <1>1. Requested(q) /\ t \in Txn
    BY DEF MediaInv, Types
  <1>2. CASE t.pc \notin {"head", "mark", "storage", "finish"}
    BY <1>1, <1>2 DEF Requested
  <1>3. CASE t.pc \in {"head", "mark", "storage", "finish"}
    <2>1. m \in Media /\ State(m) # "none"
      BY <1>1, <1>3 DEF Requested
    <2>2. media'[m].state # "none"
      BY <2>1 DEF Lawful, Lifecycle
    <2>3. CASE t.pc \in {"head", "mark"}
      BY <1>1, <2>1, <2>2, <2>3 DEF Requested, State
    <2>4. CASE t.pc \in {"storage", "finish"} /\ HoldsRow(q, m)
      <3>1. media'[m].state = State(m)
        BY <2>1, <2>4 DEF Respects
      <3>2. bytes'[m] = bytes[m] \/ bytes'[m] = "none" \/ State(m) \in {"uploading", "failed", "deleted"}
        BY <2>1 DEF Lawful
      <3> QED BY <1>1, <2>1, <2>2, <2>4, <3>1, <3>2 DEF Requested, State, Completed
    <2>5. CASE t.pc \in {"storage", "finish"} /\ ~HoldsRow(q, m)
      <3>1. t.op = "complete" \/ (t.op = "delete" /\ t.seen = "deletion_pending")
        BY <1>1, <2>5 DEF Requested, HoldsRow, Steps
      <3>2. CASE t.op = "complete"
        BY <1>1, <2>1, <2>2, <2>5, <3>2 DEF Requested, State, Steps
      <3>3. CASE t.op = "delete" /\ t.seen = "deletion_pending"
        <4>1. State(m) \in {"deletion_pending", "deleted"}
          BY <1>1, <2>5, <3>3 DEF Requested
        <4>2. /\ media'[m].state \in {"deletion_pending", "deleted"}
              /\ media'[m].state = "deletion_pending" => State(m) = "deletion_pending"
          BY <2>1, <4>1 DEF Lawful, Lifecycle
        <4>3. State(m) = "deletion_pending" => bytes'[m] = bytes[m] \/ bytes'[m] = "none"
          BY <2>1 DEF Lawful
        <4> QED BY <1>1, <2>1, <2>2, <2>5, <3>3, <4>1, <4>2, <4>3
                DEF Requested, State, Completed
      <3> QED BY <3>1, <3>2, <3>3
    <2> QED BY <1>3, <2>3, <2>4, <2>5
  <1> QED BY <1>2, <1>3

LEMMA KnownStays ==
    ASSUME NEW m \in Media, NEW s, Known(m, s), Lawful(m)
    PROVE  /\ Known(m, s)'
           /\ media'[m].state \in Completed => State(m) \in Completed
           /\ media'[m].state \in Completed /\ bytes[m] = "none" => bytes'[m] = "none"
  <1>1. State(m) \in Completed \cup {"failed", "deleted"}
    BY DEF Known, Over
  <1>2. /\ media'[m].state \in Completed \cup {"failed", "deleted"}
        /\ State(m) = "deletion_pending" => media'[m].state \in {"deletion_pending", "deleted"}
        /\ State(m) = "deleted" => media'[m].state = "deleted"
        /\ State(m) \in {"failed", "deleted"} => media'[m].state \in {"failed", "deleted"}
    BY <1>1 DEF Lawful, Lifecycle, Completed
  <1>3. media'[m].state \in Completed => State(m) \in Completed
    BY <1>1, <1>2 DEF Completed
  <1> QED BY <1>1, <1>2, <1>3 DEF Known, Over, State, Lawful, Completed

LEMMA OthersCleaning ==
    ASSUME MediaInv, NEW w \in Workers, worker'[w] = worker[w],
           \A m \in Media : Lawful(m)
    PROVE  Cleaning(w)'
  <1> DEFINE c == worker[w]
             m == c.item[1]
  <1>1. Cleaning(w) /\ c \in Cycle
    BY DEF MediaInv, Types
  <1>2. \A i \in c.todo : i[1] \in Media
    BY <1>1 DEF Cycle, Items
  <1>3. c.step # "next" => m \in Media
    BY <1>1 DEF Cleaning, Cycle, Items
  <1>4. c.sweep \in {1, 3} => \A i \in c.todo : Known(i[1], i[2])'
    <2> SUFFICES ASSUME c.sweep \in {1, 3}, NEW i \in c.todo PROVE Known(i[1], i[2])'
      OBVIOUS
    <2>1. i[1] \in Media /\ Known(i[1], i[2]) /\ Lawful(i[1])
      BY <1>1, <1>2 DEF Cleaning
    <2> QED BY <2>1, KnownStays
  <1>5. c.step # "next" /\ c.sweep = 3 => Known(m, c.item[2])'
    <2> SUFFICES ASSUME c.step # "next", c.sweep = 3 PROVE Known(m, c.item[2])'
      OBVIOUS
    <2>1. m \in Media /\ Known(m, c.item[2]) /\ Lawful(m)
      BY <1>1, <1>3 DEF Cleaning
    <2> QED BY <2>1, KnownStays
  <1>6. c.step # "next" /\ c.sweep = 1 => media'[m].state \in {"deletion_pending", "deleted"}
    <2> SUFFICES ASSUME c.step # "next", c.sweep = 1
                 PROVE  media'[m].state \in {"deletion_pending", "deleted"}
      OBVIOUS
    <2>1. m \in Media /\ State(m) \in {"deletion_pending", "deleted"} /\ Lawful(m)
      BY <1>1, <1>3 DEF Cleaning
    <2> QED BY <2>1 DEF Lawful, Lifecycle
  <1>7. c.step = "finish" /\ c.sweep \in {1, 3} /\ media'[m].state \in Completed
          => bytes'[m] = "none"
    <2> SUFFICES ASSUME c.step = "finish", c.sweep \in {1, 3}, media'[m].state \in Completed
                 PROVE  bytes'[m] = "none"
      OBVIOUS
    <2>1. /\ m \in Media /\ Lawful(m)
          /\ State(m) \in Over
          /\ State(m) \in Completed => bytes[m] = "none"
      BY <1>1, <1>3 DEF Cleaning, Known, Over, Completed
    <2>2. State(m) \in Completed
      BY <2>1 DEF Lawful, Lifecycle, Over, Completed
    <2> QED BY <2>1, <2>2 DEF Lawful, Completed
  <1>8. c.step = "finish" => c.sweep \in {1, 2, 3}
    BY <1>1 DEF Cleaning
  <1> HIDE DEF c, m
  <1>9. worker'[w] = c
    BY DEF c
  <1> QED BY <1>1, <1>4, <1>5, <1>6, <1>7, <1>8, <1>9 DEF Cleaning, State, c, m

\* Keys, as long as no request is granted one.
LEMMA KeysStay ==
    ASSUME MediaInv, claims' = claims,
           \A m \in Media : /\ media'[m].key = media[m].key
                            /\ media'[m].state = "none" <=> State(m) = "none",
           \A r \in Requests : txn'[r] = txn[r] \/ txn'[r].pc # "register"
    PROVE  KeysAreKept' /\ OneMediaPerKey'
  <1>1. KeysAreKept /\ OneMediaPerKey
    BY DEF MediaInv
  <1>2. KeysAreKept' /\ \A m \in Media : State(m)' # "none" => claims'[media'[m].key] = m
    BY <1>1 DEF KeysAreKept, OneMediaPerKey, State
  <1>3. ASSUME NEW r \in Requests, At(r, "initiate", "register")'
        PROVE  txn'[r] = txn[r] /\ At(r, "initiate", "register")
    BY <1>3 DEF At
  <1>4. ASSUME NEW r \in Requests, At(r, "initiate", "register")'
        PROVE  /\ claims'[txn'[r].key] = None
               /\ \A q \in Requests \ {r} : At(q, "initiate", "register")' =>
                                              txn'[q].key # txn'[r].key
    <2>1. txn'[r] = txn[r] /\ At(r, "initiate", "register")
      BY <1>3, <1>4
    <2>2. claims[txn[r].key] = None
      BY <1>1, <2>1 DEF OneMediaPerKey
    <2>3. ASSUME NEW q \in Requests \ {r}, At(q, "initiate", "register")'
          PROVE  txn'[q].key # txn'[r].key
      <3>1. txn'[q] = txn[q] /\ At(q, "initiate", "register")
        BY <1>3, <2>3
      <3> QED BY <1>1, <2>1, <3>1 DEF OneMediaPerKey
    <2> QED BY <2>1, <2>2, <2>3
  <1> QED BY <1>2, <1>4 DEF OneMediaPerKey

LEMMA GoodStays ==
    ASSUME \A m \in Media : Lawful(m)
    PROVE  AvailableWasVerified'
  BY DEF Lawful, AvailableWasVerified, State

\* A step of a request that is granted no key.
LEMMA RequestKeeps ==
    ASSUME MediaInv, NEW r \in Requests,
           txn' \in [Requests -> Txn], \A q \in Requests \ {r} : txn'[q] = txn[q],
           txn'[r].pc # "register", txn'[r].pc = "idle" => txn'[r] = Idle,
           Requested(r)',
           media' \in [Media -> Record], bytes' \in [Media -> Contents], InOrder',
           \A m \in Media : /\ media'[m].key = media[m].key
                            /\ media'[m].state = "none" <=> State(m) = "none",
           \A m \in Media : Lawful(m),
           \A q \in Requests \ {r} : Respects(q),
           UNCHANGED <<claims, worker, crashes>>
    PROVE  MediaInv'
  <1>1. Types'
    BY DEF MediaInv, Types
  <1>2. AtRest'
    BY DEF MediaInv, AtRest
  <1>3. \A q \in Requests : Requested(q)'
    BY OthersRequested
  <1>4. \A w \in Workers : Cleaning(w)'
    BY OthersCleaning
  <1>5. KeysAreKept' /\ OneMediaPerKey'
    BY KeysStay
  <1>6. AvailableWasVerified'
    BY GoodStays
  <1> QED BY <1>1, <1>2, <1>3, <1>4, <1>5, <1>6 DEF MediaInv

\* A step of a worker.
LEMMA WorkerKeeps ==
    ASSUME MediaInv, NEW w \in Workers,
           worker' \in [Workers -> Cycle], \A v \in Workers \ {w} : worker'[v] = worker[v],
           worker'[w].sweep = 0 => worker'[w] = Resting,
           Cleaning(w)',
           media' \in [Media -> Record], bytes' \in [Media -> Contents], InOrder',
           \A m \in Media : /\ media'[m].key = media[m].key
                            /\ media'[m].state = "none" <=> State(m) = "none",
           \A m \in Media : Lawful(m),
           \A q \in Requests : Respects(q),
           UNCHANGED <<claims, txn>>, crashes' \in 0 .. MaxCrashes
    PROVE  MediaInv'
  <1>1. Types'
    BY DEF MediaInv, Types
  <1>2. AtRest'
    BY DEF MediaInv, AtRest
  <1>3. \A q \in Requests : Requested(q)'
    BY OthersRequested
  <1>4. \A v \in Workers : Cleaning(v)'
    BY OthersCleaning
  <1>5. KeysAreKept' /\ OneMediaPerKey'
    BY KeysStay
  <1>6. AvailableWasVerified'
    BY GoodStays
  <1> QED BY <1>1, <1>2, <1>3, <1>4, <1>5, <1>6 DEF MediaInv

\* What holds of a step that changes neither records nor bytes.
LEMMA NothingMoves ==
    ASSUME MediaInv, UNCHANGED <<media, order, bytes>>
    PROVE  /\ media' \in [Media -> Record] /\ bytes' \in [Media -> Contents] /\ InOrder'
           /\ \A m \in Media : /\ media'[m].key = media[m].key
                               /\ media'[m].state = "none" <=> State(m) = "none"
           /\ \A m \in Media : Lawful(m)
           /\ \A q \in Requests : Respects(q)
  <1>1. \A m \in Media : Lawful(m)
    BY DEF MediaInv, AvailableWasVerified, Lawful, State
  <1>2. InOrder'
    BY DEF MediaInv, InOrder, Registered, State
  <1> QED BY <1>1, <1>2 DEF MediaInv, Types, State, Respects

\* What holds when only bytes change, of one media, and as they may.
LEMMA BytesMove ==
    ASSUME MediaInv, UNCHANGED <<media, order>>, NEW m \in Media, NEW b \in Contents,
           bytes' = [bytes EXCEPT ![m] = b],
           b \in {"none", bytes[m]} \/ State(m) \in {"uploading", "failed", "deleted"}
    PROVE  /\ media' \in [Media -> Record] /\ bytes' \in [Media -> Contents] /\ InOrder'
           /\ bytes'[m] = b
           /\ \A n \in Media : /\ media'[n].key = media[n].key
                               /\ media'[n].state = "none" <=> State(n) = "none"
           /\ \A n \in Media : Lawful(n)
           /\ \A q \in Requests : Respects(q)
  <1>1. /\ bytes' \in [Media -> Contents] /\ bytes'[m] = b
        /\ \A n \in Media : n # m => bytes'[n] = bytes[n]
    BY DEF MediaInv, Types
  <1>2. \A n \in Media : Lawful(n)
    <2> SUFFICES ASSUME NEW n \in Media PROVE Lawful(n)
      OBVIOUS
    <2>1. State(n) = "available" => bytes[n] # "bad"
      BY DEF MediaInv, AvailableWasVerified
    <2> QED BY <1>1, <2>1 DEF Lawful, State
  <1>3. InOrder'
    BY DEF MediaInv, InOrder, Registered, State
  <1> QED BY <1>1, <1>2, <1>3 DEF MediaInv, Types, State, Respects

\* What holds when one record changes its state, without its bytes.
LEMMA StateMoves ==
    ASSUME MediaInv, UNCHANGED bytes, NEW m \in Media, NEW s \in States, s # "none",
           State(m) # "none", Becomes(m, s),
           <<State(m), s>> \in Lifecycle,
           State(m) \in Completed /\ s \in {"failed", "deleted"} => bytes[m] = "none",
           s = "available" => bytes[m] # "bad"
    PROVE  /\ media' \in [Media -> Record] /\ bytes' \in [Media -> Contents] /\ InOrder'
           /\ media'[m].state = s
           /\ \A n \in Media : /\ media'[n].key = media[n].key
                               /\ media'[n].state = "none" <=> State(n) = "none"
           /\ \A n \in Media : n # m => media'[n] = media[n]
           /\ \A n \in Media : Lawful(n)
           /\ \A q \in Requests : ~HoldsRow(q, m) => Respects(q)
  <1>1. /\ media' \in [Media -> Record] /\ InOrder'
        /\ media'[m].state = s
        /\ \A n \in Media : /\ media'[n].key = media[n].key
                            /\ n # m => media'[n] = media[n]
        /\ \A n \in Media : media'[n].state = "none" <=> State(n) = "none"
    BY BecomesIs
  <1>2. \A n \in Media : Lawful(n)
    <2> SUFFICES ASSUME NEW n \in Media PROVE Lawful(n)
      OBVIOUS
    <2>1. CASE n = m
      BY <1>1, <2>1 DEF Lawful
    <2>2. CASE n # m
      <3>1. media'[n].state = State(n) /\ (State(n) = "available" => bytes[n] # "bad")
        BY <1>1, <2>2 DEF MediaInv, AvailableWasVerified, State
      <3> QED BY <3>1 DEF Lawful
    <2> QED BY <2>1, <2>2
  <1>3. ASSUME NEW q \in Requests, ~HoldsRow(q, m) PROVE Respects(q)
    BY <1>1, <1>3 DEF Respects, State
  <1> QED BY <1>1, <1>2, <1>3 DEF MediaInv, Types

-----------------------------------------------------------------------------
(* Requests.                                                               *)

\* A request that is over.
LEMMA RequestEnds ==
    ASSUME MediaInv, NEW r \in Requests, End(r),
           media' \in [Media -> Record], bytes' \in [Media -> Contents], InOrder',
           \A m \in Media : /\ media'[m].key = media[m].key
                            /\ media'[m].state = "none" <=> State(m) = "none",
           \A m \in Media : Lawful(m),
           \A q \in Requests \ {r} : Respects(q),
           UNCHANGED <<claims, worker, crashes>>
    PROVE  MediaInv'
  <1>1. /\ txn' \in [Requests -> Txn] /\ txn'[r] = Idle
        /\ \A q \in Requests \ {r} : txn'[q] = txn[q]
    BY EndIs DEF MediaInv
  <1>2. Idle.pc = "idle"
    BY IdleIs
  <1>3. Requested(r)'
    BY <1>1, <1>2 DEF Requested
  <1> QED BY <1>1, <1>2, <1>3, RequestKeeps

LEMMA RequestLeaves ==
    ASSUME MediaInv, NEW r \in Requests, Leave(r), UNCHANGED <<worker, crashes>>
    PROVE  MediaInv'
  BY NothingMoves, RequestEnds DEF Leave

\* A request arrives.
LEMMA RequestBegins ==
    ASSUME MediaInv, NEW r \in Requests, NEW t \in Txn, Begin(r, t),
           t.pc \notin {"idle", "register"},
           Requested(r)'
    PROVE  MediaInv' /\ \A m \in Media : Lawful(m)
  <1>1. /\ txn' = [txn EXCEPT ![r] = t]
        /\ UNCHANGED <<media, order, bytes>>
        /\ UNCHANGED <<claims, worker, crashes>>
    BY DEF Begin
  <1>2. /\ txn' \in [Requests -> Txn] /\ txn'[r] = t
        /\ \A q \in Requests \ {r} : txn'[q] = txn[q]
    BY <1>1 DEF MediaInv, Types
  <1> QED BY <1>1, <1>2, NothingMoves, RequestKeeps

LEMMA InitiateKeeps ==
    ASSUME MediaInv, NEW r \in Requests, NEW k \in Keys, BeginInitiate(r, k)
    PROVE  MediaInv' /\ \A m \in Media : Lawful(m)
  <1> DEFINE t == [Idle EXCEPT !.op = "initiate", !.key = k, !.pc = "claim"]
  <1>1. t \in Txn /\ t.pc = "claim" /\ t.op = "initiate" /\ t.key = k
    BY DEF Idle, Txn, Ops, States
  <1>2. Begin(r, t)
    BY DEF BeginInitiate
  <1> HIDE DEF t
  <1>3. txn'[r] = t
    BY <1>2 DEF Begin, MediaInv, Types
  <1>4. Requested(r)'
    BY <1>1, <1>3 DEF Requested
  <1> QED BY <1>1, <1>2, <1>4, RequestBegins

\* What a request on a media knows when it has read the record.
LEMMA BeginsOn ==
    ASSUME MediaInv, NEW r \in Requests, NEW m \in Media, NEW op \in Steps \cup {"complete"},
           NEW pc \in {"head", "mark", "storage"}, BeginOn(r, op, m, pc),
           State(m) # "none",
           pc = "head" <=> op = "complete",
           op = "abort" => pc = "mark" /\ State(m) = "uploading",
           op = "verify" => pc = "mark" /\ State(m) = "uploaded",
           op = "delete" => /\ State(m) # "deleted"
                            /\ pc = "storage" <=> State(m) = "deletion_pending"
    PROVE  MediaInv' /\ \A n \in Media : Lawful(n)
  <1> DEFINE t == [Idle EXCEPT !.op = op, !.pc = pc, !.media = m, !.seen = State(m)]
  <1>1. State(m) \in States
    BY DEF MediaInv, Types, Record, State
  <1>2. /\ t \in Txn /\ t.pc = pc /\ t.op = op /\ t.media = m /\ t.seen = State(m)
    BY <1>1 DEF Idle, Txn, Ops, States, Steps
  <1>3. Begin(r, t)
    BY DEF BeginOn
  <1> HIDE DEF t
  <1>4. /\ txn'[r] = t /\ UNCHANGED <<media, bytes>>
    BY <1>3 DEF Begin, MediaInv, Types
  <1>5. Requested(r)'
    BY <1>1, <1>2, <1>4 DEF Requested, Steps, State
  <1> QED BY <1>2, <1>3, <1>5, RequestBegins

LEMMA ArriveKeeps ==
    ASSUME MediaInv, NEW r \in Requests, Arrive(r)
    PROVE  MediaInv' /\ \A n \in Media : Lawful(n)
  <1>1. ASSUME NEW m \in Media, BeginComplete(r, m)
        PROVE  MediaInv' /\ \A n \in Media : Lawful(n)
    BY <1>1, BeginsOn DEF BeginComplete, Steps
  <1>2. ASSUME NEW m \in Media, BeginAbort(r, m)
        PROVE  MediaInv' /\ \A n \in Media : Lawful(n)
    BY <1>2, BeginsOn DEF BeginAbort, Steps
  <1>3. ASSUME NEW m \in Media, BeginVerify(r, m)
        PROVE  MediaInv' /\ \A n \in Media : Lawful(n)
    BY <1>3, BeginsOn DEF BeginVerify, Steps
  <1>4. ASSUME NEW m \in Media, BeginDelete(r, m)
        PROVE  MediaInv' /\ \A n \in Media : Lawful(n)
    <2>1. CASE State(m) = "deletion_pending"
      BY <1>4, <2>1, BeginsOn DEF BeginDelete, Steps
    <2>2. CASE State(m) # "deletion_pending"
      BY <1>4, <2>2, BeginsOn DEF BeginDelete, Steps
    <2> QED BY <2>1, <2>2
  <1> QED BY <1>1, <1>2, <1>3, <1>4, InitiateKeeps DEF Arrive

\* A request is granted its key: no media has it and no other request.
LEMMA ClaimKeyKeeps ==
    ASSUME MediaInv, NEW r \in Requests, ClaimKey(r), UNCHANGED <<worker, crashes>>
    PROVE  MediaInv' /\ \A m \in Media : Lawful(m)
  <1>1. CASE Leave(r)
    BY <1>1, RequestLeaves, NothingMoves DEF Leave
  <1>2. CASE claims[txn[r].key] = None /\ Goto(r, "register") /\ UNCHANGED <<media, order, bytes, claims>>
    <2>1. /\ txn' \in [Requests -> Txn] /\ txn'[r].pc = "register"
          /\ txn'[r].op = txn[r].op /\ txn'[r].key = txn[r].key
          /\ \A q \in Requests \ {r} : txn'[q] = txn[q]
      BY <1>2, GotoIs DEF MediaInv
    <2>2. /\ media' \in [Media -> Record] /\ bytes' \in [Media -> Contents] /\ InOrder'
          /\ \A m \in Media : Lawful(m)
          /\ \A q \in Requests : Respects(q)
      BY <1>2, NothingMoves
    <2>3. At(r, "initiate", "claim") /\ KeyFree(r)
      BY DEF ClaimKey
    <2>4. Requested(r)'
      <3>1. Requested(r)
        BY DEF MediaInv
      <3>2. txn[r].key \in Keys /\ txn[r].op = "initiate"
        BY <2>3, <3>1 DEF Requested, At
      <3> QED BY <2>1, <3>2 DEF Requested
    <2>5. \A q \in Requests : Requested(q)'
      BY <2>1, <2>2, <2>4, OthersRequested
    <2>6. \A w \in Workers : Cleaning(w)'
      BY <2>2, OthersCleaning
    <2>7. Types' /\ AtRest'
      BY <1>2, <2>1, <2>2 DEF MediaInv, Types, AtRest
    <2>8. KeysAreKept' /\ \A m \in Media : State(m)' # "none" => claims'[media'[m].key] = m
      BY <1>2 DEF MediaInv, KeysAreKept, OneMediaPerKey, State
    <2>9. ASSUME NEW p \in Requests, At(p, "initiate", "register")'
          PROVE  /\ claims'[txn'[p].key] = None
                 /\ \A q \in Requests \ {p} : At(q, "initiate", "register")' =>
                                                txn'[q].key # txn'[p].key
      <3>1. \A q \in Requests \ {r} : At(q, "initiate", "register")' <=> At(q, "initiate", "register")
        BY <2>1 DEF At
      <3>2. \A q \in Requests \ {r} : At(q, "initiate", "register")' =>
                                        txn'[q].key # txn'[r].key
        BY <2>1, <2>3, <3>1 DEF KeyFree
      <3>3. CASE p = r
        BY <1>2, <2>1, <3>2, <3>3
      <3>4. CASE p # r
        <4>1. /\ At(p, "initiate", "register")
              /\ claims[txn[p].key] = None
              /\ \A q \in Requests \ {p} : At(q, "initiate", "register") => txn[q].key # txn[p].key
          BY <2>9, <3>1, <3>4 DEF MediaInv, OneMediaPerKey
        <4>2. ASSUME NEW q \in Requests \ {p}, At(q, "initiate", "register")'
              PROVE  txn'[q].key # txn'[p].key
          <5>1. CASE q = r
            BY <2>9, <3>2, <3>4, <5>1
          <5>2. CASE q # r
            BY <2>1, <3>1, <3>4, <4>1, <4>2, <5>2
          <5> QED BY <5>1, <5>2
        <4> QED BY <1>2, <2>1, <3>4, <4>1, <4>2
      <3> QED BY <3>3, <3>4
    <2>10. OneMediaPerKey'
      BY <2>8, <2>9 DEF OneMediaPerKey
    <2>11. AvailableWasVerified'
      BY <2>2, GoodStays
    <2> QED BY <2>2, <2>5, <2>6, <2>7, <2>8, <2>10, <2>11 DEF MediaInv
  <1> QED BY <1>1, <1>2 DEF ClaimKey

\* A media is registered under the key that was granted.
LEMMA RegisterKeeps ==
    ASSUME MediaInv, NEW r \in Requests, Register(r), UNCHANGED <<worker, crashes>>
    PROVE  MediaInv' /\ \A m \in Media : Lawful(m)
  <1> DEFINE k == txn[r].key
             x == [NoRecord EXCEPT !.state = "uploading", !.key = k]
  <1>1. At(r, "initiate", "register") /\ End(r) /\ UNCHANGED bytes
    BY DEF Register
  <1>2. k \in Keys
    BY <1>1 DEF MediaInv, Requested, At
  <1>3. /\ claims[k] = None
        /\ \A q \in Requests \ {r} : At(q, "initiate", "register") => txn[q].key # k
    BY <1>1 DEF MediaInv, OneMediaPerKey
  <1>4. PICK m \in Media : /\ State(m) = "none"
                           /\ media' = [media EXCEPT ![m] = x]
                           /\ order' = Touched(m)
                           /\ claims' = [claims EXCEPT ![k] = m]
    BY DEF Register
  <1>5. x \in Record /\ x.state = "uploading" /\ x.key = k
    BY <1>2 DEF NoRecord, Record, States
  <1> HIDE DEF x, k
  <1>6. /\ media' \in [Media -> Record] /\ media'[m] = x
        /\ \A n \in Media : n # m => media'[n] = media[n]
    BY <1>4, <1>5 DEF MediaInv, Types
  <1>7. /\ claims' \in [Keys -> Media \cup {None}] /\ claims'[k] = m
        /\ \A j \in Keys : j # k => claims'[j] = claims[j]
    BY <1>2, <1>4 DEF MediaInv, Types
  <1>8. /\ txn' \in [Requests -> Txn] /\ txn'[r] = Idle
        /\ \A q \in Requests \ {r} : txn'[q] = txn[q]
    BY <1>1, EndIs DEF MediaInv
  <1>9. \A n \in Media : Lawful(n)
    <2> SUFFICES ASSUME NEW n \in Media PROVE Lawful(n)
      OBVIOUS
    <2>1. CASE n = m
      BY <1>1, <1>4, <1>5, <1>6, <2>1 DEF Lawful, Lifecycle, Completed
    <2>2. CASE n # m
      <3>1. media'[n].state = State(n) /\ (State(n) = "available" => bytes[n] # "bad")
        BY <1>6, <2>2 DEF MediaInv, AvailableWasVerified, State
      <3> QED BY <1>1, <3>1 DEF Lawful
    <2> QED BY <2>1, <2>2
  <1>10. \A q \in Requests \ {r} : Respects(q)
    <2>1. ASSUME NEW q \in Requests, NEW n \in Media, HoldsRow(q, n) PROVE n # m
      <3>1. Requested(q)
        BY DEF MediaInv
      <3>2. State(n) # "none"
        BY <2>1, <3>1 DEF HoldsRow, Requested
      <3> QED BY <1>4, <3>2
    <2> QED BY <1>6, <2>1 DEF Respects, State
  <1>11. InOrder'
    <2>1. Registered' = Registered \cup {m}
      BY <1>5, <1>6 DEF Registered, State
    <2> QED BY <1>4, <2>1, TouchedIs DEF MediaInv
  <1>12. Idle.pc = "idle"
    BY IdleIs
  <1>13. Requested(r)'
    BY <1>8, <1>12 DEF Requested
  <1>14. \A q \in Requests : Requested(q)'
    BY <1>8, <1>9, <1>10, <1>13, OthersRequested
  <1>15. \A w \in Workers : Cleaning(w)'
    BY <1>9, OthersCleaning
  <1>16. Types' /\ AtRest'
    BY <1>1, <1>6, <1>7, <1>8 DEF MediaInv, Types, AtRest
  <1>17. KeysAreKept'
    BY <1>2, <1>5, <1>6 DEF MediaInv, KeysAreKept, State
  <1>18. ASSUME NEW n \in Media, media'[n].state # "none" PROVE claims'[media'[n].key] = n
    <2>1. CASE n = m
      BY <1>5, <1>6, <1>7, <2>1
    <2>2. CASE n # m
      <3>1. media[n].key \in Keys /\ claims[media[n].key] = n
        BY <1>6, <1>18, <2>2 DEF MediaInv, KeysAreKept, OneMediaPerKey, State
      <3>2. media[n].key # k
        BY <1>3, <3>1, MediaNumbers
      <3> QED BY <1>6, <1>7, <2>2, <3>1, <3>2
    <2> QED BY <2>1, <2>2
  <1>19. ASSUME NEW p \in Requests, At(p, "initiate", "register")'
         PROVE  /\ claims'[txn'[p].key] = None
                /\ \A q \in Requests \ {p} : At(q, "initiate", "register")' =>
                                               txn'[q].key # txn'[p].key
    <2>1. \A q \in Requests : At(q, "initiate", "register")' =>
                                q # r /\ txn'[q] = txn[q] /\ At(q, "initiate", "register")
      BY <1>8, <1>12 DEF At
    <2>2. /\ p # r /\ txn'[p] = txn[p] /\ At(p, "initiate", "register")
      BY <1>19, <2>1
    <2>3. txn[p].key # k /\ txn[p].key \in Keys
      BY <1>3, <2>2 DEF MediaInv, Requested, At
    <2>4. claims[txn[p].key] = None
      BY <2>2 DEF MediaInv, OneMediaPerKey
    <2>5. ASSUME NEW q \in Requests \ {p}, At(q, "initiate", "register")'
          PROVE  txn'[q].key # txn'[p].key
      <3>1. txn'[q] = txn[q] /\ At(q, "initiate", "register")
        BY <2>1, <2>5
      <3> QED BY <2>2, <3>1 DEF MediaInv, OneMediaPerKey
    <2> QED BY <1>7, <2>2, <2>3, <2>4, <2>5
  <1>20. OneMediaPerKey'
    BY <1>18, <1>19 DEF OneMediaPerKey, State
  <1>21. AvailableWasVerified'
    BY <1>9, GoodStays
  <1> QED BY <1>9, <1>11, <1>14, <1>15, <1>16, <1>17, <1>20, <1>21 DEF MediaInv

\* A request that has found, or left, the bytes as it wants them.
LEMMA RequestFinishes ==
    ASSUME MediaInv, NEW r \in Requests, Goto(r, "finish"), UNCHANGED <<media, order>>,
           txn[r].op \in Steps \cup {"complete"}, txn[r].pc \in {"head", "storage"},
           txn[r].op = "complete" <=> txn[r].pc = "head",
           bytes' \in [Media -> Contents],
           txn[r].op = "verify" => bytes'[txn[r].media] # "bad",
           txn[r].op = "delete" => bytes'[txn[r].media] = "none",
           media' \in [Media -> Record], InOrder',
           \A m \in Media : /\ media'[m].key = media[m].key
                            /\ media'[m].state = "none" <=> State(m) = "none",
           \A m \in Media : Lawful(m),
           \A q \in Requests : Respects(q),
           UNCHANGED <<claims, worker, crashes>>
    PROVE  MediaInv'
  <1>1. /\ txn' \in [Requests -> Txn] /\ txn'[r].pc = "finish"
        /\ txn'[r].op = txn[r].op /\ txn'[r].media = txn[r].media
        /\ txn'[r].key = txn[r].key /\ txn'[r].seen = txn[r].seen
        /\ \A q \in Requests \ {r} : txn'[q] = txn[q]
    BY GotoIs DEF MediaInv
  <1>2. Requested(r)
    BY DEF MediaInv
  <1>3. Requested(r)'
    BY <1>1, <1>2 DEF Requested, Steps, State
  <1> QED BY <1>1, <1>3, RequestKeeps

LEMMA HeadKeeps ==
    ASSUME MediaInv, NEW r \in Requests, HeadObject(r), UNCHANGED <<worker, crashes>>
    PROVE  MediaInv' /\ \A m \in Media : Lawful(m)
  <1> DEFINE m == txn[r].media
  <1>1. /\ At(r, "complete", "head") /\ UNCHANGED <<media, order, claims>>
    BY DEF HeadObject
  <1>2. m \in Media
    BY <1>1 DEF MediaInv, Requested, At
  <1>3. PICK b \in IF bytes[m] = "none" /\ State(m) = "uploading" THEN Contents ELSE {bytes[m]} :
          /\ bytes' = [bytes EXCEPT ![m] = b]
          /\ \/ b # "good" /\ End(r)
             \/ b # "none" /\ Goto(r, "finish")
    BY DEF HeadObject
  <1>4. b \in Contents /\ (b = bytes[m] \/ State(m) = "uploading")
    BY <1>2, <1>3 DEF MediaInv, Types
  <1> HIDE DEF m
  <1>5. /\ media' \in [Media -> Record] /\ bytes' \in [Media -> Contents] /\ InOrder'
        /\ \A n \in Media : /\ media'[n].key = media[n].key
                            /\ media'[n].state = "none" <=> State(n) = "none"
        /\ \A n \in Media : Lawful(n)
        /\ \A q \in Requests : Respects(q)
    BY <1>1, <1>2, <1>3, <1>4, BytesMove
  <1>6. CASE End(r)
    BY <1>1, <1>5, <1>6, RequestEnds
  <1>7. CASE Goto(r, "finish")
    <2>1. txn[r].op = "complete" /\ txn[r].pc = "head"
      BY <1>1 DEF At
    <2> QED BY <1>1, <1>5, <1>7, <2>1, RequestFinishes
  <1> QED BY <1>3, <1>5, <1>6, <1>7

LEMMA FinishUploadKeeps ==
    ASSUME MediaInv, NEW r \in Requests, FinishUpload(r), UNCHANGED <<worker, crashes>>
    PROVE  MediaInv' /\ \A m \in Media : Lawful(m)
  <1> DEFINE m == txn[r].media
  <1>1. At(r, "complete", "finish") /\ RowFree(m)
    BY DEF FinishUpload
  <1>2. m \in Media
    BY <1>1 DEF MediaInv, Requested, At
  <1>3. CASE Leave(r)
    BY <1>3, RequestLeaves, NothingMoves DEF Leave
  <1>4. CASE State(m) = "uploading" /\ Becomes(m, "uploaded") /\ End(r) /\ UNCHANGED <<bytes, claims>>
    <2>1. "uploaded" \in States /\ <<State(m), "uploaded">> \in Lifecycle /\ State(m) \notin Completed
      BY <1>4 DEF States, Lifecycle, Completed
    <2>2. /\ media' \in [Media -> Record] /\ bytes' \in [Media -> Contents] /\ InOrder'
          /\ \A n \in Media : /\ media'[n].key = media[n].key
                              /\ media'[n].state = "none" <=> State(n) = "none"
          /\ \A n \in Media : Lawful(n)
          /\ \A q \in Requests : ~HoldsRow(q, m) => Respects(q)
      BY <1>2, <1>4, <2>1, StateMoves
    <2>3. \A q \in Requests : Respects(q)
      BY <1>1, <2>2 DEF RowFree
    <2> QED BY <1>4, <2>2, <2>3, RequestEnds
  <1> QED BY <1>3, <1>4 DEF FinishUpload

\* The row is taken: the state is the one that was read.
LEMMA MarkKeeps ==
    ASSUME MediaInv, NEW r \in Requests, Mark(r), UNCHANGED <<worker, crashes>>
    PROVE  MediaInv' /\ \A m \in Media : Lawful(m)
  <1> DEFINE m == txn[r].media
  <1>1. txn[r].pc = "mark"
    BY DEF Mark
  <1>2. CASE Leave(r)
    BY <1>2, RequestLeaves, NothingMoves DEF Leave
  <1>3. CASE /\ State(m) = txn[r].seen
             /\ txn' = [txn EXCEPT ![r].pc = "storage", ![r].seen = "none"]
             /\ UNCHANGED <<media, order, bytes, claims>>
    <2> DEFINE t == [txn[r] EXCEPT !.pc = "storage", !.seen = "none"]
    <2>1. txn' = [txn EXCEPT ![r] = t]
      BY <1>3 DEF MediaInv, Types
    <2>2. /\ t \in Txn /\ t.pc = "storage" /\ t.op = txn[r].op /\ t.media = m
          /\ t.seen = "none"
      BY DEF MediaInv, Types, Txn, States
    <2> HIDE DEF t
    <2>3. /\ txn' \in [Requests -> Txn] /\ txn'[r] = t
          /\ \A q \in Requests \ {r} : txn'[q] = txn[q]
      BY <2>1, <2>2 DEF MediaInv, Types
    <2>4. Requested(r)
      BY DEF MediaInv
    <2>5. Requested(r)'
      BY <1>1, <1>3, <2>2, <2>3, <2>4 DEF Requested, State, Steps
    <2>6. /\ media' \in [Media -> Record] /\ bytes' \in [Media -> Contents] /\ InOrder'
          /\ \A n \in Media : /\ media'[n].key = media[n].key
                              /\ media'[n].state = "none" <=> State(n) = "none"
          /\ \A n \in Media : Lawful(n)
          /\ \A q \in Requests : Respects(q)
      BY <1>3, NothingMoves
    <2> QED BY <1>3, <2>2, <2>3, <2>5, <2>6, RequestKeeps
  <1> QED BY <1>2, <1>3 DEF Mark

LEMMA StorageKeeps ==
    ASSUME MediaInv, NEW r \in Requests, Cleanup(r) \/ Inspect(r) \/ Reject(r) \/ Erase(r),
           UNCHANGED <<worker, crashes>>
    PROVE  MediaInv' /\ \A m \in Media : Lawful(m)
  <1> DEFINE m == txn[r].media
  <1>1. CASE Reject(r)
    BY <1>1, RequestLeaves, NothingMoves DEF Reject, Leave
  <1>2. CASE Inspect(r)
    <2>1. /\ txn[r].op = "verify" /\ txn[r].pc = "storage" /\ Goto(r, "finish")
          /\ UNCHANGED <<media, order, bytes>> /\ claims' = claims
          /\ bytes[m] = "good"
      BY <1>2 DEF Inspect, At
    <2>2. /\ media' \in [Media -> Record] /\ bytes' \in [Media -> Contents] /\ InOrder'
          /\ \A n \in Media : /\ media'[n].key = media[n].key
                              /\ media'[n].state = "none" <=> State(n) = "none"
          /\ \A n \in Media : Lawful(n)
          /\ \A q \in Requests : Respects(q)
      BY <2>1, NothingMoves
    <2> QED BY <2>1, <2>2, RequestFinishes DEF Steps
  <1>3. CASE Cleanup(r) \/ Erase(r)
    <2>1. /\ txn[r].op \in {"abort", "delete"} /\ txn[r].pc = "storage" /\ Goto(r, "finish")
          /\ UNCHANGED <<media, order>> /\ claims' = claims
          /\ \/ txn[r].op = "abort" /\ bytes' = bytes
             \/ bytes' = [bytes EXCEPT ![m] = "none"]
      BY <1>3 DEF Cleanup, Erase, At
    <2>2. m \in Media
      BY <2>1 DEF MediaInv, Requested
    <2>3. CASE txn[r].op = "abort" /\ bytes' = bytes
      <3>1. /\ media' \in [Media -> Record] /\ bytes' \in [Media -> Contents] /\ InOrder'
            /\ \A n \in Media : /\ media'[n].key = media[n].key
                                /\ media'[n].state = "none" <=> State(n) = "none"
            /\ \A n \in Media : Lawful(n)
            /\ \A q \in Requests : Respects(q)
        BY <2>1, <2>3, NothingMoves
      <3> QED BY <2>1, <2>3, <3>1, RequestFinishes DEF Steps
    <2>4. CASE bytes' = [bytes EXCEPT ![m] = "none"]
      <3>1. "none" \in Contents
        BY DEF Contents
      <3>2. /\ media' \in [Media -> Record] /\ bytes' \in [Media -> Contents] /\ InOrder'
            /\ bytes'[m] = "none"
            /\ \A n \in Media : /\ media'[n].key = media[n].key
                                /\ media'[n].state = "none" <=> State(n) = "none"
            /\ \A n \in Media : Lawful(n)
            /\ \A q \in Requests : Respects(q)
        BY <2>1, <2>2, <2>4, <3>1, BytesMove
      <3> QED BY <2>1, <3>2, RequestFinishes DEF Steps
    <2> QED BY <2>1, <2>3, <2>4
  <1> QED BY <1>1, <1>2, <1>3

\* The commit of a request: what it has found in the storage is still so.
LEMMA FinishKeeps ==
    ASSUME MediaInv, NEW r \in Requests, Finish(r), UNCHANGED <<worker, crashes>>
    PROVE  MediaInv' /\ \A m \in Media : Lawful(m)
  <1> DEFINE m == txn[r].media
             s == Outcome(txn[r].op)
  <1>1. txn[r].op \in Steps /\ txn[r].pc = "finish" /\ RowFreeFor(r, m)
    BY DEF Finish, Steps
  <1>2. Requested(r)
    BY DEF MediaInv
  <1>3. m \in Media /\ State(m) # "none" /\ State(m) \in States
    BY <1>1, <1>2 DEF Requested, MediaInv, Types, Record, State
  <1>4. CASE Leave(r)
    BY <1>4, RequestLeaves, NothingMoves DEF Leave
  <1>5. CASE /\ HoldsRow(r, m) \/ State(m) = "deletion_pending"
             /\ Becomes(m, s) /\ End(r) /\ UNCHANGED <<bytes, claims>>
    <2>1. State(m) # "deleted"
      BY <1>1, <1>2, <1>5 DEF Requested, HoldsRow, Steps
    <2>2. /\ s \in States /\ s # "none" /\ <<State(m), s>> \in Lifecycle
          /\ State(m) \in Completed /\ s \in {"failed", "deleted"} => bytes[m] = "none"
          /\ s = "available" => bytes[m] # "bad"
      <3>1. CASE txn[r].op = "abort"
        BY <1>1, <1>2, <3>1 DEF Requested, Outcome, Lifecycle, States, Completed
      <3>2. CASE txn[r].op = "verify"
        BY <1>1, <1>2, <3>2 DEF Requested, Outcome, Lifecycle, States, Completed
      <3>3. CASE txn[r].op = "delete"
        BY <1>1, <1>2, <1>3, <2>1, <3>3 DEF Requested, Outcome, Lifecycle, States, Completed
      <3> QED BY <1>1, <3>1, <3>2, <3>3 DEF Steps
    <2> HIDE DEF s, m
    <2>3. /\ media' \in [Media -> Record] /\ bytes' \in [Media -> Contents] /\ InOrder'
          /\ \A n \in Media : /\ media'[n].key = media[n].key
                              /\ media'[n].state = "none" <=> State(n) = "none"
          /\ \A n \in Media : Lawful(n)
          /\ \A q \in Requests : ~HoldsRow(q, m) => Respects(q)
      BY <1>3, <1>5, <2>2, StateMoves
    <2>4. \A q \in Requests \ {r} : Respects(q)
      BY <1>1, <2>3 DEF RowFreeFor
    <2> QED BY <1>5, <2>3, <2>4, RequestEnds
  <1> QED BY <1>4, <1>5 DEF Finish

LEMMA RequestStep ==
    ASSUME MediaInv, NEW r \in Requests, Request(r)
    PROVE  MediaInv' /\ \A m \in Media : Lawful(m)
  <1>1. UNCHANGED <<worker, crashes>>
    BY DEF Request
  <1>2. CASE Abandon(r)
    BY <1>1, <1>2, RequestLeaves, NothingMoves DEF Abandon, Leave
  <1>3. CASE Contend(r)
    BY <1>1, <1>3, ClaimKeyKeeps, FinishUploadKeeps, MarkKeeps, FinishKeeps DEF Contend
  <1>4. CASE Proceed(r)
    BY <1>1, <1>4, RegisterKeeps, HeadKeeps, StorageKeeps DEF Proceed
  <1> QED BY <1>2, <1>3, <1>4 DEF Request

-----------------------------------------------------------------------------
(* Workers.                                                                *)

LEMMA WorkIs ==
    ASSUME MediaInv, NEW w \in Workers, NEW t \in Cycle, Work(w, t)
    PROVE  /\ worker' \in [Workers -> Cycle] /\ worker'[w] = t
           /\ \A v \in Workers \ {w} : worker'[v] = worker[v]
  BY DEF MediaInv, Types, Work

LEMMA CurrentIs ==
    ASSUME NEW w \in Workers, worker[w].sweep \in 1 .. 4
    PROVE  /\ Current(w) = "expired" <=> worker[w].sweep = 1
           /\ Current(w) = "stale" <=> worker[w].sweep = 2
           /\ Current(w) = "missing" <=> worker[w].sweep = 3
           /\ Current(w) = "orphan" <=> worker[w].sweep = 4
  BY DEF Current, Sweeps

LEMMA RestingIs ==
    /\ Resting \in Cycle /\ Resting.sweep = 0 /\ Resting.todo = {}
    /\ Resting.item = None /\ Resting.step = "next"
  BY DEF Resting, Cycle, Sweeps

\* A batch holds what the sweep is about.
LEMMA CandidatesAre ==
    ASSUME NEW n \in 1 .. 4, NEW B \in Candidates(Sweeps[n])
    PROVE  /\ B \subseteq Media
           /\ n = 1 => \A m \in B : Due(m)
           /\ n = 3 => \A m \in B : State(m) \in Reconcilable
           /\ n = 4 => \A m \in B : bytes[m] # "none"
  <1>1. \A S : \A C \in Batches(S) : C \subseteq S
    BY DEF Batches
  <1>2. \A S : \A C \in Oldest(S) : C \subseteq S
    BY DEF Oldest
  <1>3. CASE n = 1
    <2>1. B \in Batches({m \in Media : Due(m)})
      BY <1>3 DEF Candidates, Sweeps
    <2>2. B \subseteq {m \in Media : Due(m)}
      BY <1>1, <2>1
    <2> QED BY <1>3, <2>2
  <1>4. CASE n = 2
    <2>1. B \in Batches({m \in Media : State(m) = "uploading" /\ media[m].settled})
      BY <1>4 DEF Candidates, Sweeps
    <2>2. B \subseteq {m \in Media : State(m) = "uploading" /\ media[m].settled}
      BY <1>1, <2>1
    <2> QED BY <1>4, <2>2
  <1>5. CASE n = 3
    <2>1. B \in Oldest({m \in Media : State(m) \in Reconcilable /\ media[m].settled})
      BY <1>5 DEF Candidates, Sweeps
    <2>2. B \subseteq {m \in Media : State(m) \in Reconcilable /\ media[m].settled}
      BY <1>2, <2>1
    <2> QED BY <1>5, <2>2
  <1>6. CASE n = 4
    <2>1. B \in FirstKeys({m \in Temporary : bytes[m] # "none"})
      BY <1>6 DEF Candidates, Sweeps
    <2>2. B \subseteq {m \in Temporary : bytes[m] # "none"}
      BY <2>1 DEF FirstKeys
    <2> QED BY <1>6, <2>2, MediaNumbers
  <1> QED BY <1>3, <1>4, <1>5, <1>6

LEMMA SweepKeeps ==
    ASSUME MediaInv, NEW w \in Workers, NEW n \in DOMAIN Sweeps, Sweep(w, n),
           UNCHANGED <<claims, txn, crashes>>
    PROVE  MediaInv' /\ \A m \in Media : Lawful(m)
  <1>1. n \in 1 .. 4 /\ UNCHANGED <<media, order, bytes>>
    BY DEF Sweeps, Sweep
  <1>2. PICK B \in Candidates(Sweeps[n]) :
          Work(w, [Resting EXCEPT !.sweep = n, !.todo = Listed(n, B)])
    BY DEF Sweep
  <1>3. /\ B \subseteq Media
        /\ n = 1 => \A m \in B : Due(m)
        /\ n = 3 => \A m \in B : State(m) \in Reconcilable
    BY <1>1, CandidatesAre
  <1> DEFINE S == Listed(n, B)
             t == [Resting EXCEPT !.sweep = n, !.todo = S]
  <1>4. \A m \in Media : State(m) \in States
    BY DEF MediaInv, Types, Record, State
  <1>5. \A i \in S : /\ i[1] \in B /\ i \in Items
                     /\ n \in {1, 3} => i[2] = State(i[1])
    <2>1. n \in {1, 3} => Sweeps[n] # "orphan"
      BY DEF Sweeps
    <2>2. ASSUME NEW m \in B
          PROVE  <<m, IF Sweeps[n] = "orphan" THEN "none" ELSE State(m)>> \in Items
      BY <1>3, <1>4 DEF Items, States
    <2> QED BY <2>1, <2>2 DEF Listed
  <1> HIDE DEF S
  <1>6. /\ t \in Cycle /\ t.sweep = n /\ t.todo = S /\ t.item = None /\ t.step = "next"
    <2>1. S \in SUBSET Items
      BY <1>5
    <2>2. n \in 0 .. Len(Sweeps)
      <3>1. Len(Sweeps) = 4
        BY DEF Sweeps
      <3> QED BY <1>1, <3>1
    <2> QED BY <2>1, <2>2, RestingIs DEF Cycle
  <1> HIDE DEF t
  <1>7. /\ worker' \in [Workers -> Cycle] /\ worker'[w] = t
        /\ \A v \in Workers \ {w} : worker'[v] = worker[v]
    BY <1>2, <1>6, WorkIs DEF t, S
  <1>8. n = 1 => \A i \in S : i[2] \in {"available", "deletion_pending"}
    BY <1>3, <1>5 DEF Due
  <1>9. n \in {1, 3} => \A i \in S : Known(i[1], i[2])
    BY <1>3, <1>5 DEF Due, Known, Reconcilable, Over, Completed
  <1>10. \A m, s : Known(m, s)' <=> Known(m, s)
    BY <1>1 DEF Known, State
  <1>11. Cleaning(w)'
    BY <1>6, <1>7, <1>8, <1>9, <1>10 DEF Cleaning
  <1>12. /\ media' \in [Media -> Record] /\ bytes' \in [Media -> Contents] /\ InOrder'
         /\ \A m \in Media : /\ media'[m].key = media[m].key
                             /\ media'[m].state = "none" <=> State(m) = "none"
         /\ \A m \in Media : Lawful(m)
         /\ \A q \in Requests : Respects(q)
    BY <1>1, NothingMoves
  <1>13. worker'[w].sweep # 0 /\ crashes' \in 0 .. MaxCrashes
    BY <1>1, <1>6, <1>7 DEF MediaInv, Types
  <1> QED BY <1>7, <1>11, <1>12, <1>13, WorkerKeeps

\* A worker that is at rest knows nothing.
LEMMA RestKeeps ==
    ASSUME MediaInv, NEW w \in Workers, Work(w, Resting), UNCHANGED <<media, order, bytes>>,
           UNCHANGED <<claims, txn>>, crashes' \in 0 .. MaxCrashes
    PROVE  MediaInv' /\ \A m \in Media : Lawful(m)
  <1>1. /\ worker' \in [Workers -> Cycle] /\ worker'[w] = Resting
        /\ \A v \in Workers \ {w} : worker'[v] = worker[v]
    BY RestingIs, WorkIs
  <1>2. Cleaning(w)'
    BY <1>1, RestingIs DEF Cleaning
  <1> QED BY <1>1, <1>2, NothingMoves, WorkerKeeps

\* What a worker knows of the records it has still to do.
LEMMA TodoStays ==
    ASSUME MediaInv, NEW w \in Workers, \A m \in Media : Lawful(m)
    PROVE  /\ worker[w].sweep = 1 => \A i \in worker[w].todo : i[2] \in {"available", "deletion_pending"}
           /\ worker[w].sweep \in {1, 3} => \A i \in worker[w].todo : Known(i[1], i[2])'
  <1>1. Cleaning(w) /\ worker[w] \in Cycle
    BY DEF MediaInv, Types
  <1>2. \A i \in worker[w].todo : i[1] \in Media
    BY <1>1 DEF Cycle, Items
  <1>3. ASSUME worker[w].sweep \in {1, 3}, NEW i \in worker[w].todo
        PROVE  Known(i[1], i[2])'
    <2>1. i[1] \in Media /\ Known(i[1], i[2]) /\ Lawful(i[1])
      BY <1>1, <1>2, <1>3 DEF Cleaning
    <2> QED BY <2>1, KnownStays
  <1> QED BY <1>1, <1>3 DEF Cleaning

\* A worker that is through with a record.
LEMMA DropKeeps ==
    ASSUME MediaInv, NEW w \in Workers, worker[w].step # "next", Drop(w),
           media' \in [Media -> Record], bytes' \in [Media -> Contents], InOrder',
           \A m \in Media : /\ media'[m].key = media[m].key
                            /\ media'[m].state = "none" <=> State(m) = "none",
           \A m \in Media : Lawful(m),
           \A q \in Requests : Respects(q),
           UNCHANGED <<claims, txn, crashes>>
    PROVE  MediaInv'
  <1> DEFINE t == [worker[w] EXCEPT !.item = None, !.step = "next"]
  <1>1. Cleaning(w) /\ worker[w] \in Cycle
    BY DEF MediaInv, Types
  <1>2. /\ t \in Cycle /\ t.sweep = worker[w].sweep /\ t.todo = worker[w].todo
        /\ t.item = None /\ t.step = "next"
    BY <1>1 DEF Cycle
  <1>3. Work(w, t)
    BY DEF Drop
  <1> HIDE DEF t
  <1>4. /\ worker' \in [Workers -> Cycle] /\ worker'[w] = t
        /\ \A v \in Workers \ {w} : worker'[v] = worker[v]
    BY <1>2, <1>3, WorkIs
  <1>5. t.sweep # 0
    BY <1>1, <1>2 DEF Cleaning
  <1>6. Cleaning(w)'
    BY <1>2, <1>4, <1>5, TodoStays DEF Cleaning
  <1>7. crashes' \in 0 .. MaxCrashes
    BY DEF MediaInv, Types
  <1> QED BY <1>4, <1>5, <1>6, <1>7, WorkerKeeps

\* A worker that is through with the storage.
LEMMA FoundKeeps ==
    ASSUME MediaInv, NEW w \in Workers, Now(w, "storage"), WorkStep(w, "finish"),
           worker[w].sweep \in {1, 2, 3},
           worker[w].sweep \in {1, 3} => bytes'[Item(w)] = "none",
           media' \in [Media -> Record], bytes' \in [Media -> Contents], InOrder',
           \A m \in Media : /\ media'[m].key = media[m].key
                            /\ media'[m].state = "none" <=> State(m) = "none",
           \A m \in Media : Lawful(m),
           \A q \in Requests : Respects(q),
           UNCHANGED <<media, claims, txn, crashes>>
    PROVE  MediaInv'
  <1> DEFINE t == [worker[w] EXCEPT !.step = "finish"]
             m == worker[w].item[1]
  <1>1. Cleaning(w) /\ worker[w] \in Cycle
    BY DEF MediaInv, Types
  <1>2. /\ t \in Cycle /\ t.sweep = worker[w].sweep /\ t.todo = worker[w].todo
        /\ t.item = worker[w].item /\ t.step = "finish"
    BY <1>1 DEF Cycle
  <1>3. Work(w, t)
    BY DEF WorkStep
  <1> HIDE DEF t
  <1>4. /\ worker' \in [Workers -> Cycle] /\ worker'[w] = t
        /\ \A v \in Workers \ {w} : worker'[v] = worker[v]
    BY <1>2, <1>3, WorkIs
  <1>5. /\ worker[w].item \in Items
        /\ worker[w].sweep = 1 => State(m) \in {"deletion_pending", "deleted"}
        /\ worker[w].sweep = 3 => Known(m, worker[w].item[2])
    BY <1>1 DEF Cleaning, Now
  <1>6. \A n, s : Known(n, s)' <=> Known(n, s)
    BY DEF Known, State
  <1>7. Cleaning(w)'
    BY <1>2, <1>4, <1>5, <1>6, TodoStays DEF Cleaning, State, Item
  <1>8. crashes' \in 0 .. MaxCrashes /\ worker'[w].sweep # 0
    BY <1>2, <1>4 DEF MediaInv, Types
  <1> QED BY <1>4, <1>7, <1>8, WorkerKeeps

LEMMA StoreKeeps ==
    ASSUME MediaInv, NEW w \in Workers, Store(w), UNCHANGED <<claims, txn, crashes>>
    PROVE  MediaInv' /\ \A m \in Media : Lawful(m)
  <1> DEFINE m == Item(w)
  <1>1. /\ Now(w, "storage") /\ UNCHANGED <<media, order>>
        /\ worker[w].step # "next"
    BY DEF Store, Now
  <1>2. Cleaning(w) /\ worker[w] \in Cycle
    BY DEF MediaInv, Types
  <1>3. m \in Media /\ worker[w].sweep \in 1 .. 4
    BY <1>1, <1>2 DEF Cleaning, Cycle, Items, Item, Sweeps
  <1>4. \/ /\ bytes' = [bytes EXCEPT ![m] = "none"]
           /\ WorkStep(w, "finish") /\ worker[w].sweep \in {1, 2}
        \/ /\ bytes' = bytes
           /\ WorkStep(w, "finish") /\ worker[w].sweep \in {2, 3}
           /\ worker[w].sweep = 3 => bytes[m] = "none"
        \/ bytes' = bytes /\ Drop(w)
        \/ bytes' = [bytes EXCEPT ![m] = "none"] /\ Drop(w)
    <2>1. /\ Current(w) = "expired" <=> worker[w].sweep = 1
          /\ Current(w) = "stale" <=> worker[w].sweep = 2
          /\ Current(w) = "missing" <=> worker[w].sweep = 3
          /\ Current(w) = "orphan" <=> worker[w].sweep = 4
      BY <1>3, CurrentIs
    <2>2. CASE Current(w) = "expired"
      BY <2>1, <2>2 DEF Store
    <2>3. CASE Current(w) = "stale"
      <3>1. /\ bytes' = [bytes EXCEPT ![m] = "none"] \/ bytes' = bytes
            /\ WorkStep(w, "finish")
        BY <2>3 DEF Store
      <3> QED BY <2>1, <2>3, <3>1
    <2>4. CASE Current(w) = "missing"
      BY <2>1, <2>4 DEF Store
    <2>5. CASE Current(w) = "orphan"
      <3>1. (bytes' = [bytes EXCEPT ![m] = "none"] \/ bytes' = bytes) /\ Drop(w)
        BY <2>5 DEF Store
      <3> QED BY <3>1
    <2> QED BY <1>3, <2>1, <2>2, <2>3, <2>4, <2>5
  <1>5. "none" \in Contents
    BY DEF Contents
  <1> HIDE DEF m
  <1>6. /\ media' \in [Media -> Record] /\ bytes' \in [Media -> Contents] /\ InOrder'
        /\ \A n \in Media : /\ media'[n].key = media[n].key
                            /\ media'[n].state = "none" <=> State(n) = "none"
        /\ \A n \in Media : Lawful(n)
        /\ \A q \in Requests : Respects(q)
        /\ bytes' = bytes \/ bytes'[m] = "none"
    <2>1. CASE bytes' = bytes
      BY <1>1, <2>1, NothingMoves
    <2>2. CASE bytes' = [bytes EXCEPT ![m] = "none"]
      BY <1>1, <1>3, <1>5, <2>2, BytesMove
    <2> QED BY <1>4, <2>1, <2>2
  <1>7. CASE Drop(w)
    BY <1>1, <1>6, <1>7, DropKeeps
  <1>8. CASE WorkStep(w, "finish") /\ worker[w].sweep \in {1, 2, 3}
             /\ (worker[w].sweep \in {1, 3} => bytes'[m] = "none")
    BY <1>1, <1>6, <1>8, FoundKeeps DEF m
  <1>9. bytes' = [bytes EXCEPT ![m] = "none"] => bytes'[m] = "none"
    BY <1>3 DEF MediaInv, Types
  <1> QED BY <1>4, <1>7, <1>8, <1>9

\* A record is taken: an expired one is marked now, if it was not before.
LEMMA TakeKeeps ==
    ASSUME MediaInv, NEW w \in Workers, Take(w), UNCHANGED <<claims, txn, crashes>>
    PROVE  MediaInv' /\ \A m \in Media : Lawful(m)
  <1>1. Now(w, "next") /\ UNCHANGED bytes
    BY DEF Take
  <1>2. Cleaning(w) /\ worker[w] \in Cycle
    BY DEF MediaInv, Types
  <1>3. crashes' \in 0 .. MaxCrashes
    BY DEF MediaInv, Types
  <1> DEFINE rest(i) == [worker[w] EXCEPT !.todo = @ \ {i}]
             onward(i) == [rest(i) EXCEPT !.item = i, !.step = "storage"]
             marks(i) == Current(w) = "expired" /\ i[2] = "available"
  <1>4. PICK i \in worker[w].todo :
          \/ /\ marks(i) /\ i[1] \notin Held /\ RowFree(i[1]) /\ State(i[1]) = "available"
             /\ Becomes(i[1], "deletion_pending") /\ Work(w, onward(i))
          \/ Work(w, rest(i)) /\ UNCHANGED <<media, order>>
          \/ ~marks(i) /\ Work(w, onward(i)) /\ UNCHANGED <<media, order>>
    BY DEF Take
  <1>5. i \in Items /\ i[1] \in Media
    <2>1. i \in Items
      BY <1>2, <1>4 DEF Cycle
    <2> QED BY <2>1 DEF Items
  <1>6. worker[w].sweep \in 1 .. 4
    <2>1. worker[w].sweep \in 0 .. 4
      BY <1>2 DEF Cycle, Sweeps
    <2>2. worker[w].sweep # 0
      BY <1>4, RestingIs DEF MediaInv, AtRest
    <2> QED BY <2>1, <2>2
  <1>7. Current(w) = "expired" <=> worker[w].sweep = 1
    BY <1>6, CurrentIs
  <1>8. /\ worker[w].sweep = 1 => i[2] \in {"available", "deletion_pending"}
        /\ worker[w].sweep \in {1, 3} => Known(i[1], i[2])
    BY <1>2, <1>4 DEF Cleaning
  <1>9. CASE Work(w, rest(i)) /\ UNCHANGED <<media, order>>
    <2> DEFINE t == rest(i)
    <2>1. /\ t \in Cycle /\ t.sweep = worker[w].sweep /\ t.todo = worker[w].todo \ {i}
          /\ t.item = worker[w].item /\ t.step = "next"
      BY <1>1, <1>2 DEF Cycle, Now
    <2>2. Work(w, t)
      BY <1>9
    <2> HIDE DEF t
    <2>3. /\ worker' \in [Workers -> Cycle] /\ worker'[w] = t
          /\ \A v \in Workers \ {w} : worker'[v] = worker[v]
      BY <2>1, <2>2, WorkIs
    <2>4. /\ media' \in [Media -> Record] /\ bytes' \in [Media -> Contents] /\ InOrder'
          /\ \A m \in Media : /\ media'[m].key = media[m].key
                              /\ media'[m].state = "none" <=> State(m) = "none"
          /\ \A m \in Media : Lawful(m)
          /\ \A q \in Requests : Respects(q)
      BY <1>1, <1>9, NothingMoves
    <2>5. Cleaning(w)'
      BY <2>1, <2>3, <2>4, TodoStays DEF Cleaning
    <2>6. worker'[w].sweep # 0
      BY <1>6, <2>1, <2>3
    <2> QED BY <1>3, <2>3, <2>4, <2>5, <2>6, WorkerKeeps
  <1>10. ASSUME Work(w, onward(i)),
                media' \in [Media -> Record], bytes' \in [Media -> Contents], InOrder',
                \A m \in Media : /\ media'[m].key = media[m].key
                                 /\ media'[m].state = "none" <=> State(m) = "none",
                \A m \in Media : Lawful(m),
                \A q \in Requests : Respects(q),
                worker[w].sweep = 1 => media'[i[1]].state \in {"deletion_pending", "deleted"}
         PROVE  MediaInv'
    <2> DEFINE t == onward(i)
    <2>1. /\ t \in Cycle /\ t.sweep = worker[w].sweep /\ t.todo = worker[w].todo \ {i}
          /\ t.item = i /\ t.step = "storage"
      BY <1>2, <1>5 DEF Cycle
    <2>2. Work(w, t)
      BY <1>10
    <2> HIDE DEF t
    <2>3. /\ worker' \in [Workers -> Cycle] /\ worker'[w] = t
          /\ \A v \in Workers \ {w} : worker'[v] = worker[v]
      BY <2>1, <2>2, WorkIs
    <2>4. worker[w].sweep = 3 => Known(i[1], i[2])'
      BY <1>5, <1>8, <1>10, KnownStays
    <2>5. Cleaning(w)'
      BY <1>5, <1>6, <1>10, <2>1, <2>3, <2>4, TodoStays DEF Cleaning, State
    <2>6. worker'[w].sweep # 0
      BY <1>6, <2>1, <2>3
    <2> QED BY <1>1, <1>3, <1>10, <2>3, <2>5, <2>6, WorkerKeeps
  <1>11. CASE ~marks(i) /\ Work(w, onward(i)) /\ UNCHANGED <<media, order>>
    <2>1. worker[w].sweep = 1 => media'[i[1]].state \in {"deletion_pending", "deleted"}
      BY <1>7, <1>8, <1>11 DEF Known, State
    <2>2. /\ media' \in [Media -> Record] /\ bytes' \in [Media -> Contents] /\ InOrder'
          /\ \A m \in Media : /\ media'[m].key = media[m].key
                              /\ media'[m].state = "none" <=> State(m) = "none"
          /\ \A m \in Media : Lawful(m)
          /\ \A q \in Requests : Respects(q)
      BY <1>1, <1>11, NothingMoves
    <2> QED BY <1>10, <1>11, <2>1, <2>2
  <1>12. CASE /\ RowFree(i[1]) /\ State(i[1]) = "available"
              /\ Becomes(i[1], "deletion_pending") /\ Work(w, onward(i))
    <2>1. "deletion_pending" \in States /\ <<State(i[1]), "deletion_pending">> \in Lifecycle
      BY <1>12 DEF States, Lifecycle
    <2>2. /\ media' \in [Media -> Record] /\ bytes' \in [Media -> Contents] /\ InOrder'
          /\ media'[i[1]].state = "deletion_pending"
          /\ \A m \in Media : /\ media'[m].key = media[m].key
                              /\ media'[m].state = "none" <=> State(m) = "none"
          /\ \A m \in Media : Lawful(m)
          /\ \A q \in Requests : ~HoldsRow(q, i[1]) => Respects(q)
      BY <1>1, <1>5, <1>12, <2>1, StateMoves
    <2>3. \A q \in Requests : Respects(q)
      BY <1>12, <2>2 DEF RowFree
    <2> QED BY <1>10, <1>12, <2>2, <2>3
  <1> QED BY <1>4, <1>9, <1>11, <1>12

\* The end of an item: what was seen in the storage is still so, or the record
\* is no longer one whose bytes matter.
LEMMA ResolveKeeps ==
    ASSUME MediaInv, NEW w \in Workers, Resolve(w), UNCHANGED <<claims, txn, crashes>>
    PROVE  MediaInv' /\ \A m \in Media : Lawful(m)
  <1> DEFINE m == Item(w)
             from == Resolution(w)[1]
             s == Resolution(w)[2]
  <1>1. /\ Now(w, "finish") /\ RowFree(m) /\ Drop(w) /\ UNCHANGED bytes
        /\ worker[w].step # "next"
    BY DEF Resolve, Now
  <1>2. Cleaning(w) /\ worker[w] \in Cycle
    BY DEF MediaInv, Types
  <1>3. m \in Media /\ worker[w].sweep \in {1, 2, 3}
    BY <1>1, <1>2 DEF Cleaning, Items, Item, Now
  <1>4. CASE UNCHANGED <<media, order>>
    BY <1>1, <1>4, NothingMoves, DropKeeps
  <1>5. CASE State(m) = from /\ Becomes(m, s)
    <2>1. /\ Current(w) = "expired" <=> worker[w].sweep = 1
          /\ Current(w) = "stale" <=> worker[w].sweep = 2
          /\ Current(w) = "missing" <=> worker[w].sweep = 3
      BY <1>3, CurrentIs
    <2>2. worker[w].sweep \in {1, 3} /\ State(m) \in Completed => bytes[m] = "none"
      BY <1>1, <1>2 DEF Cleaning, Item, Now
    <2>3. worker[w].sweep = 3 => Was(w) \in Reconcilable
      BY <1>1, <1>2 DEF Cleaning, Known, Was
    <2>4. \/ /\ worker[w].sweep = 2 /\ from = "uploading" /\ s = "failed"
          \/ /\ worker[w].sweep \in {1, 3} /\ from = "deletion_pending" /\ s = "deleted"
          \/ /\ worker[w].sweep = 3 /\ from = Was(w) /\ from # "deletion_pending" /\ s = "failed"
      <3>1. CASE worker[w].sweep = 1
        BY <2>1, <3>1 DEF Resolution
      <3>2. CASE worker[w].sweep = 2
        BY <2>1, <3>2 DEF Resolution
      <3>3. CASE worker[w].sweep = 3
        BY <2>1, <3>3 DEF Resolution
      <3> QED BY <1>3, <3>1, <3>2, <3>3
    <2>5. /\ s \in States /\ s # "none" /\ State(m) # "none"
          /\ <<State(m), s>> \in Lifecycle
          /\ State(m) \in Completed /\ s \in {"failed", "deleted"} => bytes[m] = "none"
          /\ s # "available"
      BY <1>5, <2>2, <2>3, <2>4 DEF States, Lifecycle, Completed, Reconcilable
    <2> HIDE DEF m, s, from
    <2>6. /\ media' \in [Media -> Record] /\ bytes' \in [Media -> Contents] /\ InOrder'
          /\ \A n \in Media : /\ media'[n].key = media[n].key
                              /\ media'[n].state = "none" <=> State(n) = "none"
          /\ \A n \in Media : Lawful(n)
          /\ \A q \in Requests : ~HoldsRow(q, m) => Respects(q)
      BY <1>1, <1>3, <1>5, <2>5, StateMoves
    <2>7. \A q \in Requests : Respects(q)
      BY <1>1, <2>6 DEF RowFree
    <2> QED BY <1>1, <2>6, <2>7, DropKeeps
  <1> QED BY <1>4, <1>5 DEF Resolve

LEMMA WorkerStep ==
    ASSUME MediaInv, NEW w \in Workers, Maintain(w)
    PROVE  MediaInv' /\ \A m \in Media : Lawful(m)
  <1>1. UNCHANGED <<claims, txn>>
    BY DEF Maintain
  <1>2. CASE Crash(w)
    <2>1. crashes' \in 0 .. MaxCrashes
      BY <1>2, MediaNumbers DEF Crash, MediaInv, Types
    <2>2. Work(w, Resting) /\ UNCHANGED <<media, order, bytes>>
      BY <1>2 DEF Crash
    <2> QED BY <1>1, <2>1, <2>2, RestKeeps
  <1>3. CASE StoreFails(w) /\ UNCHANGED crashes
    <2>1. Drop(w) /\ worker[w].step # "next" /\ UNCHANGED <<media, order, bytes>>
      BY <1>3 DEF StoreFails, Now
    <2> QED BY <1>1, <1>3, <2>1, NothingMoves, DropKeeps
  <1>4. CASE Cleans(w) /\ UNCHANGED crashes
    <2>1. CASE Rest(w)
      <3>1. crashes' \in 0 .. MaxCrashes
        BY <1>4 DEF MediaInv, Types
      <3>2. Work(w, Resting) /\ UNCHANGED <<media, order, bytes>>
        BY <2>1 DEF Rest
      <3> QED BY <1>1, <3>1, <3>2, RestKeeps
    <2> QED BY <1>1, <1>4, <2>1, SweepKeeps, TakeKeeps, StoreKeeps, ResolveKeeps DEF Cleans
  <1> QED BY <1>2, <1>3, <1>4 DEF Maintain

-----------------------------------------------------------------------------
(* Clients and time.                                                       *)

\* Nobody acts: what changes of a record is that its time has come.
LEMMA TimePasses ==
    ASSUME MediaInv, UNCHANGED <<order, claims, txn, worker, crashes>>,
           media' \in [Media -> Record], bytes' \in [Media -> Contents],
           \A m \in Media : /\ media'[m].key = media[m].key
                            /\ media'[m].state = State(m),
           \A m \in Media : Lawful(m)
    PROVE  MediaInv'
  <1>1. Types' /\ AtRest'
    BY DEF MediaInv, Types, AtRest
  <1>2. InOrder'
    <2>1. Registered' = Registered
      BY RegisteredStays
    <2> QED BY <2>1 DEF MediaInv, InOrder
  <1>3. \A q \in Requests : Respects(q)
    BY DEF Respects
  <1>4. \A q \in Requests : Requested(q)'
    BY <1>3, OthersRequested
  <1>5. \A w \in Workers : Cleaning(w)'
    BY OthersCleaning
  <1>6. KeysAreKept' /\ OneMediaPerKey'
    BY KeysStay
  <1> QED BY <1>1, <1>2, <1>4, <1>5, <1>6, GoodStays DEF MediaInv

LEMMA PassesKeeps ==
    ASSUME MediaInv, NEW m \in Media, Passes(m)
    PROVE  MediaInv' /\ \A n \in Media : Lawful(n)
  <1>1. UNCHANGED <<order, claims, txn, worker, crashes>>
    BY DEF Passes, Put, Settle, Expire
  <1>2. CASE Put(m)
    <2>1. PICK b \in Contents \ {"none"} : bytes' = [bytes EXCEPT ![m] = b]
      BY <1>2 DEF Put
    <2>2. UNCHANGED media /\ State(m) \in {"uploading", "failed", "deleted"}
      BY <1>2 DEF Put
    <2>3. /\ media' \in [Media -> Record] /\ bytes' \in [Media -> Contents]
          /\ \A n \in Media : Lawful(n)
      BY <1>1, <2>1, <2>2, BytesMove
    <2> QED BY <1>1, <2>2, <2>3, TimePasses DEF State
  <1>3. CASE Settle(m) \/ Expire(m)
    <2>1. \/ media' = [media EXCEPT ![m].settled = TRUE]
          \/ media' = [media EXCEPT ![m].expired = TRUE]
      BY <1>3 DEF Settle, Expire
    <2>2. UNCHANGED bytes
      BY <1>3 DEF Settle, Expire
    <2>3. /\ media' \in [Media -> Record]
          /\ \A n \in Media : /\ media'[n].key = media[n].key
                              /\ media'[n].state = State(n)
      <3> DEFINE x == [media[m] EXCEPT !.settled = TRUE]
                 y == [media[m] EXCEPT !.expired = TRUE]
      <3>1. media \in [Media -> Record] /\ media[m] \in Record
        BY DEF MediaInv, Types
      <3>2. /\ x \in Record /\ x.key = media[m].key /\ x.state = media[m].state
            /\ y \in Record /\ y.key = media[m].key /\ y.state = media[m].state
        BY <3>1 DEF Record
      <3>3. \/ media' = [media EXCEPT ![m] = x]
            \/ media' = [media EXCEPT ![m] = y]
        BY <2>1, <3>1
      <3> HIDE DEF x, y
      <3> QED BY <3>1, <3>2, <3>3 DEF State
    <2>4. \A n \in Media : Lawful(n)
      BY <2>2, <2>3 DEF MediaInv, AvailableWasVerified, Lawful, State
    <2>5. bytes' \in [Media -> Contents]
      BY <2>2 DEF MediaInv, Types
    <2> QED BY <1>1, <2>3, <2>4, <2>5, TimePasses
  <1> QED BY <1>2, <1>3 DEF Passes

-----------------------------------------------------------------------------
LEMMA InitMedia == Init => MediaInv
  <1> SUFFICES ASSUME Init PROVE MediaInv
    OBVIOUS
  <1>1. /\ NoRecord \in Record /\ NoRecord.state = "none" /\ "none" \in Contents
    BY DEF NoRecord, Record, States, Contents
  <1>2. Types
    BY <1>1, IdleIs, RestingIs, MediaNumbers DEF Init, Types
  <1>3. \A m \in Media : State(m) = "none"
    BY <1>1 DEF Init, State
  <1>4. InOrder /\ KeysAreKept /\ AvailableWasVerified
    BY <1>3 DEF Init, InOrder, Registered, KeysAreKept, AvailableWasVerified
  <1>5. \A r \in Requests : txn[r] = Idle /\ Requested(r)
    BY IdleIs DEF Init, Requested
  <1>6. \A w \in Workers : worker[w] = Resting /\ Cleaning(w)
    BY RestingIs DEF Init, Cleaning
  <1>7. OneMediaPerKey
    BY <1>3, <1>5, IdleIs DEF OneMediaPerKey, At
  <1> QED BY <1>2, <1>4, <1>5, <1>6, <1>7 DEF MediaInv, AtRest

LEMMA NextMedia ==
    ASSUME MediaInv, [Next]_mediaVars
    PROVE  MediaInv' /\ \A m \in Media : Lawful(m)
  <1>1. CASE UNCHANGED mediaVars
    <2>1. UNCHANGED <<media, order, bytes>> /\ UNCHANGED <<claims, txn, worker, crashes>>
      BY <1>1 DEF mediaVars
    <2>2. /\ media' \in [Media -> Record] /\ bytes' \in [Media -> Contents]
          /\ \A m \in Media : Lawful(m)
      BY <2>1, NothingMoves
    <2> QED BY <2>1, <2>2, TimePasses DEF State
  <1>2. CASE Next
    BY <1>2, ArriveKeeps, RequestStep, WorkerStep, PassesKeeps DEF Next
  <1> QED BY <1>1, <1>2

-----------------------------------------------------------------------------
\* Every variable has its type, a request and a worker at rest keep nothing, and
\* the records are in one order.
THEOREM TypeCorrect == Spec => []MediaTypeOK
  BY InitMedia, NextMedia, TypesAre, PTL DEF Spec

\* However requests with one idempotency key overlap, fail and are repeated, one
\* at a time registers a media, none when that is done, and the key leads to it.
THEOREM OneMedia == Spec => []OneMediaPerKey
  <1>1. MediaInv => OneMediaPerKey
    BY DEF MediaInv
  <1> QED BY InitMedia, NextMedia, <1>1, PTL DEF Spec

\* The committed states follow the lifecycle and are true of the bytes, whatever
\* is uploaded, erased, swept, aborted or lost on the way.
THEOREM LifecycleIsFollowed == Spec => FollowsMediaLifecycle
  <1> DEFINE Step ==
        /\ AvailableWasVerified'
        /\ \A m \in Media :
             LET was == State(m)
                 is == media'[m].state
             IN is # was =>
                  /\ <<was, is>> \in
                       {<<"none", "uploading">>, <<"uploading", "uploaded">>,
                        <<"uploaded", "available">>, <<"available", "deletion_pending">>}
                       \cup ({"uploading", "uploaded", "available"} \X {"failed"})
                       \cup ((States \ {"none", "deleted"}) \X {"deleted"})
                  /\ (was \in Completed /\ is \in {"failed", "deleted"}) => bytes'[m] = "none"
  <1>1. MediaInv /\ [Next]_mediaVars => [Step]_mediaVars
    <2> SUFFICES ASSUME MediaInv, [Next]_mediaVars PROVE Step
      OBVIOUS
    <2>1. AvailableWasVerified' /\ \A m \in Media : Lawful(m)
      BY NextMedia DEF MediaInv
    <2> QED BY <2>1, Zenon DEF Lawful, Lifecycle
  <1>2. Init => MediaInv
    BY InitMedia
  <1>3. MediaInv /\ [Next]_mediaVars => MediaInv'
    BY NextMedia
  <1>4. FollowsMediaLifecycle <=> [][Step]_mediaVars
    BY DEF FollowsMediaLifecycle
  <1> HIDE DEF Step
  <1> QED BY <1>1, <1>2, <1>3, <1>4, PTL DEF Spec

-----------------------------------------------------------------------------
(* Bytes.  What an actor is about to erase is terminal or due, and stays   *)
(* so until it does: no state leads back from there.                       *)

\* What a deletion, by a request or by the worker, rests on.
Permits ==
    /\ \A m \in Media : State(m) = "none" => bytes[m] = "none"
    /\ \A m \in Media : State(m) = "deletion_pending" => m \notin Held
    /\ \A r \in Requests : txn[r].op = "delete" => txn[r].media \notin Held
    /\ \A w \in Workers : worker[w].sweep = 4 =>
         /\ \A i \in worker[w].todo : State(i[1]) # "none"
         /\ worker[w].step # "next" => State(worker[w].item[1]) \in {"failed", "deleted"}

\* A record does not vanish nor come back, and has no bytes before it is there.
LEMMA RecordsStay ==
    ASSUME NEW m \in Media, Lawful(m)
    PROVE  /\ State(m) # "none" => media'[m].state # "none"
           /\ State(m) \in {"failed", "deleted"} => media'[m].state \in {"failed", "deleted"}
           /\ media'[m].state = "none" /\ bytes[m] = "none" => bytes'[m] = "none"
  BY DEF Lawful, Lifecycle, States, State

\* The states after a transition.
LEMMA BecomesOnly ==
    ASSUME MediaInv, NEW n \in Media, NEW s, Becomes(n, s), NEW m \in Media
    PROVE  media'[m].state = IF m = n THEN s ELSE State(m)
  <1> DEFINE x == [media[n] EXCEPT !.state = s, !.settled = FALSE,
                     !.expired = @ /\ s \in {"available", "deletion_pending"}]
  <1>1. media \in [Media -> Record]
    BY DEF MediaInv, Types
  <1>2. media' = [media EXCEPT ![n] = x]
    BY <1>1 DEF Becomes
  <1>3. x.state = s
    BY <1>1 DEF Record
  <1> HIDE DEF x
  <1> QED BY <1>1, <1>2, <1>3 DEF State

\* Only the expiry sweep marks a record for deletion, and never one on hold.
LEMMA MarksAreDue ==
    ASSUME MediaInv, Next, NEW m \in Media,
           media'[m].state = "deletion_pending", State(m) # "deletion_pending"
    PROVE  m \notin Held
  <1>1. media' # media
    BY DEF State
  <1>2. ASSUME NEW r \in Requests, Arrive(r) PROVE FALSE
    BY <1>1, <1>2 DEF Arrive, BeginInitiate, BeginComplete, BeginAbort, BeginVerify,
                      BeginDelete, BeginOn, Begin
  <1>3. ASSUME NEW r \in Requests, Request(r) PROVE FALSE
    <2>1. CASE Register(r)
      <3>1. PICK n \in Media : media' = [media EXCEPT ![n] =
                [NoRecord EXCEPT !.state = "uploading", !.key = txn[r].key]]
        BY <2>1 DEF Register
      <3>2. media \in [Media -> Record]
        BY DEF MediaInv, Types
      <3>3. [NoRecord EXCEPT !.state = "uploading", !.key = txn[r].key].state = "uploading"
        BY DEF NoRecord
      <3> DEFINE x == [NoRecord EXCEPT !.state = "uploading", !.key = txn[r].key]
      <3> HIDE DEF x
      <3>4. media'[m].state = IF m = n THEN x.state ELSE media[m].state
        BY <3>1, <3>2 DEF x
      <3> QED BY <3>3, <3>4 DEF x, State
    <2>2. CASE FinishUpload(r) \/ Finish(r)
      <3>1. txn[r].media \in Media
        BY <2>2 DEF FinishUpload, Finish, At, MediaInv, Requested
      <3>2. PICK s \in {"uploaded", "failed", "available", "deleted"} :
              Becomes(txn[r].media, s)
        BY <1>1, <2>2 DEF FinishUpload, Finish, Leave, Outcome
      <3> QED BY <3>1, <3>2, BecomesOnly
    <2> QED BY <1>1, <1>3, <2>1, <2>2
            DEF Request, Contend, Proceed, ClaimKey, Mark, HeadObject, Cleanup, Inspect,
                Reject, Erase, Abandon, Leave
  <1>4. ASSUME NEW w \in Workers, Maintain(w) PROVE m \notin Held
    <2>1. CASE Take(w)
      <3>1. PICK n \in Media : n \notin Held /\ Becomes(n, "deletion_pending")
        <4>1. PICK i \in worker[w].todo : i[1] \notin Held /\ Becomes(i[1], "deletion_pending")
          BY <1>1, <2>1 DEF Take
        <4>2. i[1] \in Media
          BY <4>1 DEF MediaInv, Types, Cycle, Items
        <4> QED BY <4>1, <4>2
      <3>2. m = n
        BY <3>1, BecomesOnly
      <3> QED BY <3>1, <3>2
    <2>2. CASE Resolve(w)
      <3>1. Item(w) \in Media /\ Becomes(Item(w), Resolution(w)[2])
        BY <1>1, <2>2 DEF Resolve, MediaInv, Cleaning, Now, Items, Item
      <3>2. Resolution(w)[2] \in {"failed", "deleted"}
        BY DEF Resolution
      <3> QED BY <3>1, <3>2, BecomesOnly
    <2> QED BY <1>1, <1>4, <2>1, <2>2
            DEF Maintain, Cleans, Sweep, Rest, Store, StoreFails, Crash
  <1>5. ASSUME NEW n \in Media, Passes(n) PROVE FALSE
    <2>1. media \in [Media -> Record]
      BY DEF MediaInv, Types
    <2>2. \/ media' = [media EXCEPT ![n].settled = TRUE]
          \/ media' = [media EXCEPT ![n].expired = TRUE]
      BY <1>1, <1>5 DEF Passes, Put, Settle, Expire
    <2>3. media'[m].state = media[m].state
      BY <2>1, <2>2 DEF Record
    <2> QED BY <2>3 DEF State
  <1> QED BY <1>2, <1>3, <1>4, <1>5 DEF Next

\* A request deletes what was not on hold when it came.
LEMMA DeletionsAreFree ==
    ASSUME MediaInv, Permits, Next, NEW q \in Requests, txn'[q].op = "delete"
    PROVE  txn'[q].media \notin Held
  <1>1. txn \in [Requests -> Txn] /\ (txn[q].op = "delete" => txn[q].media \notin Held)
    BY DEF MediaInv, Types, Permits
  <1>2. ASSUME NEW r \in Requests, NEW t, txn' = [txn EXCEPT ![r] = t],
               t.op = "delete" => t.media \notin Held
        PROVE  txn'[q].media \notin Held
    BY <1>1, <1>2
  <1>3. ASSUME NEW r \in Requests, Arrive(r) PROVE txn'[q].media \notin Held
    <2>1. CASE \E k \in Keys : BeginInitiate(r, k)
      <3>1. PICK k \in Keys : txn' = [txn EXCEPT ![r] =
                                 [Idle EXCEPT !.op = "initiate", !.key = k, !.pc = "claim"]]
        BY <2>1 DEF BeginInitiate, Begin
      <3>2. [Idle EXCEPT !.op = "initiate", !.key = k, !.pc = "claim"].op # "delete"
        BY DEF Idle
      <3> QED BY <1>2, <3>1, <3>2
    <2>2. ASSUME NEW m \in Media, NEW op, NEW pc, BeginOn(r, op, m, pc),
                 op = "delete" => m \notin Held
          PROVE  txn'[q].media \notin Held
      <3> DEFINE t == [Idle EXCEPT !.op = op, !.pc = pc, !.media = m, !.seen = State(m)]
      <3>1. t.op = op /\ t.media = m
        BY DEF Idle
      <3>2. txn' = [txn EXCEPT ![r] = t]
        BY <2>2 DEF BeginOn, Begin
      <3> HIDE DEF t
      <3> QED BY <1>2, <2>2, <3>1, <3>2
    <2> QED BY <1>3, <2>1, <2>2
            DEF Arrive, BeginComplete, BeginAbort, BeginVerify, BeginDelete
  <1>4. ASSUME NEW r \in Requests, Request(r) PROVE txn'[q].media \notin Held
    <2>1. \/ txn' = [txn EXCEPT ![r] = Idle]
          \/ \E pc : txn' = [txn EXCEPT ![r].pc = pc]
          \/ txn' = [txn EXCEPT ![r].pc = "storage", ![r].seen = "none"]
      BY <1>4, Zenon DEF Request, Contend, Proceed, ClaimKey, FinishUpload, Mark, Finish,
             Register, HeadObject, Cleanup, Inspect, Reject, Erase, Abandon, Leave, End, Goto
    <2>2. CASE txn' = [txn EXCEPT ![r] = Idle]
      BY <1>2, <2>2, IdleIs
    <2>3. CASE \E pc : txn' = [txn EXCEPT ![r].pc = pc]
      BY <1>1, <2>3 DEF Txn
    <2>4. CASE txn' = [txn EXCEPT ![r].pc = "storage", ![r].seen = "none"]
      BY <1>1, <2>4 DEF Txn
    <2> QED BY <2>1, <2>2, <2>3, <2>4
  <1>5. CASE UNCHANGED txn
    BY <1>1, <1>5
  <1> QED BY <1>3, <1>4, <1>5 DEF Next, Maintain, Passes, Put, Settle, Expire

\* The orphan sweep has objects of records in hand, and when it turns to one the
\* record is terminal.
LEMMA OrphansAre ==
    ASSUME MediaInv, Permits, NEW w \in Workers, Maintain(w), worker'[w].sweep = 4,
           \A m \in Media : Lawful(m)
    PROVE  /\ \A i \in worker'[w].todo : media'[i[1]].state # "none"
           /\ worker'[w].step # "next" =>
                media'[worker'[w].item[1]].state \in {"failed", "deleted"}
  <1> DEFINE c == worker[w]
  <1>1. worker \in [Workers -> Cycle] /\ c \in Cycle /\ Cleaning(w)
    BY DEF MediaInv, Types
  <1>2. /\ \A i \in c.todo : i \in Items /\ i[1] \in Media
        /\ c.step # "next" => c.item[1] \in Media
    BY <1>1 DEF Cycle, Items, Cleaning
  <1>3. ASSUME c.sweep = 4, worker'[w].todo \subseteq c.todo,
               worker'[w].step = "next" \/ (worker'[w].item = c.item /\ c.step # "next")
        PROVE  /\ \A i \in worker'[w].todo : media'[i[1]].state # "none"
               /\ worker'[w].step # "next" =>
                    media'[worker'[w].item[1]].state \in {"failed", "deleted"}
    BY <1>2, <1>3, RecordsStay DEF Permits
  <1>4. ASSUME NEW t, Work(w, t) PROVE worker'[w] = t
    BY <1>1, <1>4 DEF Work
  <1>5. CASE Drop(w) /\ c.step # "next"
    <2>1. worker'[w] = [c EXCEPT !.item = None, !.step = "next"]
      BY <1>4, <1>5 DEF Drop
    <2>2. /\ worker'[w].sweep = c.sweep /\ worker'[w].todo = c.todo
          /\ worker'[w].step = "next"
      BY <1>1, <2>1 DEF Cycle
    <2> QED BY <1>3, <2>2
  <1>6. CASE WorkStep(w, "finish") /\ c.step # "next"
    <2>1. worker'[w] = [c EXCEPT !.step = "finish"]
      BY <1>4, <1>6 DEF WorkStep
    <2>2. /\ worker'[w].sweep = c.sweep /\ worker'[w].todo = c.todo
          /\ worker'[w].item = c.item
      BY <1>1, <2>1 DEF Cycle
    <2> QED BY <1>3, <1>6, <2>2
  <1>7. CASE Work(w, Resting)
    BY <1>4, <1>7, RestingIs
  <1>8. ASSUME NEW n \in DOMAIN Sweeps, Sweep(w, n)
        PROVE  /\ \A i \in worker'[w].todo : media'[i[1]].state # "none"
               /\ worker'[w].step = "next"
    <2>1. n \in 1 .. 4 /\ UNCHANGED media
      BY <1>8 DEF Sweeps, Sweep
    <2>2. PICK B \in Candidates(Sweeps[n]) :
            worker'[w] = [Resting EXCEPT !.sweep = n, !.todo = Listed(n, B)]
      BY <1>4, <1>8 DEF Sweep
    <2>3. /\ worker'[w].sweep = n /\ worker'[w].todo = Listed(n, B)
          /\ worker'[w].step = "next"
      BY <2>2 DEF Resting
    <2>4. \A m \in B : m \in Media /\ bytes[m] # "none"
      BY <2>1, <2>3, CandidatesAre
    <2>5. \A i \in Listed(n, B) : i[1] \in B
      BY DEF Listed
    <2> QED BY <2>1, <2>3, <2>4, <2>5 DEF Permits, State
  <1>9. CASE Take(w)
    <2> DEFINE rest(i) == [c EXCEPT !.todo = @ \ {i}]
               onward(i) == [rest(i) EXCEPT !.item = i, !.step = "storage"]
    <2>1. PICK i \in c.todo :
            \/ worker'[w] = rest(i)
            \/ /\ worker'[w] = onward(i)
               /\ Current(w) = "orphan" => Orphan(i[1]) /\ UNCHANGED media
      BY <1>4, <1>9, Zenon DEF Take
    <2>2. c.step = "next"
      BY <1>9 DEF Take, Now
    <2>3. CASE worker'[w] = rest(i)
      <3>1. /\ worker'[w].sweep = c.sweep /\ worker'[w].todo = c.todo \ {i}
            /\ worker'[w].step = "next"
        BY <1>1, <2>2, <2>3 DEF Cycle
      <3> QED BY <1>3, <3>1
    <2>4. CASE /\ worker'[w] = onward(i)
               /\ Current(w) = "orphan" => Orphan(i[1]) /\ UNCHANGED media
      <3>1. /\ worker'[w].sweep = c.sweep /\ worker'[w].todo = c.todo \ {i}
            /\ worker'[w].item = i
        BY <1>1, <2>4 DEF Cycle
      <3>2. Current(w) = "orphan" /\ c.sweep = 4
        BY <3>1, CurrentIs
      <3>3. State(i[1]) \in {"failed", "deleted"} /\ UNCHANGED media
        BY <2>4, <3>2 DEF Orphan, Permits
      <3> QED BY <1>2, <3>1, <3>2, <3>3 DEF Permits, State
    <2> QED BY <2>1, <2>3, <2>4
  <1>10. CASE Store(w)
    <2>1. Drop(w) \/ WorkStep(w, "finish")
      BY <1>10 DEF Store
    <2>2. c.step # "next"
      BY <1>10 DEF Store, Now
    <2> QED BY <1>5, <1>6, <2>1, <2>2
  <1>11. CASE StoreFails(w) \/ Resolve(w)
    BY <1>5, <1>11 DEF StoreFails, Resolve, Now
  <1> QED BY <1>7, <1>8, <1>9, <1>10, <1>11 DEF Maintain, Cleans, Rest, Crash

LEMMA NextPermits ==
    ASSUME MediaInv, Permits, [Next]_mediaVars
    PROVE  Permits'
  <1>1. CASE UNCHANGED mediaVars
    BY <1>1 DEF mediaVars, Permits, State
  <1>2. CASE Next
    <2>1. \A m \in Media : Lawful(m)
      BY <1>2, NextMedia
    <2>2. \A m \in Media : State(m)' = "none" => bytes'[m] = "none"
      BY <2>1, RecordsStay DEF Permits, State
    <2>3. \A m \in Media : State(m)' = "deletion_pending" => m \notin Held
      BY <1>2, MarksAreDue DEF Permits, State
    <2>4. \A r \in Requests : txn'[r].op = "delete" => txn'[r].media \notin Held
      BY <1>2, DeletionsAreFree
    <2>5. ASSUME NEW w \in Workers, worker'[w].sweep = 4
          PROVE  /\ \A i \in worker'[w].todo : media'[i[1]].state # "none"
                 /\ worker'[w].step # "next" =>
                      media'[worker'[w].item[1]].state \in {"failed", "deleted"}
      <3>1. CASE Maintain(w)
        BY <2>1, <2>5, <3>1, OrphansAre
      <3>2. CASE worker'[w] = worker[w]
        <4>1. worker[w] \in Cycle /\ Cleaning(w) /\ worker[w].sweep = 4
          BY <2>5, <3>2 DEF MediaInv, Types
        <4>2. /\ \A i \in worker[w].todo : i[1] \in Media
              /\ worker[w].step # "next" => worker[w].item[1] \in Media
          BY <4>1 DEF Cleaning, Cycle, Items
        <4>3. /\ \A i \in worker[w].todo : State(i[1]) # "none"
              /\ worker[w].step # "next" => State(worker[w].item[1]) \in {"failed", "deleted"}
          BY <4>1 DEF Permits
        <4> QED BY <2>1, <3>2, <4>2, <4>3, RecordsStay
      <3>3. worker \in [Workers -> Cycle]
        BY DEF MediaInv, Types
      <3>4. ASSUME NEW v \in Workers, Maintain(v), v # w PROVE worker'[w] = worker[w]
        <4>1. \E t : Work(v, t)
          BY <3>4 DEF Maintain, Cleans, Sweep, Rest, Take, Store, Resolve, StoreFails, Crash,
                      Drop, WorkStep
        <4> QED BY <3>3, <3>4, <4>1 DEF Work
      <3>5. CASE UNCHANGED worker
        BY <3>2, <3>5
      <3>6. UNCHANGED worker \/ \E v \in Workers : Maintain(v)
        BY <1>2 DEF Next, Arrive, BeginInitiate, BeginComplete, BeginAbort, BeginVerify,
                    BeginDelete, BeginOn, Begin, Request, Passes, Put, Settle, Expire
      <3> QED BY <3>1, <3>2, <3>4, <3>5, <3>6
    <2> QED BY <2>2, <2>3, <2>4, <2>5 DEF Permits, State
  <1> QED BY <1>1, <1>2

\* Who may take away the bytes of m.
MayErase(m) ==
    \/ State(m) \in {"failed", "deleted"}
    \/ State(m) = "deletion_pending" /\ m \notin Held
    \/ \E r \in Requests : /\ HoldsRow(r, m)
                           /\ \/ txn[r].op = "abort" /\ State(m) = "uploading"
                              \/ txn[r].op = "delete" /\ m \notin Held
    \/ \E w \in Workers : /\ worker[w].sweep = 2 /\ Now(w, "storage")
                          /\ Item(w) = m

LEMMA ErasesRightly ==
    ASSUME MediaInv, Permits, Next, NEW m \in Media, bytes[m] # "none", bytes'[m] = "none"
    PROVE  MayErase(m)
  <1>1. bytes' # bytes /\ bytes \in [Media -> Contents]
    BY DEF MediaInv, Types
  <1>2. ASSUME NEW r \in Requests, Request(r) PROVE MayErase(m)
    <2> DEFINE n == txn[r].media
    <2>1. Requested(r)
      BY DEF MediaInv
    <2>2. CASE HeadObject(r)
      <3>1. PICK b : /\ bytes' = [bytes EXCEPT ![n] = b]
                     /\ bytes[n] # "none" => b = bytes[n]
        BY <2>2 DEF HeadObject
      <3> QED BY <1>1, <3>1
    <2>3. CASE Cleanup(r)
      <3>1. At(r, "abort", "storage") /\ m = n
        BY <1>1, <2>3 DEF Cleanup
      <3>2. State(m) = "uploading" /\ txn[r].seen = "none"
        BY <2>1, <3>1 DEF Requested, At
      <3>3. HoldsRow(r, m)
        BY <3>1, <3>2 DEF HoldsRow, At
      <3> QED BY <3>1, <3>2, <3>3 DEF MayErase, At
    <2>4. CASE Erase(r)
      <3>1. At(r, "delete", "storage") /\ m = n
        BY <1>1, <2>4 DEF Erase
      <3>2. m \notin Held
        BY <3>1 DEF Permits, At
      <3>3. \/ txn[r].seen = "none"
            \/ State(m) \in {"deletion_pending", "deleted"}
        BY <2>1, <3>1 DEF Requested, At
      <3>4. CASE txn[r].seen = "none"
        BY <3>1, <3>2, <3>4 DEF MayErase, HoldsRow, At
      <3> QED BY <3>2, <3>3, <3>4 DEF MayErase
    <2> QED BY <1>1, <1>2, <2>2, <2>3, <2>4
            DEF Request, Contend, Proceed, ClaimKey, FinishUpload, Mark, Finish, Register,
                Inspect, Reject, Abandon, Leave
  <1>3. ASSUME NEW w \in Workers, Maintain(w) PROVE MayErase(m)
    <2> DEFINE n == Item(w)
    <2>1. Store(w)
      BY <1>1, <1>3 DEF Maintain, Cleans, Sweep, Rest, Take, Resolve, StoreFails, Crash
    <2>2. Now(w, "storage") /\ worker[w].step # "next"
      BY <2>1 DEF Store, Now
    <2>3. Cleaning(w) /\ worker[w] \in Cycle
      BY DEF MediaInv, Types
    <2>4. worker[w].sweep \in 1 .. 4
      BY <2>2, <2>3 DEF Cleaning, Cycle, Sweeps
    <2>5. /\ Current(w) = "expired" <=> worker[w].sweep = 1
          /\ Current(w) = "stale" <=> worker[w].sweep = 2
          /\ Current(w) = "missing" <=> worker[w].sweep = 3
          /\ Current(w) = "orphan" <=> worker[w].sweep = 4
      BY <2>4, CurrentIs
    <2>6. bytes' = [bytes EXCEPT ![n] = "none"] /\ worker[w].sweep \in {1, 2, 4}
      BY <1>1, <2>1, <2>4, <2>5 DEF Store
    <2>7. m = n
      BY <1>1, <2>6
    <2>8. CASE worker[w].sweep = 1
      <3>1. State(m) \in {"deletion_pending", "deleted"}
        BY <2>2, <2>3, <2>7, <2>8 DEF Cleaning, Item
      <3> QED BY <3>1 DEF MayErase, Permits
    <2>9. CASE worker[w].sweep = 2
      BY <2>2, <2>7, <2>9 DEF MayErase
    <2>10. CASE worker[w].sweep = 4
      BY <2>2, <2>7, <2>10 DEF MayErase, Permits, Item
    <2> QED BY <2>6, <2>8, <2>9, <2>10
  <1>4. ASSUME NEW n \in Media, Passes(n) PROVE FALSE
    <2>1. PICK b \in Contents \ {"none"} : bytes' = [bytes EXCEPT ![n] = b]
      BY <1>1, <1>4 DEF Passes, Put, Settle, Expire
    <2> QED BY <1>1, <2>1
  <1>5. ASSUME NEW r \in Requests, Arrive(r) PROVE FALSE
    BY <1>1, <1>5 DEF Arrive, BeginInitiate, BeginComplete, BeginAbort, BeginVerify,
                      BeginDelete, BeginOn, Begin
  <1> QED BY <1>2, <1>3, <1>4, <1>5 DEF Next

\* No bytes are erased under a record that somebody may still rely on, except by the
\* sweep of stale uploads: for any media, requests, workers, holds and crashes.
THEOREM BytesStay == Spec => BytesAreKept
  <1>1. Init => MediaInv /\ Permits
    <2>1. ASSUME Init PROVE Permits
      <3>1. /\ \A m \in Media : State(m) = "none" /\ bytes[m] = "none"
            /\ \A r \in Requests : txn[r] = Idle
            /\ \A w \in Workers : worker[w] = Resting
        BY <2>1 DEF Init, NoRecord, State
      <3> QED BY <3>1, IdleIs, RestingIs DEF Permits
    <2> QED BY <2>1, InitMedia
  <1>2. MediaInv /\ Permits /\ [Next]_mediaVars => (MediaInv /\ Permits)'
    BY NextMedia, NextPermits
  <1> DEFINE Step ==
        \A m \in Media : bytes[m] # "none" /\ bytes'[m] = "none" => MayErase(m)
  <1>3. MediaInv /\ Permits /\ [Next]_mediaVars => [Step]_mediaVars
    BY ErasesRightly
  <1>4. BytesAreKept <=> [][Step]_mediaVars
    BY DEF BytesAreKept, MayErase
  <1> HIDE DEF Step
  <1> QED BY <1>1, <1>2, <1>3, <1>4, PTL DEF Spec
=============================================================================
