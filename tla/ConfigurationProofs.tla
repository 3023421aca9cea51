-------------------------- MODULE ConfigurationProofs --------------------------
(***************************************************************************)
(* Theorems about the versions of a venue's configuration, for any number  *)
(* of requests, versions, entities and tables, and for both kinds of the   *)
(* statement that stores a validation result; in the last part, about the  *)
(* engine that evaluates a published version.                              *)
(***************************************************************************)
EXTENDS ConfigurationLifecycle, SpatialTracking, SequenceTheorems,
        FiniteSetTheorems, WellFoundedInduction, TLAPS

Rows ==
    /\ version \in [Numbers -> Version]
    /\ current \in 0 .. MaxVersions
    /\ announced \in [Numbers -> Nat]

\* A transaction that creates a version and has inserted its row.
Shares(t) == t.op \in {"create", "clone"} /\ t.pc = "commit"

\* A transaction that holds the lock of the row it is about.
Locks(t) ==
    \/ t.op = "validate" /\ t.pc \in {"hydrate", "decide"}
    \/ t.op = "edit" /\ t.result # NoResult
         /\ t.pc \in {"delete", "deleting", "replace", "commit"}

\* What the transaction t relies on: nothing committed since it looked may have
\* taken away what its next write needs.
Sound(t) ==
    /\ t \in Txn
    /\ t.pc = "idle" => t = Idle
    /\ t.op \in {"edit", "validate", "publish"} => t.number \in Created
    /\ t.op = "clone" => t.source \in Created
    /\ t.pc = "hydrate" => t.op \in {"clone", "edit", "validate", "publish"}
    /\ t.op \in {"create", "clone"} /\ t.pc \in {"insert", "commit"} =>
         t.number \in Numbers /\ \A m \in Numbers : m < t.number => m \in Created
    /\ Shares(t) => t.number \notin Created
    /\ t.op = "validate" /\ t.pc \in {"hydrate", "decide"} => Status(t.number) = "draft"
    /\ t.pc = "update" => /\ t.op = "publish" /\ t.previous = current
                          /\ \A m \in Published : m <= t.number

\* What the locks and the unique key keep apart.
Apart(t, u) ==
    /\ ~(t.pc = "update" /\ u.pc = "update")
    /\ t.number = u.number => ~(Shares(t) /\ Shares(u)) /\ ~(Locks(t) /\ Locks(u))

\* The transaction takes part in no exclusion.
Quiet(t) == t.pc # "update" /\ ~Shares(t) /\ ~Locks(t)

\* No number is skipped.
InSequence == \A n \in Created : \A m \in Numbers : m < n => m \in Created

Txns == /\ txn = [r \in Requests |-> txn[r]]
        /\ \A r \in Requests : Sound(txn[r])
        /\ \A q, r \in Requests : q # r => Apart(txn[q], txn[r])

CfgInv == Rows /\ Txns /\ InSequence /\ PublicationsAreSerial

-----------------------------------------------------------------------------
(* Numbers and fields.                                                     *)

LEMMA CfgNumbers ==
    /\ MaxVersions \in Nat \ {0} /\ NumTables \in Nat \ {0}
    /\ Numbers \subseteq Nat /\ 0 \notin Numbers /\ Numbers \subseteq 0 .. MaxVersions
    /\ 0 \in 0 .. MaxVersions /\ 1 \in 1 .. NumTables
    /\ {} \in Contents /\ NoResult \in Contents \cup {NoResult}
    /\ NoResult \notin Contents
    /\ ResultStored \in BOOLEAN
  BY ConfigurationAssumption DEF ConfigurationAssumption, Numbers, Contents

\* What is committed about a version that exists.
LEMMA CreatedRows ==
    ASSUME Rows, NEW n \in Created
    PROVE  /\ n \in Numbers /\ version[n] \in Version
           /\ version[n].content \in Contents
           /\ version[n].result \in Contents \cup {NoResult}
  BY DEF Rows, Created, Version

LEMMA IdleIsSound == Sound(Idle) /\ Quiet(Idle)
  BY CfgNumbers DEF Sound, Quiet, Shares, Locks, Idle, Txn, Ops

LEMMA QuietIsApart == ASSUME NEW t, NEW u, Quiet(t) PROVE Apart(t, u) /\ Apart(u, t)
  BY DEF Quiet, Apart

-----------------------------------------------------------------------------
(* Steps that commit nothing.                                              *)

Nothing == UNCHANGED <<version, current, announced>>

\* A step that changes one transaction, soundly and without entering what
\* another one is in, keeps the invariant.
LEMMA Alone ==
    ASSUME CfgInv, NEW r \in Requests, NEW t, Nothing,
           txn' = [txn EXCEPT ![r] = t], Sound(t),
           \A q \in Requests \ {r} : Apart(t, txn[q])
    PROVE  CfgInv'
  <1>1. Rows' /\ InSequence' /\ PublicationsAreSerial'
    BY DEF CfgInv, Nothing, Rows, InSequence, Created, Status, PublicationsAreSerial,
           PointerIsLatest, ReplacementChain, PublishedOnce, Published
  <1>2. txn' = [q \in Requests |-> IF q = r THEN t ELSE txn[q]]
    BY Zenon DEF CfgInv, Txns
  <1>3. txn' = [q \in Requests |-> txn'[q]]
    BY <1>2, Zenon
  <1>4. ASSUME NEW q \in Requests PROVE Sound(txn'[q])
    BY <1>2 DEF CfgInv, Txns
  <1>5. ASSUME NEW q \in Requests PROVE Sound(txn[q])'
    BY <1>4 DEF Sound, Nothing, Created, Published, Status
  <1>6. ASSUME NEW q \in Requests, NEW p \in Requests, q # p
        PROVE  Apart(txn[q], txn[p])'
    <2>1. Apart(txn'[q], txn'[p])
      <3>1. CASE q = r
        BY <1>2, <1>6, <3>1
      <3>2. CASE p = r
        BY <1>2, <1>6, <3>2 DEF Apart
      <3>3. CASE q # r /\ p # r
        BY <1>2, <1>6, <3>3 DEF CfgInv, Txns
      <3> QED BY <3>1, <3>2, <3>3
    <2> QED BY <2>1 DEF Apart, Shares, Locks
  <1> QED BY <1>1, <1>3, <1>5, <1>6 DEF CfgInv, Txns

\* So do a quiet step and the end of a request.
LEMMA QuietStep ==
    ASSUME CfgInv, NEW r \in Requests, NEW t, Nothing,
           txn' = [txn EXCEPT ![r] = t], Sound(t), Quiet(t)
    PROVE  CfgInv'
  BY Alone, QuietIsApart

LEMMA Refused == ASSUME CfgInv, NEW r \in Requests, Refuse(r) PROVE CfgInv'
  BY QuietStep, IdleIsSound DEF Refuse, End, Nothing

\* The number a creator takes comes after all that exist.
LEMMA NextInSequence ==
    ASSUME InSequence, NEW k, NextNumber(k)
    PROVE  k \in Numbers /\ \A m \in Numbers : m < k => m \in Created
  <1>1. PICK p \in 0 .. MaxVersions : IsLatest(p, Created) /\ k = p + 1
    BY DEF NextNumber
  <1>2. ASSUME NEW m \in Numbers, m < k PROVE m \in Created
    <2>0. p \in Nat /\ m \in Nat /\ m # 0 /\ MaxVersions \in Nat
      BY CfgNumbers DEF Numbers
    <2>1. m <= p /\ m > 0
      BY <1>1, <1>2, <2>0
    <2>2. p \in Created
      BY <1>1, <2>0, <2>1 DEF IsLatest
    <2>3. CASE m = p
      BY <2>2, <2>3
    <2>4. CASE m < p
      BY <2>2, <2>4, <1>2 DEF InSequence
    <2> QED BY <1>1, <2>1, <2>3, <2>4, CfgNumbers DEF Numbers
  <1> QED BY <1>2 DEF NextNumber

LEMMA Begins ==
    ASSUME CfgInv, NEW r \in Requests, Arrive(r)
    PROVE  CfgInv'
  <1> USE DEF CfgInv
  <1>0. Idle.pc = "idle" /\ Idle \in Txn
    BY IdleIsSound DEF Idle, Sound
  <1>1. ASSUME NEW t, Begin(r, t), Sound(t), Quiet(t) PROVE CfgInv'
    BY <1>1, QuietStep DEF Begin, Nothing
  <1>2. CASE BeginCreate(r)
    <2>1. PICK k \in Numbers :
            /\ NextNumber(k)
            /\ Begin(r, [Idle EXCEPT !.op = "create", !.pc = "insert", !.number = k])
      BY <1>2 DEF BeginCreate
    <2> DEFINE t == [Idle EXCEPT !.op = "create", !.pc = "insert", !.number = k]
    <2>2. \A m \in Numbers : m < k => m \in Created
      BY <2>1, NextInSequence
    <2>3. Sound(t) /\ Quiet(t)
      BY <1>0, <2>2, CfgNumbers DEF Sound, Quiet, Shares, Locks, Idle, Txn, Ops
    <2> QED BY <1>1, <2>1, <2>3
  <1>3. CASE \E n \in Numbers : BeginClone(r, n)
    <2>1. PICK n \in Created :
            Begin(r, [Idle EXCEPT !.op = "clone", !.pc = "hydrate", !.source = n])
      BY <1>3 DEF BeginClone
    <2> DEFINE t == [Idle EXCEPT !.op = "clone", !.pc = "hydrate", !.source = n]
    <2>2. Sound(t) /\ Quiet(t)
      BY <1>0, CreatedRows, CfgNumbers DEF Sound, Quiet, Shares, Locks, Idle, Txn, Ops
    <2> QED BY <1>1, <2>1, <2>2
  <1>4. CASE \E n \in Numbers : BeginEdit(r, n)
    <2>1. PICK n \in Created :
            Begin(r, [Idle EXCEPT !.op = "edit", !.pc = "hydrate", !.number = n,
                                  !.result = version[n].result])
      BY <1>4 DEF BeginEdit, CanEdit, Created
    <2> DEFINE t == [Idle EXCEPT !.op = "edit", !.pc = "hydrate", !.number = n,
                                 !.result = version[n].result]
    <2>2. Sound(t) /\ Quiet(t)
      BY <1>0, CreatedRows, CfgNumbers DEF Sound, Quiet, Shares, Locks, Idle, Txn, Ops
    <2> QED BY <1>1, <2>1, <2>2
  <1>5. CASE \E n \in Numbers : BeginValidate(r, n)
    <2>1. PICK n \in Created :
            Begin(r, [Idle EXCEPT !.op = "validate", !.pc = "mark", !.number = n])
      BY <1>5 DEF BeginValidate, CanValidate, Created
    <2> DEFINE t == [Idle EXCEPT !.op = "validate", !.pc = "mark", !.number = n]
    <2>2. Sound(t) /\ Quiet(t)
      BY <1>0, CreatedRows, CfgNumbers DEF Sound, Quiet, Shares, Locks, Idle, Txn, Ops
    <2> QED BY <1>1, <2>1, <2>2
  <1>6. CASE \E n \in Numbers : BeginPublish(r, n)
    <2>1. PICK n \in Created :
            Begin(r, [Idle EXCEPT !.op = "publish", !.pc = "hydrate", !.number = n,
                                  !.result = version[n].result])
      BY <1>6 DEF BeginPublish, CanPublish, Created
    <2> DEFINE t == [Idle EXCEPT !.op = "publish", !.pc = "hydrate", !.number = n,
                                 !.result = version[n].result]
    <2>2. Sound(t) /\ Quiet(t)
      BY <1>0, CreatedRows, CfgNumbers DEF Sound, Quiet, Shares, Locks, Idle, Txn, Ops
    <2> QED BY <1>1, <2>1, <2>2
  <1> QED BY <1>2, <1>3, <1>4, <1>5, <1>6 DEF Arrive

\* One table of the content, read without a lock.
LEMMA Hydrated == ASSUME CfgInv, NEW r \in Requests, Hydrate(r) PROVE CfgInv'
  <1> USE DEF CfgInv
  <1> DEFINE old == txn[r]
             n == IF old.op = "clone" THEN old.source ELSE old.number
             read == old.content \cup {e \in version[n].content : TableOf[e] = old.table}
             pc == IF old.table < NumTables THEN "hydrate"
                   ELSE CASE old.op = "clone"    -> "number"
                          [] old.op = "edit"     -> "compose"
                          [] old.op = "validate" -> "decide"
                          [] OTHER               -> "check"
             table == IF old.table < NumTables THEN old.table + 1 ELSE 1
             t == [old EXCEPT !.content = read, !.table = table, !.pc = pc]
  <1>1. Sound(old) /\ old.pc = "hydrate" /\ old \in Txn
    BY DEF Hydrate, Txns, Sound
  <1>2. n \in Created
    BY <1>1 DEF Sound
  <1>3. read \in Contents
    BY <1>1, <1>2, CreatedRows DEF Contents, Txn
  <1>4. table \in 1 .. NumTables
    <2>1. old.table \in 1 .. NumTables
      BY <1>1 DEF Txn
    <2> QED BY <2>1, CfgNumbers
  <1>5. /\ pc \in {"hydrate", "number", "compose", "decide", "check"}
        /\ pc = "decide" <=> pc # "hydrate" /\ old.op = "validate"
        /\ pc = "hydrate" => old.table < NumTables
    BY <1>1 DEF Sound
  <1>6. txn' = [txn EXCEPT ![r] = t] /\ Nothing
    <2>1. CASE old.table < NumTables
      BY <1>1, <2>1, Zenon DEF Hydrate, Nothing, Txn
    <2>2. CASE ~(old.table < NumTables)
      BY <1>1, <2>2, Zenon DEF Hydrate, Nothing, Txn
    <2> QED BY <2>1, <2>2
  <1> HIDE DEF read, pc, table
  <1>7. t \in Txn
    BY <1>1, <1>3, <1>4, <1>5 DEF Txn
  <1>8. /\ t.op = old.op /\ t.number = old.number /\ t.source = old.source
        /\ t.pc = pc /\ t.result = old.result
    BY <1>1 DEF Txn
  <1> HIDE DEF t
  <1>9. Sound(t)
    BY <1>1, <1>5, <1>7, <1>8 DEF Sound, Shares
  <1>10. ASSUME NEW q \in Requests \ {r} PROVE Apart(t, txn[q])
    <2>1. Apart(old, txn[q])
      BY DEF Txns
    <2> QED BY <1>1, <1>5, <1>8, <2>1 DEF Apart, Shares, Locks
  <1> QED BY <1>6, <1>9, <1>10, Alone

\* A step of a request to another pc; only a creator and an edit have more to keep.
LEMMA GoesOn ==
    ASSUME CfgInv, NEW r \in Requests, NEW pc, Goto(r, pc), Nothing,
           pc \in {"delete", "replace", "hydrate", "lock", "commit"},
           pc = "commit" => txn[r].op \in {"create", "clone", "edit"},
           txn[r].pc # "idle",
           LET t == [txn[r] EXCEPT !.pc = pc] IN
             /\ t.op \in {"create", "clone"} /\ pc = "commit" =>
                  /\ txn[r].pc = "insert" /\ t.number \notin Created
                  /\ \A q \in Requests \ {r} : Shares(txn[q]) => txn[q].number # t.number
             /\ pc = "hydrate" => t.op = "validate" /\ Status(t.number) = "draft"
             /\ Locks(t) => \/ Locks(txn[r])
                            \/ RowFree(r, t.number)
    PROVE  CfgInv'
  <1> USE DEF CfgInv
  <1> DEFINE old == txn[r]
             t == [old EXCEPT !.pc = pc]
  <1>1. Sound(old) /\ old \in Txn
    BY DEF Txns, Sound
  <1>2. txn' = [txn EXCEPT ![r] = t]
    BY Zenon DEF Goto
  <1>3. t \in Txn
    BY <1>1 DEF Txn
  <1>4. /\ t.op = old.op /\ t.number = old.number /\ t.source = old.source
        /\ t.pc = pc /\ t.result = old.result
    BY <1>1 DEF Txn
  <1>5. /\ t.op \in {"create", "clone"} /\ pc = "commit" =>
             /\ old.pc = "insert" /\ t.number \notin Created
             /\ \A q \in Requests \ {r} : Shares(txn[q]) => txn[q].number # t.number
        /\ pc = "hydrate" => t.op = "validate" /\ Status(t.number) = "draft"
        /\ Locks(t) => Locks(old) \/ RowFree(r, t.number)
    OBVIOUS
  <1> HIDE DEF t
  <1>6. Sound(t)
    BY <1>1, <1>3, <1>4, <1>5 DEF Sound, Shares
  <1>7. ASSUME NEW q \in Requests \ {r} PROVE Apart(t, txn[q])
    <2>1. Apart(old, txn[q])
      BY DEF Txns
    <2>2. ASSUME t.number = txn[q].number, Locks(t), Locks(txn[q]) PROVE FALSE
      <3>1. ~Locks(old)
        BY <1>4, <2>1, <2>2 DEF Apart
      <3>2. RowFree(r, t.number)
        BY <1>5, <2>2, <3>1
      <3> QED BY <2>2, <3>2 DEF RowFree, HoldsRow, Locks
    <2> QED BY <1>4, <1>5, <2>2 DEF Apart, Shares
  <1> QED BY <1>2, <1>6, <1>7, Alone

\* The number of a clone, taken when its source has been read.
LEMMA Numbered == ASSUME CfgInv, NEW r \in Requests, Number(r) PROVE CfgInv'
  <1> USE DEF CfgInv
  <1>1. CASE Refuse(r)
    BY <1>1, Refused
  <1>2. CASE Nothing /\ \E k \in Numbers :
               NextNumber(k) /\ txn' = [txn EXCEPT ![r].pc = "insert", ![r].number = k]
    <2>1. PICK k \in Numbers :
            NextNumber(k) /\ txn' = [txn EXCEPT ![r].pc = "insert", ![r].number = k]
      BY <1>2
    <2> DEFINE t == [txn[r] EXCEPT !.pc = "insert", !.number = k]
    <2>2. Sound(txn[r]) /\ txn[r] \in Txn /\ txn[r].op = "clone"
      BY DEF Txns, Sound, Number, At
    <2>3. \A m \in Numbers : m < k => m \in Created
      BY <2>1, NextInSequence
    <2>4. t \in Txn
      BY <2>2, CfgNumbers DEF Txn
    <2>5. Sound(t) /\ Quiet(t)
      BY <2>2, <2>3, <2>4 DEF Sound, Quiet, Shares, Locks, Txn
    <2>6. txn' = [txn EXCEPT ![r] = t]
      BY <2>1, Zenon
    <2> QED BY <1>2, <2>5, <2>6, QuietStep
  <1> QED BY <1>1, <1>2 DEF Number, Nothing

\* The rewritten content of an edit.
LEMMA Composed == ASSUME CfgInv, NEW r \in Requests, Compose(r) PROVE CfgInv'
  <1> USE DEF CfgInv
  <1>1. PICK t \in 1 .. NumTables, S \in Contents :
          txn' = [txn EXCEPT
                    ![r].content = {e \in txn[r].content : TableOf[e] # t} \cup S,
                    ![r].pc = IF txn[r].result # NoResult THEN "reset" ELSE "delete"]
    BY DEF Compose
  <1> DEFINE old == txn[r]
             content == {e \in old.content : TableOf[e] # t} \cup S
             pc == IF old.result # NoResult THEN "reset" ELSE "delete"
             new == [old EXCEPT !.content = content, !.pc = pc]
  <1>2. Sound(old) /\ old \in Txn /\ old.op = "edit" /\ old.pc = "compose"
    BY DEF Txns, Sound, Compose, At
  <1>3. content \in Contents
    BY <1>2 DEF Txn, Contents
  <1>4. pc \in {"reset", "delete"} /\ (pc = "delete" => old.result = NoResult)
    OBVIOUS
  <1>5. txn' = [txn EXCEPT ![r] = new]
    BY <1>1, Zenon
  <1> HIDE DEF content, pc
  <1>6. new \in Txn
    BY <1>2, <1>3, <1>4 DEF Txn
  <1>7. Sound(new) /\ Quiet(new)
    BY <1>2, <1>4, <1>6 DEF Sound, Quiet, Shares, Locks, Txn
  <1> QED BY <1>5, <1>7, QuietStep DEF Compose, Nothing

\* The DELETEs of an edit.
LEMMA Deletes == ASSUME CfgInv, NEW r \in Requests, Delete(r) PROVE CfgInv'
  <1> USE DEF CfgInv
  <1> DEFINE old == txn[r]
             new == [old EXCEPT !.pc = "deleting", !.doomed = version[old.number].content]
  <1>1. Sound(old) /\ old \in Txn /\ old.op = "edit" /\ old.pc = "delete"
    BY DEF Txns, Sound, Delete, At
  <1>2. version[old.number].content \in Contents
    BY <1>1, CreatedRows DEF Sound
  <1>3. new \in Txn
    BY <1>1, <1>2 DEF Txn
  <1>4. /\ new.op = "edit" /\ new.number = old.number /\ new.source = old.source
        /\ new.pc = "deleting" /\ new.result = old.result
    BY <1>1 DEF Txn
  <1>5. txn' = [txn EXCEPT ![r] = new] /\ Nothing
    BY Zenon DEF Delete, Nothing
  <1> HIDE DEF new
  <1>6. Sound(new)
    BY <1>1, <1>3, <1>4 DEF Sound, Shares
  <1>7. ASSUME NEW q \in Requests \ {r} PROVE Apart(new, txn[q])
    <2>1. Apart(old, txn[q])
      BY DEF Txns
    <2> QED BY <1>1, <1>4, <2>1 DEF Apart, Shares, Locks
  <1> QED BY <1>5, <1>6, <1>7, Alone

\* Under the lock of the configuration row nobody else is about to publish, the
\* pointer stays what it is, and no newer version is published.
LEMMA LocksConfiguration ==
    ASSUME CfgInv, NEW r \in Requests, LockConfiguration(r) PROVE CfgInv'
  <1> USE DEF CfgInv
  <1>1. CASE Refuse(r)
    BY <1>1, Refused
  <1>2. CASE /\ \A m \in Published : ~(m > txn[r].number)
             /\ txn' = [txn EXCEPT ![r].pc = "update", ![r].previous = current]
             /\ Nothing
    <2> DEFINE old == txn[r]
               new == [old EXCEPT !.pc = "update", !.previous = current]
    <2>1. Sound(old) /\ old \in Txn /\ old.op = "publish"
      BY DEF Txns, Sound, LockConfiguration, At
    <2>2. new \in Txn
      BY <2>1 DEF Txn, Rows
    <2>3. /\ new.op = "publish" /\ new.number = old.number /\ new.previous = current
          /\ new.pc = "update"
      BY <2>1 DEF Txn
    <2>4. txn' = [txn EXCEPT ![r] = new]
      BY <1>2, Zenon
    <2>5. \A m \in Published : m <= old.number
      <3> TAKE m \in Published
      <3>1. m \in Nat /\ old.number \in Nat
        BY <2>1, CfgNumbers DEF Txn, Published
      <3> QED BY <1>2, <3>1
    <2> HIDE DEF new
    <2>6. Sound(new)
      BY <2>1, <2>2, <2>3, <2>5 DEF Sound, Shares
    <2>7. ASSUME NEW q \in Requests \ {r} PROVE Apart(new, txn[q])
      BY <2>3 DEF LockConfiguration, ConfigurationFree, Apart, Shares, Locks
    <2> QED BY <1>2, <2>4, <2>6, <2>7, Alone
  <1> QED BY <1>1, <1>2 DEF LockConfiguration, Nothing

\* The other statements that commit nothing.
LEMMA Waits ==
    ASSUME CfgInv, NEW r \in Requests,
           InsertVersion(r) \/ Reset(r) \/ Deleted(r) \/ Replace(r) \/ Mark(r) \/ Check(r)
    PROVE  CfgInv'
  <1>0. txn[r] \in Txn
    BY DEF CfgInv, Txns, Sound
  <1>1. CASE Refuse(r)
    BY <1>1, Refused
  <1>2. CASE InsertVersion(r) /\ Goto(r, "commit") /\ Nothing
    <2>1. /\ txn[r].number \notin Created
          /\ \A q \in Requests \ {r} : Shares(txn[q]) => txn[q].number # txn[r].number
      <3>0. txn'[r] = [txn[r] EXCEPT !.pc = "commit"]
        BY <1>2, Zenon DEF Goto, CfgInv, Txns
      <3>1. txn'[r].pc = "commit"
        BY <1>0, <3>0 DEF Txn
      <3>2. txn = [q \in Requests |-> txn[q]] /\ Idle.pc # "commit"
        BY DEF CfgInv, Txns, Idle
      <3>3. ~Refuse(r)
        BY <3>1, <3>2 DEF Refuse, End
      <3> QED BY <1>2, <3>3 DEF InsertVersion, SharesConfiguration, Creating, Shares
    <2> QED BY <1>0, <1>2, <2>1, GoesOn DEF InsertVersion, Creating, Txn, Locks
  <1>3. CASE Reset(r)
    BY <1>0, <1>3, GoesOn DEF Reset, At, Nothing, Txn, Locks
  <1>4. CASE Deleted(r)
    BY <1>0, <1>4, GoesOn DEF Deleted, At, Nothing, Txn, Locks
  <1>5. CASE Replace(r) /\ Goto(r, "commit") /\ Nothing
    BY <1>0, <1>5, GoesOn DEF Replace, At, Txn, Locks
  <1>6. CASE Mark(r) /\ Goto(r, "hydrate") /\ Nothing /\ Status(txn[r].number) = "draft"
    BY <1>0, <1>6, GoesOn DEF Mark, At, Txn, Locks
  <1>7. CASE Check(r) /\ Goto(r, "lock") /\ Nothing
    BY <1>0, <1>7, GoesOn DEF Check, At, Txn, Locks
  <1> QED BY <1>1, <1>2, <1>3, <1>4, <1>5, <1>6, <1>7
          DEF InsertVersion, Replace, Mark, Check, Nothing

-----------------------------------------------------------------------------
(* Steps that commit.                                                      *)

\* What a commit does to the transactions: one ends, and another may have fewer
\* rows left to delete.
Ends(r) ==
    /\ txn' = [q \in Requests |-> txn'[q]]
    /\ txn'[r] = Idle
    /\ \A q \in Requests \ {r} :
         \/ txn'[q] = txn[q]
         \/ /\ txn[q].pc = "deleting"
            /\ \E S \in Contents : txn'[q] = [txn[q] EXCEPT !.doomed = S]

\* What is the same for every transaction that does not end.
Unmoved(t, u) ==
    /\ t \in Txn /\ u \in Txn
    /\ u.op = t.op /\ u.pc = t.pc /\ u.number = t.number /\ u.source = t.source
    /\ u.result = t.result /\ u.previous = t.previous
    /\ u = t \/ t.pc = "deleting"

LEMMA EndsUnmoved ==
    ASSUME Txns, NEW r \in Requests, Ends(r), NEW q \in Requests \ {r}
    PROVE  Unmoved(txn[q], txn'[q])
  <1>1. txn[q] \in Txn
    BY DEF Txns, Sound
  <1>2. CASE txn'[q] = txn[q]
    BY <1>1, <1>2 DEF Unmoved
  <1>3. CASE /\ txn[q].pc = "deleting"
             /\ \E S \in Contents : txn'[q] = [txn[q] EXCEPT !.doomed = S]
    BY <1>1, <1>3 DEF Unmoved, Txn
  <1> QED BY <1>2, <1>3 DEF Ends

\* A commit keeps the transactions sound if it takes no version back, creates
\* none that another request has inserted, unmakes no draft that another holds,
\* and publishes only when nobody else is about to.
LEMMA CommitTxns ==
    ASSUME CfgInv, NEW r \in Requests, Ends(r),
           Created \subseteq Created',
           \A q \in Requests \ {r} :
             /\ Shares(txn[q]) => txn[q].number \notin Created' \ Created
             /\ txn[q].op = "validate" /\ txn[q].pc \in {"hydrate", "decide"} =>
                  version'[txn[q].number].status = Status(txn[q].number)
             /\ txn[q].pc = "update" => Published' = Published /\ current' = current
    PROVE  Txns'
  <1> USE DEF CfgInv
  <1>1. ASSUME NEW q \in Requests PROVE Sound(txn[q])'
    <2>1. CASE q = r
      <3>1. txn'[q] = Idle
        BY <2>1 DEF Ends
      <3> QED BY <3>1, IdleIsSound DEF Sound, Idle, Shares
    <2>2. CASE q # r
      <3>1. Unmoved(txn[q], txn'[q]) /\ Sound(txn[q])
        BY <2>2, EndsUnmoved DEF Txns
      <3>2. txn[q].number \in Numbers \cup {0}
        BY <3>1, CfgNumbers DEF Unmoved, Txn, Numbers
      <3>3. /\ Shares(txn[q]) => txn[q].number \notin Created'
            /\ txn[q].op = "validate" /\ txn[q].pc \in {"hydrate", "decide"} =>
                 version'[txn[q].number].status = "draft"
        BY <2>2, <3>1 DEF Sound
      <3>4. txn[q].pc = "update" => Published' = Published /\ current' = current
        BY <2>2
      <3> QED BY <3>1, <3>3, <3>4 DEF Unmoved, Sound, Shares, Status
    <2> QED BY <2>1, <2>2
  <1>2. ASSUME NEW q \in Requests, NEW p \in Requests, q # p
        PROVE  Apart(txn[q], txn[p])'
    <2>1. Apart(txn'[q], txn'[p])
      <3>1. CASE q = r \/ p = r
        <4>1. Quiet(txn'[q]) \/ Quiet(txn'[p])
          BY <3>1, IdleIsSound DEF Ends
        <4> QED BY <4>1, QuietIsApart
      <3>2. CASE q # r /\ p # r
        <4>1. /\ Unmoved(txn[q], txn'[q]) /\ Unmoved(txn[p], txn'[p])
              /\ Apart(txn[q], txn[p])
          BY <1>2, <3>2, EndsUnmoved DEF Txns
        <4> QED BY <4>1 DEF Unmoved, Apart, Shares, Locks
      <3> QED BY <3>1, <3>2
    <2> QED BY <2>1 DEF Apart, Shares, Locks
  <1> QED BY <1>1, <1>2 DEF Txns, Ends

\* A request that ends leaves the other transactions as they are.
LEMMA EndEnds ==
    ASSUME Txns, NEW r \in Requests, End(r) PROVE Ends(r)
  <1>1. txn' = [q \in Requests |-> IF q = r THEN Idle ELSE txn[q]]
    BY Zenon DEF Txns, End
  <1>2. txn' = [q \in Requests |-> txn'[q]]
    BY <1>1, Zenon
  <1> QED BY <1>1, <1>2 DEF Ends

\* A commit that publishes nothing leaves the publications in series.
LEMMA NothingPublished ==
    ASSUME PublicationsAreSerial, Published' = Published,
           UNCHANGED <<current, announced>>,
           \A n \in Published : version'[n].replaced = version[n].replaced
    PROVE  PublicationsAreSerial'
  BY DEF PublicationsAreSerial, PointerIsLatest, ReplacementChain, PublishedOnce, IsLatest

\* A draft is committed under the next number, which nobody else has.
LEMMA CommitsVersion ==
    ASSUME CfgInv, NEW r \in Requests, CommitVersion(r) PROVE CfgInv'
  <1> USE DEF CfgInv
  <1> DEFINE n == txn[r].number
             row == [NoVersion EXCEPT !.status = "draft", !.content = txn[r].content]
  <1>1. /\ n \in Numbers \ Created /\ Shares(txn[r])
        /\ \A m \in Numbers : m < n => m \in Created
    BY DEF Txns, Sound, CommitVersion, Creating, Shares
  <1>2. row \in Version /\ row.status = "draft"
    <2>1. txn[r].content \in Contents
      BY DEF Txns, Sound, Txn
    <2> QED BY <2>1, CfgNumbers DEF Version, NoVersion
  <1>3. version' = [version EXCEPT ![n] = row]
    BY DEF CommitVersion
  <1> HIDE DEF row
  <1>4. /\ Rows' /\ UNCHANGED <<current, announced>>
        /\ \A m \in Numbers : version'[m] = IF m = n THEN row ELSE version[m]
    BY <1>1, <1>2, <1>3 DEF Rows, CommitVersion
  <1>5. Created' = Created \cup {n} /\ Published' = Published
    BY <1>1, <1>2, <1>4 DEF Created, Published, Status
  <1>6. InSequence'
    <2>1. ASSUME NEW k \in Created', NEW m \in Numbers, m < k PROVE m \in Created'
      BY <1>1, <1>5, <2>1 DEF InSequence
    <2> QED BY <2>1 DEF InSequence
  <1>7. PublicationsAreSerial'
    <2>1. \A m \in Published : m \in Numbers /\ m # n
      BY <1>1 DEF Published, Created
    <2>2. \A m \in Published : version'[m].replaced = version[m].replaced
      BY <1>4, <2>1
    <2> QED BY <1>4, <1>5, <2>2, NothingPublished
  <1>8. Txns'
    <2>1. Ends(r)
      BY EndEnds DEF CommitVersion
    <2>2. ASSUME NEW q \in Requests \ {r}
          PROVE  /\ Shares(txn[q]) => txn[q].number \notin Created' \ Created
                 /\ txn[q].op = "validate" /\ txn[q].pc \in {"hydrate", "decide"} =>
                      version'[txn[q].number].status = Status(txn[q].number)
      <3>1. Apart(txn[q], txn[r]) /\ Sound(txn[q])
        BY DEF Txns
      <3>2. Shares(txn[q]) => txn[q].number # n
        BY <1>1, <3>1 DEF Apart
      <3>3. txn[q].op = "validate" => txn[q].number \in Created
        BY <3>1 DEF Sound
      <3> QED BY <1>1, <1>4, <1>5, <3>2, <3>3 DEF Status, Created
    <2> QED BY <1>4, <1>5, <2>1, <2>2, CommitTxns
  <1> QED BY <1>4, <1>6, <1>7, <1>8

\* An edit changes neither status nor history, and it drops the result it knew.
LEMMA CommitsEdit ==
    ASSUME CfgInv, NEW r \in Requests, CommitEdit(r) PROVE CfgInv'
  <1> USE DEF CfgInv
  <1> DEFINE old == txn[r]
             n == old.number
             content == (version[n].content \ old.doomed) \cup old.content
             result == IF old.result # NoResult THEN NoResult ELSE version[n].result
             row == [version[n] EXCEPT !.content = content, !.result = result]
  <1>1. old \in Txn /\ n \in Created
    BY DEF Txns, Sound, CommitEdit, At
  <1>2. version[n] \in Version /\ content \in Contents /\ result \in Contents \cup {NoResult}
    BY <1>1, CreatedRows, CfgNumbers DEF Txn, Contents
  <1>3. version' = [version EXCEPT ![n] = row]
    BY Zenon DEF CommitEdit
  <1> HIDE DEF content, result
  <1>4. /\ row \in Version /\ row.status = version[n].status
        /\ row.replaced = version[n].replaced
    BY <1>2 DEF Version
  <1> HIDE DEF row
  <1>5. /\ Rows' /\ UNCHANGED <<current, announced>>
        /\ \A m \in Numbers : /\ version'[m].status = version[m].status
                              /\ version'[m].replaced = version[m].replaced
    BY <1>1, <1>3, <1>4 DEF Rows, CommitEdit
  <1>6. Created' = Created /\ Published' = Published
    BY <1>5 DEF Created, Published, Status
  <1>7. InSequence'
    BY <1>6 DEF InSequence
  <1>8. PublicationsAreSerial'
    BY <1>5, <1>6, NothingPublished DEF Published
  <1>9. Txns'
    <2>1. Ends(r)
      <3>1. txn' = [q \in Requests |->
                      IF q = r THEN Idle
                      ELSE IF q \in EditsBeside(r) /\ txn[q].pc = "deleting"
                             THEN [txn[q] EXCEPT !.doomed = txn[q].doomed \ old.doomed]
                             ELSE txn[q]]
        BY DEF CommitEdit
      <3>2. txn' = [q \in Requests |-> txn'[q]] /\ txn'[r] = Idle
        BY <3>1
      <3>3. ASSUME NEW q \in Requests \ {r}
            PROVE  \/ txn'[q] = txn[q]
                   \/ /\ txn[q].pc = "deleting"
                      /\ \E S \in Contents : txn'[q] = [txn[q] EXCEPT !.doomed = S]
        <4>1. txn[q].doomed \ old.doomed \in Contents
          BY DEF Txns, Sound, Txn, Contents
        <4> QED BY <3>1, <4>1, Zenon
      <3> QED BY <3>2, <3>3 DEF Ends
    <2>2. \A q \in Requests \ {r} :
            txn[q].op = "validate" =>
              version'[txn[q].number].status = Status(txn[q].number)
      BY <1>5 DEF Txns, Sound, Status, Created
    <2> QED BY <1>5, <1>6, <2>1, <2>2, CommitTxns
  <1> QED BY <1>5, <1>7, <1>8, <1>9

\* A validation still holds its row when it decides, and the row is a draft.
LEMMA Decides ==
    ASSUME CfgInv, NEW r \in Requests, Decide(r) PROVE CfgInv'
  <1> USE DEF CfgInv
  <1> DEFINE old == txn[r]
             n == old.number
             status == IF old.content \in Acceptable THEN "validated" ELSE "draft"
             row == IF ResultStored
                      THEN [version[n] EXCEPT !.status = status, !.result = old.content]
                      ELSE version[n]
  <1>1. old \in Txn /\ n \in Created /\ Status(n) = "draft" /\ Locks(old)
    BY DEF Txns, Sound, Decide, At, Locks
  <1>2. version[n] \in Version /\ old.content \in Contents
    BY <1>1, CreatedRows DEF Txn
  <1>3. status \in {"draft", "validated"}
    OBVIOUS
  <1>4. version' = [version EXCEPT ![n] = row]
    <2>1. CASE ResultStored
      BY <2>1, Zenon DEF Decide
    <2>2. CASE ~ResultStored
      BY <1>1, <2>2 DEF Decide, Rows, Created
    <2> QED BY <2>1, <2>2
  <1> HIDE DEF status
  <1>5. /\ row \in Version /\ row.status \in {"draft", "validated"}
        /\ row.replaced = version[n].replaced
    BY <1>1, <1>2, <1>3, CfgNumbers DEF Version, Status
  <1> HIDE DEF row
  <1>6. /\ Rows' /\ UNCHANGED <<current, announced>>
        /\ \A m \in Numbers : version'[m] = IF m = n THEN row ELSE version[m]
    BY <1>1, <1>4, <1>5 DEF Rows, Decide, Created
  <1>7. Created' = Created /\ Published' = Published
    BY <1>1, <1>5, <1>6 DEF Created, Published, Status
  <1>8. InSequence'
    BY <1>7 DEF InSequence
  <1>9. PublicationsAreSerial'
    <2>1. \A m \in Published : version'[m].replaced = version[m].replaced
      BY <1>5, <1>6 DEF Published
    <2> QED BY <1>6, <1>7, <2>1, NothingPublished
  <1>10. Txns'
    <2>1. Ends(r)
      BY EndEnds DEF Decide
    <2>2. ASSUME NEW q \in Requests \ {r},
                 txn[q].op = "validate", txn[q].pc \in {"hydrate", "decide"}
          PROVE  version'[txn[q].number].status = Status(txn[q].number)
      <3>1. Apart(txn[q], old) /\ Sound(txn[q])
        BY DEF Txns
      <3>2. txn[q].number # n
        BY <1>1, <2>2, <3>1 DEF Apart, Locks
      <3> QED BY <1>6, <2>2, <3>1, <3>2 DEF Sound, Status, Created
    <2> QED BY <1>6, <1>7, <2>1, <2>2, CommitTxns
  <1> QED BY <1>6, <1>8, <1>9, <1>10

\* A publication is higher than all before it, and replaces the highest of them.
LEMMA Publishes ==
    ASSUME CfgInv, NEW r \in Requests, Publish(r) PROVE CfgInv'
  <1> USE DEF CfgInv
  <1> DEFINE old == txn[r]
             n == old.number
             row == [version[n] EXCEPT !.status = "published", !.replaced = old.previous]
  <1>1. /\ old \in Txn /\ n \in Created /\ old.pc = "update" /\ old.previous = current
        /\ \A m \in Published : m <= n
    BY DEF Txns, Sound, Publish, At
  <1>2. CASE Refuse(r)
    BY <1>2, Refused
  <1>3. CASE /\ Status(n) = "validated" /\ version' = [version EXCEPT ![n] = row]
             /\ current' = n /\ announced' = [announced EXCEPT ![n] = announced[n] + 1]
             /\ End(r)
    <2>1. /\ row \in Version /\ row.status = "published" /\ row.replaced = current
      <3> DEFINE v == version[n]
      <3>1. v \in Version /\ old.previous = current
        BY <1>1, CreatedRows
      <3>2. current \in 0 .. MaxVersions
        BY <1>1 DEF Txn
      <3> HIDE DEF v
      <3>3. row = [v EXCEPT !.status = "published", !.replaced = current]
        BY <3>1 DEF v
      <3> HIDE DEF row, old
      <3> QED BY ONLY <3>1, <3>2, <3>3 DEF Version
    <2> HIDE DEF row
    <2>2. /\ n \in Numbers /\ current' = n
          /\ announced' = [m \in Numbers |-> IF m = n THEN announced[m] + 1 ELSE announced[m]]
          /\ version' = [m \in Numbers |-> IF m = n THEN row ELSE version[m]]
      <3>1. n \in Numbers /\ version \in [Numbers -> Version] /\ announced \in [Numbers -> Nat]
        BY <1>1 DEF Rows, Created
      <3>2. /\ version' = [version EXCEPT ![n] = row] /\ current' = n
            /\ announced' = [announced EXCEPT ![n] = announced[n] + 1]
        BY <1>3
      <3> HIDE DEF n, CfgInv
      <3> QED BY <3>1, <3>2
    <2>3. Rows'
      <3>1. /\ version \in [Numbers -> Version] /\ announced \in [Numbers -> Nat]
            /\ Numbers = 1 .. MaxVersions /\ MaxVersions \in Nat /\ row \in Version
        BY <2>1, CfgNumbers, ConfigurationAssumption DEF Rows, Numbers
      <3> HIDE DEF n, CfgInv
      <3>2. version' \in [Numbers -> Version] BY <2>2, <3>1
      <3>3. announced' \in [Numbers -> Nat]
        <4>1. \A m \in Numbers : announced[m] \in Nat BY <3>1
        <4> QED BY <2>2, <4>1
      <3>4. current' \in 0 .. MaxVersions BY <2>2, <3>1
      <3> QED BY <3>2, <3>3, <3>4 DEF Rows
    <2>4. Created' = Created /\ Published' = Published \cup {n} /\ n \notin Published
      BY <1>1, <1>3, <2>1, <2>2 DEF Created, Published, Status
    <2>5. InSequence'
      BY <2>4 DEF InSequence
    <2>6. n \in Nat /\ \A m \in Published : m \in Nat /\ m < n
      <3>1. n \in Nat /\ \A m \in Published : m \in Nat
        BY <2>2, CfgNumbers DEF Published
      <3>2. \A m \in Published : m <= n /\ m # n
        BY <1>1, <2>4
      <3> QED BY <3>1, <3>2
    <2>7. PointerIsLatest'
      BY <2>2, <2>4, <2>6 DEF PointerIsLatest, IsLatest
    <2>8. ASSUME NEW k \in Published'
          PROVE  IsLatest(version'[k].replaced, {m \in Published' : m < k})
      <3>1. {m \in Published' : m < n} = Published
        BY <2>2, <2>4, <2>6
      <3>2. CASE k = n
        BY <2>1, <2>2, <3>1, <3>2 DEF PublicationsAreSerial, PointerIsLatest
      <3>3. CASE k # n
        <4>1. k \in Published /\ version'[k].replaced = version[k].replaced
          BY <2>2, <2>4, <2>8, <3>3 DEF Published
        <4>2. {m \in Published' : m < k} = {m \in Published : m < k}
          BY <2>4, <2>6, <4>1
        <4> QED BY <4>1, <4>2 DEF PublicationsAreSerial, ReplacementChain
      <3> QED BY <3>2, <3>3
    <2>9. PublishedOnce'
      BY <2>2, <2>4, <1>3 DEF PublicationsAreSerial, PublishedOnce
    <2>10. PublicationsAreSerial'
      <3>1. ReplacementChain'
        BY <2>8 DEF ReplacementChain, IsLatest
      <3> QED BY <2>7, <2>9, <3>1 DEF PublicationsAreSerial
    <2>11. Txns'
      <3>1. Ends(r)
        BY <1>3, EndEnds
      <3>2. ASSUME NEW q \in Requests \ {r}
            PROVE  /\ txn[q].op = "validate" /\ txn[q].pc \in {"hydrate", "decide"} =>
                        version'[txn[q].number].status = Status(txn[q].number)
                   /\ txn[q].pc # "update"
        <4>1. Apart(txn[q], old) /\ Sound(txn[q])
          BY DEF Txns
        <4>2. txn[q].op = "validate" /\ txn[q].pc \in {"hydrate", "decide"} =>
                txn[q].number \in Numbers /\ txn[q].number # n
          BY <1>3, <4>1 DEF Sound, Created
        <4> QED BY <1>1, <2>2, <4>1, <4>2 DEF Apart, Status
      <3> QED BY <2>4, <3>1, <3>2, CommitTxns
    <2> QED BY <2>3, <2>5, <2>10, <2>11
  <1> QED BY <1>2, <1>3, Zenon DEF Publish

-----------------------------------------------------------------------------
(* The invariant.                                                          *)

LEMMA InitCfgInv == Init => CfgInv
  <1> SUFFICES ASSUME Init PROVE CfgInv
    OBVIOUS
  <1>1. Rows
    BY CfgNumbers DEF Init, Rows, Version, NoVersion
  <1>2. Created = {} /\ Published = {}
    BY DEF Init, Created, Published, Status, NoVersion
  <1>3. Txns
    BY IdleIsSound, QuietIsApart DEF Init, Txns
  <1>4. PublicationsAreSerial
    BY <1>2 DEF Init, PublicationsAreSerial, PointerIsLatest, ReplacementChain,
               PublishedOnce, IsLatest
  <1>5. InSequence
    BY <1>2 DEF InSequence
  <1> QED BY ONLY <1>1, <1>3, <1>4, <1>5 DEF CfgInv

LEMMA NextCfgInv == CfgInv /\ [Next]_configVars => CfgInv'
  <1> SUFFICES ASSUME CfgInv, [Next]_configVars PROVE CfgInv'
    OBVIOUS
  <1>1. CASE UNCHANGED configVars
    <2>1. version' = version /\ txn' = txn /\ current' = current /\ announced' = announced
      BY <1>1 DEF configVars
    <2>2. Rows /\ Txns /\ InSequence /\ PublicationsAreSerial
      BY DEF CfgInv
    <2>3. /\ Created' = Created /\ Published' = Published
          /\ \A n : Status(n)' = Status(n)
      BY <2>1 DEF Created, Published, Status
    <2>4. Rows' /\ InSequence'
      BY <2>1, <2>2, <2>3 DEF Rows, InSequence
    <2>5. Txns'
      <3>1. \A r \in Requests : Sound(txn[r])'
        BY <2>1, <2>2, <2>3 DEF Txns, Sound
      <3>2. \A q, r \in Requests : q # r => Apart(txn[q], txn[r])'
        BY <2>1, <2>2, <2>3 DEF Txns, Apart, Shares, Locks
      <3> QED BY <2>1, <2>2, <3>1, <3>2 DEF Txns
    <2>6. PublicationsAreSerial'
      BY <2>1, <2>2, <2>3 DEF PublicationsAreSerial, PointerIsLatest, ReplacementChain,
                              PublishedOnce, IsLatest
    <2> QED BY <2>4, <2>5, <2>6 DEF CfgInv
  <1>2. ASSUME NEW r \in Requests, Arrive(r) \/ Contend(r) \/ Proceed(r) \/ Abort(r)
        PROVE  CfgInv'
    <2>1. CASE Arrive(r)
      BY <2>1, Begins
    <2>2. CASE Contend(r)
      BY <2>2, Waits, LocksConfiguration, Publishes DEF Contend
    <2>3. CASE Proceed(r)
      BY <2>3, Hydrated, Numbered, CommitsVersion, Composed, Deletes, CommitsEdit,
         Decides, Waits DEF Proceed
    <2>4. CASE Abort(r)
      BY <2>4, Refused DEF Abort
    <2> QED BY <1>2, <2>1, <2>2, <2>3, <2>4
  <1> QED BY <1>1, <1>2 DEF Next

\* Rows and transactions keep their types.
THEOREM TypeCorrect == Spec => []CfgTypeOK
  <1>1. CfgInv => CfgTypeOK
    BY DEF CfgInv, Rows, Txns, Sound, CfgTypeOK
  <1> QED BY InitCfgInv, NextCfgInv, <1>1, PTL DEF Spec

\* However publications overlap with one another, with validations, edits and
\* creations, they come out as a series: the pointer names the highest published
\* version, each publication replaced the one below it, and each was announced once.
THEOREM SerialPublications == Spec => []PublicationsAreSerial
  <1>1. CfgInv => PublicationsAreSerial
    BY DEF CfgInv
  <1> QED BY InitCfgInv, NextCfgInv, <1>1, PTL DEF Spec

\* What a step may do to version n.
Lives(n) ==
    /\ version'[n].status # Status(n) =>
         <<Status(n), version'[n].status>> \in
             {<<"none", "draft">>, <<"draft", "validated">>, <<"validated", "published">>}
    /\ (n \notin Created /\ n > 1 /\ version'[n].status # "none") => n - 1 \in Created
    /\ Status(n) = "published" => version'[n].replaced = version[n].replaced
    /\ version'[n].result \notin {version[n].result, NoResult} => Status(n) = "draft"

\* Every commit keeps to the life of a version.
LEMMA CommitsLive ==
    ASSUME CfgInv, NEW r \in Requests,
           CommitVersion(r) \/ CommitEdit(r) \/ Decide(r) \/ Publish(r),
           NEW k \in Numbers
    PROVE  Lives(k)
  <1> USE DEF CfgInv
  <1> DEFINE old == txn[r]
             n == old.number
  <1>1. Sound(old) /\ old \in Txn
    BY DEF Txns, Sound
  <1>2. k \in Nat /\ version[k] \in Version /\ version = [m \in Numbers |-> version[m]]
    BY CfgNumbers DEF Rows
  <1>3. ASSUME version'[k] = version[k] PROVE Lives(k)
    BY <1>2, <1>3 DEF Lives, Created, Status
  <1>4. CASE CommitVersion(r)
    <2>1. /\ n \in Numbers \ Created
          /\ \A m \in Numbers : m < n => m \in Created
      BY <1>1, <1>4 DEF Sound, CommitVersion, Creating, Shares
    <2> DEFINE row == [NoVersion EXCEPT !.status = "draft", !.content = old.content]
    <2>2. row.status = "draft" /\ row.result = NoResult
      BY DEF NoVersion
    <2>3. version' = [version EXCEPT ![n] = row]
      BY <1>4 DEF CommitVersion
    <2> HIDE DEF row
    <2>4. CASE k = n
      <3>1. version'[k] = row /\ Status(k) = "none"
        BY <1>2, <2>1, <2>3, <2>4 DEF Created, Status
      <3>2. k > 1 => k - 1 \in Created
        BY <1>2, <2>1, <2>4, CfgNumbers DEF Numbers
      <3> QED BY <2>2, <3>1, <3>2 DEF Lives
    <2>5. CASE k # n
      BY <1>2, <1>3, <2>3, <2>5
    <2> QED BY <2>4, <2>5
  <1>5. CASE CommitEdit(r)
    <2>1. n \in Created
      BY <1>1, <1>5 DEF Sound, CommitEdit, At
    <2> DEFINE content == (version[n].content \ old.doomed) \cup old.content
               result == IF old.result # NoResult THEN NoResult ELSE version[n].result
               row == [version[n] EXCEPT !.content = content, !.result = result]
    <2>2. version' = [version EXCEPT ![n] = row]
      BY <1>5, Zenon DEF CommitEdit
    <2> HIDE DEF content
    <2>3. CASE k = n
      <3>1. /\ version'[k].status = version[k].status
            /\ version'[k].replaced = version[k].replaced
            /\ version'[k].result \in {version[k].result, NoResult}
        BY <1>2, <2>2, <2>3 DEF Version
      <3> QED BY <2>1, <2>3, <3>1 DEF Lives, Status
    <2>4. CASE k # n
      <3> HIDE DEF row
      <3> QED BY <1>2, <1>3, <2>2, <2>4
    <2> QED BY <2>3, <2>4
  <1>6. CASE Decide(r)
    <2>1. n \in Created /\ Status(n) = "draft"
      BY <1>1, <1>6 DEF Sound, Decide, At
    <2> DEFINE status == IF old.content \in Acceptable THEN "validated" ELSE "draft"
               row == [version[n] EXCEPT !.status = status, !.result = old.content]
    <2>2. CASE version' = version
      BY <1>3, <2>2
    <2>3. CASE version' = [version EXCEPT ![n] = row]
      <3>1. CASE k = n
        <4>1. version'[k].status \in {"draft", "validated"}
          BY <1>2, <2>3, <3>1 DEF Version
        <4> QED BY <2>1, <3>1, <4>1 DEF Lives
      <3>2. CASE k # n
        <4> HIDE DEF row
        <4> QED BY <1>2, <1>3, <2>3, <3>2
      <3> QED BY <3>1, <3>2
    <2>4. version' = version \/ version' = [version EXCEPT ![n] = row]
      BY <1>6, Zenon DEF Decide
    <2> QED BY <2>2, <2>3, <2>4
  <1>7. CASE Publish(r)
    <2> DEFINE row == [version[n] EXCEPT !.status = "published", !.replaced = old.previous]
    <2>1. n \in Created
      BY <1>1, <1>7 DEF Sound, Publish, At
    <2>2. CASE Refuse(r)
      BY <1>3, <2>2 DEF Refuse
    <2>3. CASE Status(n) = "validated" /\ version' = [version EXCEPT ![n] = row]
      <3>1. CASE k = n
        <4>1. version'[k].status = "published" /\ version'[k].result = version[k].result
          BY <1>2, <2>3, <3>1 DEF Version
        <4> QED BY <2>1, <2>3, <3>1, <4>1 DEF Lives
      <3>2. CASE k # n
        <4> HIDE DEF row
        <4> QED BY <1>2, <1>3, <2>3, <3>2
      <3> QED BY <3>1, <3>2
    <2> QED BY <1>7, <2>2, <2>3, Zenon DEF Publish
  <1> QED BY <1>4, <1>5, <1>6, <1>7

\* Versions move from draft to validated to published and never back, numbers are
\* given out in sequence, a published version keeps its place in the chain, and
\* only a draft gets a new validation result.
THEOREM LifecycleIsFollowed == Spec => FollowsLifecycle
  <1>1. CfgInv /\ [Next]_configVars => [\A n \in Numbers : Lives(n)]_configVars
    <2> SUFFICES ASSUME CfgInv, NEW r \in Requests, NEW n \in Numbers,
                        Arrive(r) \/ Contend(r) \/ Proceed(r) \/ Abort(r)
                 PROVE  Lives(n)
      BY DEF Next
    <2>1. CASE CommitVersion(r) \/ CommitEdit(r) \/ Decide(r) \/ Publish(r)
      BY <2>1, CommitsLive
    <2>2. CASE UNCHANGED version
      BY <2>2 DEF Lives, Created, Status
    <2> QED BY <2>1, <2>2
            DEF Arrive, BeginCreate, BeginClone, BeginEdit, BeginValidate, BeginPublish, Begin,
                Contend, InsertVersion, Reset, Deleted, Replace, Mark, LockConfiguration,
                Proceed, Hydrate, Number, Compose, Delete, Check, Abort, Refuse
  <1> DEFINE A ==
        \A n \in Numbers :
          /\ version'[n].status # Status(n) =>
               <<Status(n), version'[n].status>> \in
                   {<<"none", "draft">>, <<"draft", "validated">>, <<"validated", "published">>}
          /\ (n \notin Created /\ n > 1 /\ version'[n].status # "none") => n - 1 \in Created
          /\ Status(n) = "published" => version'[n].replaced = version[n].replaced
          /\ version'[n].result \notin {version[n].result, NoResult} => Status(n) = "draft"
  <1>2. A = \A n \in Numbers : Lives(n)
    BY DEF Lives
  <1>3. FollowsLifecycle <=> [][A]_configVars
    BY DEF FollowsLifecycle
  <1> HIDE DEF A
  <1>4. CfgInv /\ [Next]_configVars => [A]_configVars
    BY <1>1, <1>2
  <1> QED BY InitCfgInv, NextCfgInv, <1>3, <1>4, PTL DEF Spec

-----------------------------------------------------------------------------
(* A published version at work: a track followed by the spatial engine.    *)

LEMMA LeastOfNat ==
    ASSUME NEW S, S \subseteq Nat, S # {}
    PROVE  Least(S) \in S
  <1> DEFINE R == OpToRel(<, Nat)
  <1>0. IsWellFoundedOn(R, Nat)
    BY NatLessThanWellFounded
  <1> HIDE DEF R
  <1>1. PICK n \in S : \A m \in S : <<m, n>> \notin R
    BY <1>0, WFMin
  <1>2. \A m \in S : n <= m
    <2> SUFFICES ASSUME NEW m \in S, m < n PROVE FALSE
      BY <1>1
    <2>1. <<m, n>> \in R
      BY DEF OpToRel, R
    <2> QED BY <1>1, <2>1
  <1> QED BY <1>2 DEF Least

\* A pass over regions that finds none has them all outside.
LEMMA NoRegionHit ==
    ASSUME NEW point, NEW rois,
           \A r \in rois : r.id \in Nat /\ r.id # None,
           RoiPass(point, rois).error = None,
           RoiPass(point, rois).roi = None,
           NEW r \in rois, r.geometry.space = point.space
    PROVE  Locate(point.at, Ring(r.geometry)) = "outside"
  <1> DEFINE hits == {q \in rois : /\ q.geometry.space = point.space
                                   /\ Location(point, q) # "outside"}
             hit == CHOOSE q \in hits : q.id = Least(Ids(hits))
  <1>1. CASE hits = {}
    <2>1. Location(point, r) = "outside"
      BY <1>1
    <2> QED BY <2>1 DEF Location
  <1>2. CASE hits # {}
    <2>1. Ids(hits) \subseteq Nat /\ Ids(hits) # {}
      BY <1>2 DEF Ids
    <2>2. Least(Ids(hits)) \in Ids(hits)
      BY <2>1, LeastOfNat
    <2>3. \E q \in hits : q.id = Least(Ids(hits))
      BY <2>2 DEF Ids
    <2>4. hit \in hits
      BY <2>3
    <2>5. RoiPass(point, rois).roi = hit.id
      BY <1>2 DEF RoiPass
    <2> QED BY <2>4, <2>5
  <1> QED BY <1>1, <1>2

\* What an evaluation without an error tells of a point that is not private.
LEMMA NotPrivate ==
    ASSUME NEW lay, NEW st, NEW camera, NEW point,
           NEW zones, NEW tables,
           Evaluate(lay, st, camera, point, zones, tables).error = None,
           Evaluate(lay, st, camera, point, zones, tables).status # "privacy"
    PROVE  LET pass == RoiPass(point,
                           Declared(lay, "privacy_roi", camera.privacy))
           IN  camera # None /\ pass.error = None /\ pass.roi = None
  <1> DEFINE pass == RoiPass(point,
                         Declared(lay, "privacy_roi", camera.privacy))
             answer == Evaluate(lay, st, camera, point, zones, tables)
             error == ReferenceError(lay, camera, zones, tables)
  <1>1. /\ Raise("invalid_input").error # None
        /\ Raise("not_published").error # None
        /\ Raise("camera_not_in_configuration").error # None
        /\ \A e : e # None => Raise(e).error # None
    BY NoErrorAssumption DEF Errors, Raise
  <1>2. Observation("privacy", None, None, {}).status = "privacy"
    BY DEF Observation
  <1>3. CASE ~ValidPoint(point)
    BY <1>1, <1>3 DEF Evaluate
  <1>4. CASE ValidPoint(point) /\ st # "published"
    BY <1>1, <1>4 DEF Evaluate
  <1>5. CASE ValidPoint(point) /\ st = "published" /\ camera = None
    BY <1>1, <1>5 DEF Evaluate
  <1>6. CASE ValidPoint(point) /\ st = "published" /\ camera # None
    <2>1. error # None => answer = Raise(error)
      BY <1>6 DEF Evaluate
    <2>2. error = None /\ pass.error # None => answer = Raise(pass.error)
      BY <1>6 DEF Evaluate
    <2>3. error = None /\ pass.error = None /\ pass.roi # None =>
             answer = Observation("privacy", None, None, {})
      BY <1>6 DEF Evaluate
    <2> QED BY <1>1, <1>2, <1>6, <2>1, <2>2, <2>3
  <1> QED BY <1>3, <1>4, <1>5, <1>6

Sightings == [track : {1}, frame : Nat, time : Nat,
              point : {PointAt(p) : p \in Positions}]

\* What was seen last is what one profile of the camera makes of the last point.
SightInv ==
    /\ layout \in Layouts
    /\ path \in Seq(Sightings)
    /\ seen # None =>
         /\ stage = "published" /\ path # <<>>
         /\ \E c \in ResolveCamera(layout, Physical) :
               seen = Evaluate(layout, stage, c, path[Len(path)].point, <<>>, <<>>)

LEMMA InitSight == SpatialInit => SightInv
  BY DEF SpatialInit, SightInv

LEMMA NextSight == SightInv /\ [SpatialNext]_spatialVars => SightInv'
  <1> SUFFICES ASSUME SightInv, [SpatialNext]_spatialVars PROVE SightInv'
    OBVIOUS
  <1>1. CASE Validate \/ PublishContent
    <2>1. stage # "published" /\ UNCHANGED <<layout, space, path, seen>>
      BY <1>1 DEF Validate, PublishContent
    <2>2. Sightings' = Sightings
      BY <2>1 DEF Sightings, PointAt
    <2> QED BY <2>1, <2>2 DEF SightInv
  <1>2. CASE Frame
    <2> DEFINE at(p) == Sighting(p)
    <2>1. PICK p \in Positions, c \in ResolveCamera(layout, Physical) :
             /\ path' = Append(path, at(p))
             /\ seen' = Evaluate(layout, stage, c, PointAt(p), <<>>, <<>>)
      BY <1>2 DEF Frame
    <2>2. stage = "published" /\ UNCHANGED <<layout, stage, space>>
      BY <1>2 DEF Frame
    <2>3. Sightings' = Sightings
      BY <2>2 DEF Sightings, PointAt
    <2>4. at(p) \in Sightings /\ at(p).point = PointAt(p)
      BY LenProperties DEF SightInv, Sighting, Sightings
    <2> HIDE DEF at
    <2>5. /\ path' \in Seq(Sightings) /\ path' # <<>>
          /\ path'[Len(path')] = at(p)
      BY <2>1, <2>4, AppendProperties DEF SightInv
    <2>6. seen' = Evaluate(layout, stage, c, path'[Len(path')].point, <<>>, <<>>)
      BY <2>1, <2>4, <2>5
    <2> QED BY <2>2, <2>3, <2>5, <2>6 DEF SightInv
  <1>3. CASE UNCHANGED spatialVars
    <2>1. UNCHANGED <<layout, stage, space, path, seen>>
      BY <1>3 DEF spatialVars
    <2>2. Sightings' = Sightings
      BY <2>1 DEF Sightings, PointAt
    <2> QED BY <2>1, <2>2 DEF SightInv
  <1> QED BY <1>1, <1>2, <1>3 DEF SpatialNext

LEMMA SightIsPrivate ==
    ASSUME SightInv
    PROVE  PrivacyIsSupreme
  <1> DEFINE point == path[Len(path)].point
  <1> SUFFICES ASSUME seen # None, seen.error = None, seen.status # "privacy",
                      NEW r \in Of(layout, "privacy_roi"), r.geometry.space = space,
                      \A c \in ResolveCamera(layout, Physical) : r.id \in c.privacy
               PROVE  Locate(point.at, Ring(r.geometry)) = "outside"
    BY DEF PrivacyIsSupreme
  <1>1. PICK c \in ResolveCamera(layout, Physical) :
           seen = Evaluate(layout, stage, c, point, <<>>, <<>>)
    BY DEF SightInv
  <1>2. path[Len(path)] \in Sightings
    BY LenProperties DEF SightInv
  <1>3. point.space = space
    BY <1>2 DEF Sightings, PointAt, Point
  <1> DEFINE rois == Declared(layout, "privacy_roi", c.privacy)
  <1> HIDE DEF point
  <1>4. RoiPass(point, rois).error = None /\ RoiPass(point, rois).roi = None
    BY <1>1, NotPrivate
  <1>5. r \in rois /\ \A q \in rois : q.id \in Nat /\ q.id # None
    BY LayoutsAssumption DEF Declared, Of, SightInv
  <1> HIDE DEF rois
  <1> QED BY <1>3, <1>4, <1>5, NoRegionHit

\* A point within a privacy region that every profile of its camera declares is never
\* told as anything but private, for any contents, geometries and paths.
THEOREM PrivacyComesFirst == SpatialSpec => []PrivacyIsSupreme
  <1>1. SightInv => PrivacyIsSupreme
    BY SightIsPrivate
  <1> QED BY <1>1, InitSight, NextSight, PTL DEF SpatialSpec

-----------------------------------------------------------------------------
(* The lines it crossed.                                                   *)

\* What a line that tells directions says of a movement.
Directed(p, q, line) == ClassifyCrossing(p, q, line, TRUE)

\* The ends of the line are on different sides of the movement.
Passing(p, q, line) ==
    {SideOfLine(p, q, line[1]), SideOfLine(p, q, line[2])} = {"left", "right"}

\* What a directed straight line says of a movement that touches it nowhere, and
\* that passes between its ends if it changes sides.
LEMMA StraightCrossing ==
    ASSUME NEW p, NEW q, NEW line, Len(line) = 2,
           NEW from \in {"left", "right"}, from = SideOfLine(line[1], line[2], p),
           NEW to \in {"left", "right"}, to = SideOfLine(line[1], line[2], q),
           from # to => Passing(p, q, line)
    PROVE  Directed(p, q, line).direction =
             IF from = to THEN "unknown" ELSE IF from = "left" THEN "forward" ELSE "reverse"
  <1> DEFINE edges   == [i \in 1..(Len(line) - 1) |-> <<line[i], line[i + 1]>>]
             touched == \E i \in DOMAIN edges : OnSegment(edges[i][1], edges[i][2], p)
                                                \/ OnSegment(edges[i][1], edges[i][2], q)
             crossed == {i \in DOMAIN edges : CrossesEdge(p, q, edges[i])}
             edge    == edges[Least(crossed)]
             verdict == IF touched \/ crossed = {} THEN NoCrossing
                        ELSE Crossing(None, "crossed",
                               IF SideOfLine(edge[1], edge[2], p) = "left"
                                  /\ SideOfLine(edge[1], edge[2], q) = "right"
                               THEN "forward" ELSE "reverse")
  <1>1. Directed(p, q, line) = verdict
    BY DEF Directed, ClassifyCrossing
  <1>2. DOMAIN edges = {1} /\ edges[1][1] = line[1] /\ edges[1][2] = line[2]
    OBVIOUS
  <1>4. SignedSide(line[1], line[2], p) # 0 /\ SignedSide(line[1], line[2], q) # 0
    BY DEF SideOfLine
  <1>5. ~touched
    <2> HIDE DEF edges
    <2> QED BY <1>2, <1>4 DEF OnSegment
  <1>6. CrossesEdge(p, q, edges[1]) <=> from # to
    <2>1. from # to => {SideOfLine(p, q, line[1]), SideOfLine(p, q, line[2])} = {"left", "right"}
      BY DEF Passing
    <2>2. from # to => /\ SideOfLine(p, q, line[1]) # SideOfLine(p, q, line[2])
                   /\ SideOfLine(p, q, line[1]) # "on_line"
                   /\ SideOfLine(p, q, line[2]) # "on_line"
      BY <2>1
    <2> HIDE DEF edges
    <2> QED BY <1>2, <2>2 DEF CrossesEdge
  <1> HIDE DEF edges, touched
  <1>7. CASE from = to
    <2>1. crossed = {}
      BY <1>2, <1>6, <1>7
    <2>2. verdict = NoCrossing
      BY <2>1
    <2> HIDE DEF verdict
    <2>3. verdict.direction = "unknown"
      BY <2>2 DEF NoCrossing, Crossing
    <2> QED BY <1>1, <1>7, <2>3
  <1>8. CASE from # to
    <2>1. crossed = {1}
      BY <1>2, <1>6, <1>8
    <2>2. Least(crossed) = 1
      BY <2>1, LeastOfNat
    <2>3. edge[1] = line[1] /\ edge[2] = line[2]
      BY <1>2, <2>2
    <2> HIDE DEF crossed
    <2>4. verdict = Crossing(None, "crossed",
                      IF from = "left" /\ to = "right" THEN "forward" ELSE "reverse")
      BY <1>5, <2>1, <2>3
    <2> HIDE DEF verdict
    <2>5. verdict.direction = IF from = "left" THEN "forward" ELSE "reverse"
      BY <1>8, <2>4 DEF Crossing
    <2> QED BY <1>1, <1>8, <2>5
  <1> QED BY <1>7, <1>8

\* Of steps between two sides, those that go up and those that go down differ by
\* the sides of the ends.
LEMMA StepsBalance ==
    ASSUME NEW n \in Nat, NEW side \in [1..(n + 1) -> {0, 1}],
           NEW up \in SUBSET (1..n), NEW down \in SUBSET (1..n),
           \A i \in 1..n : /\ i \in up   <=> side[i] = 0 /\ side[i + 1] = 1
                           /\ i \in down <=> side[i] = 1 /\ side[i + 1] = 0
    PROVE  Cardinality(up) - Cardinality(down) = side[n + 1] - side[1]
  <1> DEFINE Up(m)   == up \cap (1..m)
             Down(m) == down \cap (1..m)
             Holds(m) == Cardinality(Up(m)) - Cardinality(Down(m)) = side[m + 1] - side[1]
             Off     == {m \in 0..n : ~Holds(m)}
             R       == OpToRel(<, Nat)
  <1>1. Holds(0)
    <2>1. Up(0) = {} /\ Down(0) = {}
      OBVIOUS
    <2>2. Cardinality(Up(0)) = 0 /\ Cardinality(Down(0)) = 0
      BY <2>1, FS_EmptySet
    <2>3. side[1] \in Int /\ 0 + 1 = 1
      OBVIOUS
    <2> HIDE DEF Up, Down
    <2> QED BY <2>2, <2>3
  <1>2. ASSUME NEW m \in 0..n, m < n, Holds(m) PROVE Holds(m + 1)
    <2>1. /\ m \in Nat /\ m + 1 \in 1..n /\ m + 1 \in 1..(n + 1) /\ m + 2 \in 1..(n + 1)
          /\ 1 \in 1..(n + 1) /\ (m + 1) + 1 = m + 2
      BY <1>2
    <2>2. side[m + 1] \in {0, 1} /\ side[m + 2] \in {0, 1} /\ side[1] \in {0, 1}
      BY <2>1
    <2>3. /\ m + 1 \in up   <=> side[m + 1] = 0 /\ side[m + 2] = 1
          /\ m + 1 \in down <=> side[m + 1] = 1 /\ side[m + 2] = 0
      BY <2>1
    <2>4. /\ IsFiniteSet(Up(m)) /\ Cardinality(Up(m)) \in Int
          /\ IsFiniteSet(Down(m)) /\ Cardinality(Down(m)) \in Int
      <3>1. IsFiniteSet(1..m)
        BY FS_Interval
      <3>2. Up(m) \in SUBSET (1..m) /\ Down(m) \in SUBSET (1..m)
        OBVIOUS
      <3> HIDE DEF Up, Down
      <3>3. IsFiniteSet(Up(m)) /\ IsFiniteSet(Down(m))
        BY <3>1, <3>2, FS_Subset
      <3> QED BY <3>3, FS_CardinalityType
    <2>5. /\ Up(m + 1) = IF m + 1 \in up THEN Up(m) \cup {m + 1} ELSE Up(m)
          /\ Down(m + 1) = IF m + 1 \in down THEN Down(m) \cup {m + 1} ELSE Down(m)
      <3>1. 1..(m + 1) = (1..m) \cup {m + 1}
        BY <2>1
      <3> QED BY <3>1
    <2>6. m + 1 \notin Up(m) /\ m + 1 \notin Down(m)
      BY <2>1
    <2>7. /\ Cardinality(Up(m) \cup {m + 1}) = Cardinality(Up(m)) + 1
          /\ Cardinality(Down(m) \cup {m + 1}) = Cardinality(Down(m)) + 1
      <3> HIDE DEF Up, Down
      <3> QED BY <2>4, <2>6, FS_AddElement
    <2>8. Cardinality(Up(m)) - Cardinality(Down(m)) = side[m + 1] - side[1]
      BY <1>2
    <2> DEFINE u == Cardinality(Up(m))  d == Cardinality(Down(m))
               v == Cardinality(Up(m + 1))  w == Cardinality(Down(m + 1))
    <2>9. /\ v = IF m + 1 \in up THEN u + 1 ELSE u
          /\ w = IF m + 1 \in down THEN d + 1 ELSE d
      <3> HIDE DEF Up, Down
      <3> QED BY <2>5, <2>7
    <2>10. u \in Int /\ d \in Int /\ u - d = side[m + 1] - side[1]
      BY <2>4, <2>8
    <2> HIDE DEF u, d, v, w
    <2>11. v - w = side[m + 2] - side[1]
      BY <2>2, <2>3, <2>9, <2>10
    <2> HIDE DEF Up, Down
    <2> QED BY <2>1, <2>11 DEF v, w
  <1>3. Off = {}
    <2> SUFFICES ASSUME Off # {} PROVE FALSE
      OBVIOUS
    <2>1. IsWellFoundedOn(R, Nat)
      BY NatLessThanWellFounded
    <2>2. Off \subseteq Nat
      OBVIOUS
    <2> HIDE DEF R, Holds
    <2>3. PICK m \in Off : \A k \in Off : <<k, m>> \notin R
      <3> HIDE DEF Off
      <3> QED BY <2>1, <2>2, WFMin
    <2>4. m \in 0..n /\ ~Holds(m)
      BY <2>3
    <2>5. m # 0
      BY <1>1, <2>4
    <2>6. m - 1 \in 0..n /\ m - 1 < n /\ (m - 1) + 1 = m /\ m - 1 < m
      BY <2>4, <2>5
    <2>7. <<m - 1, m>> \in R
      BY <2>4, <2>6 DEF OpToRel, R
    <2>8. Holds(m - 1)
      BY <2>3, <2>6, <2>7
    <2>9. Holds((m - 1) + 1)
      BY <1>2, <2>6, <2>8
    <2> QED BY <2>4, <2>6, <2>9
  <1>4. Holds(n)
    <2> HIDE DEF Holds
    <2> QED BY <1>3
  <1>5. Up(n) = up /\ Down(n) = down
    OBVIOUS
  <1> QED BY <1>4, <1>5

\* An evaluation that raises nothing is that of the line.
LEMMA NothingRaised ==
    ASSUME NEW content, NEW c, NEW s, NEW t, NEW e, e.direction # "bidirectional",
           EvaluateCrossing(content, "published", c, s, t, e).error = None
    PROVE  EvaluateCrossing(content, "published", c, s, t, e).direction =
             Directed(s.point.at, t.point.at, e.geometry.coordinates).direction
  <1> DEFINE verdict == EvaluateCrossing(content, "published", c, s, t, e)
             line(d) == ClassifyCrossing(s.point.at, t.point.at, e.geometry.coordinates, d)
  <1>1. (e.direction # "bidirectional") = TRUE
    OBVIOUS
  <1>2. \/ \E x \in Errors : verdict = Crossing(x, None, None)
        \/ verdict = line(e.direction # "bidirectional")
    <2> HIDE DEF line
    <2> QED BY DEF EvaluateCrossing, Errors, line
  <1> HIDE DEF line, verdict
  <1>3. verdict.error = None
    BY DEF verdict
  <1>4. ~\E x \in Errors : verdict = Crossing(x, None, None)
    BY <1>3, NoErrorAssumption DEF Crossing
  <1>5. verdict = line(TRUE)
    BY <1>1, <1>2, <1>4
  <1> QED BY <1>5 DEF Directed, line, verdict

\* The crossings of a line are the verdicts on the movements of the track, in turn.
Verdicts(e) == {EvaluateCrossing(layout, "published", c, s, t, e) :
                    c \in ResolveCamera(layout, Physical), s \in Sightings, t \in Sightings}

Recorded(e) ==
    /\ crossings[e] \in Seq(Verdicts(e))
    /\ Len(crossings[e]) = IF path = <<>> THEN 0 ELSE Len(path) - 1
    /\ \A i \in 1..(Len(path) - 1) : \E c \in ResolveCamera(layout, Physical) :
         crossings[e][i] = EvaluateCrossing(layout, "published", c, path[i], path[i + 1], e)

CrossingsInv ==
    /\ stage # "published" => path = <<>>
    /\ \A e \in DOMAIN crossings : Recorded(e)

LEMMA InitCrossings == SpatialInit => CrossingsInv
  <1> SUFFICES ASSUME SpatialInit PROVE CrossingsInv
    OBVIOUS
  <1>1. path = <<>> /\ \A e \in DOMAIN crossings : crossings[e] = <<>>
    BY DEF SpatialInit
  <1>2. Len(<<>>) = 0 /\ 1..(0 - 1) = {} /\ \A S : <<>> \in Seq(S)
    BY EmptySeq
  <1>3. \A e \in DOMAIN crossings : Recorded(e)
    BY <1>1, <1>2 DEF Recorded
  <1> QED BY <1>1, <1>3 DEF CrossingsInv

LEMMA NextCrossings == SightInv /\ CrossingsInv /\ [SpatialNext]_spatialVars => CrossingsInv'
  <1> SUFFICES ASSUME SightInv, CrossingsInv, [SpatialNext]_spatialVars PROVE CrossingsInv'
    OBVIOUS
  <1>1. CASE Validate \/ PublishContent \/ UNCHANGED spatialVars
    <2>1. UNCHANGED <<layout, space, path, crossings>>
      BY <1>1 DEF Validate, PublishContent, spatialVars
    <2>2. stage' # "published" => path = <<>>
      BY <1>1 DEF Validate, PublishContent, spatialVars, CrossingsInv
    <2>3. \A e : Verdicts(e)' = Verdicts(e)
      BY <2>1 DEF Verdicts, Sightings, PointAt
    <2> QED BY <2>1, <2>2, <2>3 DEF CrossingsInv, Recorded
  <1>2. CASE Frame
    <2> DEFINE at(p) == Sighting(p)
               new(c, p, e) == EvaluateCrossing(layout, stage, c, path[Len(path)], at(p), e)
    <2>1. PICK p \in Positions, c \in ResolveCamera(layout, Physical) :
             /\ path' = Append(path, at(p))
             /\ crossings' = [e \in DOMAIN crossings |->
                  IF path = <<>> THEN crossings[e] ELSE Append(crossings[e], new(c, p, e))]
      BY <1>2 DEF Frame
    <2>2. stage = "published" /\ UNCHANGED <<layout, stage, space>>
      BY <1>2 DEF Frame
    <2>3. at(p) \in Sightings
      BY LenProperties DEF SightInv, Sighting, Sightings
    <2>4. Sightings' = Sightings
      BY <2>2 DEF Sightings, PointAt
    <2>5. \A e : Verdicts(e)' = Verdicts(e)
      BY <2>2, <2>4 DEF Verdicts
    <2> HIDE DEF at
    <2>6. /\ Len(path) \in Nat /\ Len(path') = Len(path) + 1 /\ path' # <<>>
          /\ path'[Len(path) + 1] = at(p)
          /\ \A i \in 1..Len(path) : path'[i] = path[i]
      BY <2>1, <2>3, AppendProperties, LenProperties DEF SightInv
    <2> SUFFICES ASSUME NEW e \in DOMAIN crossings PROVE Recorded(e)'
      BY <2>1, <2>2 DEF CrossingsInv
    <2>7. Recorded(e)
      BY DEF CrossingsInv
    <2>8. CASE path = <<>>
      <3>1. Len(path) = 0 /\ crossings'[e] = crossings[e]
        BY <2>1, <2>8
      <3> QED BY <2>5, <2>6, <2>7, <2>8, <3>1 DEF Recorded
    <2>9. CASE path # <<>>
      <3>1. crossings'[e] = Append(crossings[e], new(c, p, e))
        BY <2>1, <2>9
      <3>2. Len(path) \in 1..Len(path) /\ path[Len(path)] \in Sightings
        BY <2>9, LenProperties, EmptySeq DEF SightInv
      <3>3. new(c, p, e) \in Verdicts(e)
        BY <2>2, <2>3, <3>2 DEF Verdicts
      <3> DEFINE old == crossings[e]
      <3>4. old \in Seq(Verdicts(e)) /\ Len(old) = Len(path) - 1
        BY <2>7, <2>9 DEF Recorded
      <3>5. /\ crossings'[e] \in Seq(Verdicts(e)) /\ Len(crossings'[e]) = Len(path)
            /\ crossings'[e][Len(path)] = new(c, p, e)
            /\ \A i \in 1..(Len(path) - 1) : crossings'[e][i] = old[i]
        <4> DEFINE v == new(c, p, e)  V == Verdicts(e)  longer == Append(old, v)
        <4> HIDE DEF new, old, v, V
        <4>1. /\ longer \in Seq(V) /\ Len(longer) = Len(old) + 1
              /\ longer[Len(old) + 1] = v
              /\ \A i \in 1..Len(old) : longer[i] = old[i]
          BY <3>3, <3>4, AppendProperties DEF v, V
        <4>2. (Len(path) - 1) + 1 = Len(path)
          BY <2>6
        <4>3. crossings'[e] = longer
          BY <3>1 DEF v, old
        <4> HIDE DEF longer
        <4> QED BY <3>4, <4>1, <4>2, <4>3 DEF v, V
      <3>6. ASSUME NEW i \in 1..(Len(path') - 1)
            PROVE  \E d \in ResolveCamera(layout, Physical) :
                     crossings'[e][i] =
                       EvaluateCrossing(layout, "published", d, path'[i], path'[i + 1], e)
        <4>1. CASE i = Len(path)
          BY <2>2, <2>6, <3>2, <3>5, <4>1
        <4>2. CASE i # Len(path)
          <5>1. i \in 1..(Len(path) - 1) /\ i \in 1..Len(path) /\ i + 1 \in 1..Len(path)
            BY <2>6, <4>2
          <5> QED BY <2>6, <2>7, <3>5, <5>1 DEF Recorded
        <4> QED BY <4>1, <4>2
      <3> QED BY <2>2, <2>5, <2>6, <3>5, <3>6 DEF Recorded
    <2> QED BY <2>8, <2>9
  <1> QED BY <1>1, <1>2 DEF SpatialNext

LEMMA SightBalances ==
    ASSUME SightInv, CrossingsInv
    PROVE  CrossingsBalance
  <1> SUFFICES ASSUME NEW e \in DOMAIN crossings PROVE Balances(e)
    BY DEF CrossingsBalance
  <1> DEFINE line    == e.geometry.coordinates
             Where(i)   == path[i].point.at
             Side(i) == SideOfLine(line[1], line[2], Where(i))
             step    == crossings[e]
             n       == Len(path) - 1
             Count(d) == Cardinality({i \in 1..n : step[i].direction = d})
  <1> SUFFICES ASSUME path # <<>>, Len(line) = 2, e.direction # "bidirectional",
                      \A i \in DOMAIN path : Side(i) # "on_line",
                      \A i \in 1..n : Side(i) # Side(i + 1) =>
                        {SideOfLine(Where(i), Where(i + 1), line[1]),
                         SideOfLine(Where(i), Where(i + 1), line[2])} = {"left", "right"},
                      \A i \in DOMAIN step : step[i].error = None
               PROVE  /\ DOMAIN step = 1..n
                      /\ Count("forward") - Count("reverse") =
                           (IF Side(Len(path)) = "right" THEN 1 ELSE 0)
                             - (IF Side(1) = "right" THEN 1 ELSE 0)
    BY DEF Balances
  <1>1. n \in Nat /\ DOMAIN path = 1..(n + 1) /\ Len(path) = n + 1
    BY LenProperties, EmptySeq DEF SightInv
  <1>2. DOMAIN step = 1..n
    BY LenProperties DEF CrossingsInv, Recorded
  <1>3. ASSUME NEW i \in 1..n
        PROVE  step[i].direction = IF Side(i) = Side(i + 1) THEN "unknown"
                                   ELSE IF Side(i) = "left" THEN "forward" ELSE "reverse"
    <2>1. PICK c \in ResolveCamera(layout, Physical) :
             step[i] = EvaluateCrossing(layout, "published", c, path[i], path[i + 1], e)
      BY DEF CrossingsInv, Recorded
    <2>2. step[i].error = None
      BY <1>2
    <2>3. step[i].direction = Directed(Where(i), Where(i + 1), line).direction
      <3> DEFINE s == path[i]  t == path[i + 1]
      <3>1. EvaluateCrossing(layout, "published", c, s, t, e).error = None
        BY <2>1, <2>2
      <3> HIDE DEF step, s, t, Where, line, Side
      <3>2. EvaluateCrossing(layout, "published", c, s, t, e).direction =
             Directed(s.point.at, t.point.at, e.geometry.coordinates).direction
        BY <3>1, NothingRaised
      <3> QED BY <2>1, <3>2 DEF s, t, Where, line
    <2>4. i \in DOMAIN path /\ i + 1 \in DOMAIN path
      BY <1>1
    <2>5. /\ Side(i) # "on_line" /\ Side(i + 1) # "on_line"
          /\ Side(i) # Side(i + 1) =>
               {SideOfLine(Where(i), Where(i + 1), line[1]),
                SideOfLine(Where(i), Where(i + 1), line[2])} = {"left", "right"}
      BY <2>4
    <2> DEFINE p == Where(i)  q == Where(i + 1)
    <2> HIDE DEF p, q, line, step
    <2> DEFINE a == SideOfLine(line[1], line[2], p)  b == SideOfLine(line[1], line[2], q)
    <2>6. /\ a # "on_line" /\ b # "on_line" /\ Len(line) = 2
          /\ a # b => Passing(p, q, line)
      BY <2>5 DEF Passing, p, q
    <2>7. a \in {"left", "right"} /\ b \in {"left", "right"}
      BY <2>6 DEF SideOfLine
    <2>8. Directed(p, q, line).direction =
             IF a = b THEN "unknown" ELSE IF a = "left" THEN "forward" ELSE "reverse"
      BY ONLY <2>6, <2>7, StraightCrossing
    <2>9. step[i].direction = Directed(p, q, line).direction
      BY <2>3 DEF p, q
    <2>10. Side(i) = SideOfLine(line[1], line[2], p) /\ Side(i + 1) = SideOfLine(line[1], line[2], q)
      BY DEF p, q
    <2> HIDE DEF Side
    <2> QED BY <2>8, <2>9, <2>10
  <1> DEFINE side == [i \in 1..(n + 1) |-> IF Side(i) = "right" THEN 1 ELSE 0]
             Steps(d) == {i \in 1..n : step[i].direction = d}
  <1>4. \A i \in 1..(n + 1) : Side(i) \in {"left", "right"}
    BY <1>1 DEF SideOfLine
  <1> HIDE DEF Side, step
  <1>5. side \in [1..(n + 1) -> {0, 1}]
    OBVIOUS
  <1>6. \A i \in 1..n : /\ i \in Steps("forward") <=> side[i] = 0 /\ side[i + 1] = 1
                        /\ i \in Steps("reverse") <=> side[i] = 1 /\ side[i + 1] = 0
    <2> SUFFICES ASSUME NEW i \in 1..n
                 PROVE  /\ i \in Steps("forward") <=> side[i] = 0 /\ side[i + 1] = 1
                        /\ i \in Steps("reverse") <=> side[i] = 1 /\ side[i + 1] = 0
      OBVIOUS
    <2>1. i \in 1..(n + 1) /\ i + 1 \in 1..(n + 1)
      BY <1>1
    <2>2. Side(i) \in {"left", "right"} /\ Side(i + 1) \in {"left", "right"}
      BY <1>4, <2>1
    <2> HIDE DEF n
    <2> QED BY <1>3, <2>1, <2>2
  <1>7. /\ side[n + 1] = IF Side(Len(path)) = "right" THEN 1 ELSE 0
        /\ side[1] = IF Side(1) = "right" THEN 1 ELSE 0
    BY <1>1
  <1>8. Steps("forward") \in SUBSET (1..n) /\ Steps("reverse") \in SUBSET (1..n)
    OBVIOUS
  <1> DEFINE up == Steps("forward")  down == Steps("reverse")
  <1> HIDE DEF side, Steps, n
  <1>9. Cardinality(up) - Cardinality(down) = side[n + 1] - side[1]
    <2> HIDE DEF up, down
    <2> QED BY <1>1, <1>5, <1>6, <1>8, StepsBalance DEF up, down
  <1> QED BY <1>2, <1>7, <1>9 DEF Steps

\* A directed straight line that a track never touched, and passed only between its
\* ends, counts the movements of the track from side to side exactly, for any
\* contents, geometries and paths.
THEOREM CrossingsAreBalanced == SpatialSpec => []CrossingsBalance
  <1>1. SightInv /\ CrossingsInv => CrossingsBalance
    BY SightBalances
  <1> QED BY <1>1, InitSight, NextSight, InitCrossings, NextCrossings, PTL DEF SpatialSpec

-----------------------------------------------------------------------------
(* What validation lets pass is evaluated.                                 *)

FoldSum(f) == FoldFunction(+, 0, f)

\* A sum over a function is what adds up in whatever order it is taken.
AddsUp(n, f, total) ==
    /\ f \in [1..n -> Int] /\ total \in [SUBSET (1..n) -> Int]
    /\ total[{}] = 0
    /\ \A s \in SUBSET (1..n) : \A x \in s : total[s] = f[x] + total[s \ {x}]

LEMMA SumIs ==
    ASSUME NEW n \in Nat, NEW f, NEW total, AddsUp(n, f, total)
    PROVE  FoldSum(f) = total[1..n]
  <1> DEFINE some(s) == CHOOSE x \in s : TRUE
             Body(g) == [s \in SUBSET (1..n) |->
                           IF s = {} THEN 0 ELSE f[some(s)] + g[s \ {some(s)}]]
             G       == CHOOSE g : g = Body(g)
             Sizes   == {Cardinality(s) : s \in {t \in SUBSET (1..n) : G[t] # total[t]}}
             R       == OpToRel(<, Nat)
  <1> USE DEF AddsUp
  <1>1. \A s \in SUBSET (1..n) : s # {} => some(s) \in s
    OBVIOUS
  <1>2. FoldSum(f) = G[1..n]
    BY DEF FoldSum, FoldFunction, FoldFunctionOnSet, MapThenFoldSet
  <1> HIDE DEF some
  <1>3. G = Body(G)
    <2>1. total = Body(total)
      <3>1. \A s \in SUBSET (1..n) : total[s] = Body(total)[s]
        BY <1>1
      <3> QED BY <3>1
    <2> HIDE DEF Body
    <2> QED BY <2>1
  <1>4. \A s \in SUBSET (1..n) :
            G[s] = IF s = {} THEN 0 ELSE f[some(s)] + G[s \ {some(s)}]
    <2> HIDE DEF G
    <2> QED BY <1>3
  <1> HIDE DEF G, Body
  <1>5. ASSUME NEW s \in SUBSET (1..n) PROVE IsFiniteSet(s) /\ Cardinality(s) \in Nat
    <2>1. IsFiniteSet(1..n)
      BY FS_Interval
    <2>2. IsFiniteSet(s)
      BY <2>1, FS_Subset
    <2> QED BY <2>2, FS_CardinalityType
  <1>6. Sizes = {}
    <2> SUFFICES ASSUME Sizes # {} PROVE FALSE
      OBVIOUS
    <2>1. IsWellFoundedOn(R, Nat)
      BY NatLessThanWellFounded
    <2>2. Sizes \subseteq Nat
      BY <1>5
    <2> HIDE DEF R
    <2>3. PICK m \in Sizes : \A k \in Sizes : <<k, m>> \notin R
      <3> HIDE DEF Sizes
      <3> QED BY <2>1, <2>2, WFMin
    <2>4. PICK s \in SUBSET (1..n) : G[s] # total[s] /\ m = Cardinality(s)
      BY <2>3
    <2>5. s # {}
      BY <1>4, <2>4
    <2> DEFINE x == some(s)
    <2>6. x \in s /\ s \ {x} \in SUBSET (1..n)
      BY <1>1, <2>5
    <2>7. Cardinality(s \ {x}) = Cardinality(s) - 1
      BY <1>5, <2>6, FS_RemoveElement
    <2>8. <<Cardinality(s \ {x}), m>> \in R
      BY <1>5, <2>4, <2>6, <2>7 DEF OpToRel, R
    <2>9. G[s \ {x}] = total[s \ {x}]
      BY <2>3, <2>6, <2>8
    <2>10. G[s] = f[x] + G[s \ {x}] /\ total[s] = f[x] + total[s \ {x}]
      BY <1>4, <2>5, <2>6
    <2> QED BY <2>4, <2>9, <2>10
  <1>7. 1..n \in SUBSET (1..n) /\ \A s \in SUBSET (1..n) : G[s] = total[s]
    BY <1>6
  <1> HIDE DEF Sizes
  <1> QED BY <1>2, <1>7

LEMMA WithoutOne ==
    ASSUME NEW P, IsFiniteSet(P), NEW x
    PROVE  Cardinality(P \ {x}) = IF x \in P THEN Cardinality(P) - 1 ELSE Cardinality(P)
  <1>1. CASE x \in P
    BY <1>1, FS_RemoveElement
  <1>2. CASE x \notin P
    <2>1. P \ {x} = P
      BY <1>2
    <2> QED BY ONLY <1>2, <2>1
  <1> QED BY <1>1, <1>2

\* A closed ring of no more than two points has no area: as often as it goes from
\* one to the other it comes back.
LEMMA TwoPointsHaveNoArea ==
    ASSUME NEW ring, NEW n \in Nat, Len(ring) = n + 1,
           NEW A \in Int \X Int, NEW B \in Int \X Int,
           \A i \in 1..(n + 1) : ring[i] \in {A, B},
           ring[n + 1] = ring[1]
    PROVE  TwiceArea(ring) = 0
  <1> DEFINE k    == A[1] * B[2] - B[1] * A[2]
             side == [i \in 1..(n + 1) |-> IF ring[i] = A THEN 0 ELSE 1]
             up   == {i \in 1..n : side[i] = 0 /\ side[i + 1] = 1}
             down == {i \in 1..n : side[i] = 1 /\ side[i + 1] = 0}
             f    == [i \in 1..n |-> ring[i][1] * ring[i + 1][2] - ring[i + 1][1] * ring[i][2]]
             U(s) == Cardinality(up \cap s)
             D(s) == Cardinality(down \cap s)
             total == [s \in SUBSET (1..n) |-> k * (U(s) - D(s))]
  <1>1. TwiceArea(ring) = FoldSum(f)
    <2>1. Len(ring) - 1 = n
      OBVIOUS
    <2> QED BY <2>1 DEF TwiceArea, FoldSum
  <1>2. /\ A[1] \in Int /\ A[2] \in Int /\ B[1] \in Int /\ B[2] \in Int
        /\ A[1] * B[2] \in Int /\ B[1] * A[2] \in Int /\ A[1] * A[2] \in Int
        /\ B[1] * B[2] \in Int /\ k \in Int
    <2>1. A[1] \in Int /\ A[2] \in Int /\ B[1] \in Int /\ B[2] \in Int
      OBVIOUS
    <2> DEFINE a == A[1]  b == A[2]  c == B[1]  d == B[2]
    <2>2. a \in Int /\ b \in Int /\ c \in Int /\ d \in Int
      BY <2>1
    <2> HIDE DEF a, b, c, d
    <2>3. a * d \in Int /\ c * b \in Int /\ a * b \in Int /\ c * d \in Int
          /\ a * d - c * b \in Int
      BY ONLY <2>2
    <2> QED BY <2>1, <2>3 DEF a, b, c, d
  <1>3. ASSUME NEW i \in 1..n
        PROVE  f[i] = IF i \in up THEN k ELSE IF i \in down THEN -k ELSE 0
    <2>1. i \in 1..(n + 1) /\ i + 1 \in 1..(n + 1)
      OBVIOUS
    <2>2. ring[i] \in {A, B} /\ ring[i + 1] \in {A, B}
      BY <2>1
    <2>3. /\ side[i] = IF ring[i] = A THEN 0 ELSE 1
          /\ side[i + 1] = IF ring[i + 1] = A THEN 0 ELSE 1
      BY <2>1
    <2>4. f[i] = ring[i][1] * ring[i + 1][2] - ring[i + 1][1] * ring[i][2]
      OBVIOUS
    <2>5. CASE ring[i] = A /\ ring[i + 1] = A
      BY <1>2, <2>3, <2>4, <2>5
    <2>6. CASE ring[i] = A /\ ring[i + 1] = B /\ A # B
      <3>1. i \in up
        BY <2>3, <2>6
      <3> QED BY <2>4, <2>6, <3>1
    <2>7. CASE ring[i] = B /\ ring[i + 1] = A /\ A # B
      <3>1. i \in down /\ i \notin up
        BY <2>3, <2>7
      <3>2. f[i] = B[1] * A[2] - A[1] * B[2]
        BY <2>4, <2>7
      <3>3. B[1] * A[2] - A[1] * B[2] = -k
        BY ONLY <1>2
      <3> HIDE DEF f, k, up, down
      <3> QED BY <3>1, <3>2, <3>3
    <2>8. CASE ring[i] = B /\ ring[i + 1] = B /\ A # B
      <3>1. i \notin up /\ i \notin down
        BY <2>3, <2>8
      <3>2. f[i] = B[1] * B[2] - B[1] * B[2]
        BY <2>4, <2>8
      <3>3. f[i] = 0
        BY ONLY <1>2, <3>2
      <3> QED BY <3>1, <3>3
    <2> QED BY <2>2, <2>5, <2>6, <2>7, <2>8
  <1> HIDE DEF k
  <1>4. f \in [1..n -> Int]
    <2>1. -k \in Int
      BY <1>2
    <2>2. \A i \in 1..n : f[i] \in Int
      <3> HIDE DEF f, up, down
      <3> SUFFICES ASSUME NEW i \in 1..n PROVE f[i] \in Int
        OBVIOUS
      <3>1. f[i] = k \/ f[i] = -k \/ f[i] = 0
        BY <1>3
      <3>2. k \in Int
        BY <1>2
      <3> QED BY ONLY <2>1, <3>1, <3>2
    <2> QED BY <2>2
  <1> HIDE DEF f
  <1>5. ASSUME NEW s \in SUBSET (1..n)
        PROVE  /\ IsFiniteSet(up \cap s) /\ U(s) \in Int
               /\ IsFiniteSet(down \cap s) /\ D(s) \in Int
    <2>1. IsFiniteSet(1..n)
      BY FS_Interval
    <2>2. up \cap s \in SUBSET (1..n) /\ down \cap s \in SUBSET (1..n)
      OBVIOUS
    <2> HIDE DEF up, down
    <2>3. IsFiniteSet(up \cap s) /\ IsFiniteSet(down \cap s)
      BY <2>1, <2>2, FS_Subset
    <2> QED BY <2>3, FS_CardinalityType
  <1>6. up \cap down = {}
    OBVIOUS
  <1> HIDE DEF up, down
  <1>7. total \in [SUBSET (1..n) -> Int] /\ total[{}] = 0
    <2>1. \A s \in SUBSET (1..n) : k * (U(s) - D(s)) \in Int
      <3> SUFFICES ASSUME NEW s \in SUBSET (1..n) PROVE k * (U(s) - D(s)) \in Int
        OBVIOUS
      <3> DEFINE u == U(s)  d == D(s)
      <3>1. u \in Int /\ d \in Int
        BY <1>5
      <3> HIDE DEF u, d
      <3>2. k * (u - d) \in Int
        BY <1>2, <3>1
      <3> QED BY <3>2 DEF u, d
    <2>2. U({}) = 0 /\ D({}) = 0
      BY FS_EmptySet
    <2>3. total[{}] = k * (0 - 0)
      BY <2>2
    <2>4. k * (0 - 0) = 0
      BY <1>2
    <2> HIDE DEF U, D
    <2> QED BY <2>1, <2>3, <2>4
  <1>8. ASSUME NEW s \in SUBSET (1..n), NEW x \in s
        PROVE  total[s] = f[x] + total[s \ {x}]
    <2> DEFINE r == s \ {x}
    <2>1. r \in SUBSET (1..n) /\ x \in 1..n
      OBVIOUS
    <2>2. U(s) \in Int /\ D(s) \in Int
      BY <1>5
    <2>3. /\ U(r) = IF x \in up THEN U(s) - 1 ELSE U(s)
          /\ D(r) = IF x \in down THEN D(s) - 1 ELSE D(s)
      <3>1. up \cap r = (up \cap s) \ {x} /\ down \cap r = (down \cap s) \ {x}
        OBVIOUS
      <3>2. /\ x \in up <=> x \in up \cap s
            /\ x \in down <=> x \in down \cap s
        OBVIOUS
      <3>3. IsFiniteSet(up \cap s) /\ IsFiniteSet(down \cap s)
        BY <1>5
      <3> DEFINE P == up \cap s
                 Q == down \cap s
      <3>4. IsFiniteSet(P) /\ IsFiniteSet(Q)
        BY <3>3
      <3>5. U(s) = Cardinality(P) /\ D(s) = Cardinality(Q)
            /\ U(r) = Cardinality(P \ {x}) /\ D(r) = Cardinality(Q \ {x})
        BY <3>1
      <3>6. (x \in up <=> x \in P) /\ (x \in down <=> x \in Q)
        BY <3>2
      <3> HIDE DEF P, Q, U, D
      <3>7. /\ Cardinality(P \ {x}) = IF x \in P THEN Cardinality(P) - 1 ELSE Cardinality(P)
            /\ Cardinality(Q \ {x}) = IF x \in Q THEN Cardinality(Q) - 1 ELSE Cardinality(Q)
        BY ONLY <3>4, WithoutOne
      <3> QED BY ONLY <3>5, <3>6, <3>7
    <2>4. total[s] = k * (U(s) - D(s)) /\ total[r] = k * (U(r) - D(r))
      BY <2>1
    <2>5. f[x] = IF x \in up THEN k ELSE IF x \in down THEN -k ELSE 0
      BY <1>3, <2>1
    <2> DEFINE u == U(s)  d == D(s)
    <2> HIDE DEF u, d, r, total
    <2>6. \A p, q \in Int : /\ p * q = p + p * (q - 1)
                            /\ p * q = -p + p * (q + 1)
      OBVIOUS
    <2>7. u \in Int /\ d \in Int /\ u - d \in Int
      BY <2>2 DEF u, d
    <2>8. /\ k * (u - d) = k + k * ((u - d) - 1)
          /\ k * (u - d) = -k + k * ((u - d) + 1)
      BY <1>2, <2>6, <2>7
    <2>9. (u - 1) - d = (u - d) - 1 /\ u - (d - 1) = (u - d) + 1
      BY <2>7
    <2>10. CASE x \in up
      BY <1>6, <2>3, <2>4, <2>5, <2>8, <2>9, <2>10 DEF u, d, r
    <2>11. CASE x \in down
      BY <1>6, <2>3, <2>4, <2>5, <2>8, <2>9, <2>11 DEF u, d, r
    <2>12. CASE x \notin up /\ x \notin down
      <3>1. U(r) = U(s) /\ D(r) = D(s) /\ f[x] = 0
        BY <2>3, <2>5, <2>12
      <3>2. total[s] = k * (u - d) /\ total[r] = k * (u - d)
        BY ONLY <2>4, <3>1 DEF u, d
      <3>3. k * (u - d) \in Int
        BY <1>2, <2>7
      <3>4. total[s] = f[x] + total[r]
        BY ONLY <3>1, <3>2, <3>3
      <3> QED BY ONLY <3>4 DEF r
    <2> QED BY ONLY <2>10, <2>11, <2>12
  <1>9. FoldSum(f) = total[1..n]
    <2> HIDE DEF total
    <2>1. \A s \in SUBSET (1..n) : \A x \in s : total[s] = f[x] + total[s \ {x}]
      BY <1>8
    <2>2. total \in [SUBSET (1..n) -> Int] /\ total[{}] = 0
      BY ONLY <1>7
    <2>3. f \in [1..n -> Int]
      BY ONLY <1>4
    <2>4. AddsUp(n, f, total)
      BY ONLY <2>1, <2>2, <2>3 DEF AddsUp
    <2> QED BY ONLY n \in Nat, <2>4, SumIs
  <1>10. Cardinality(up) - Cardinality(down) = 0
    <2>1. side \in [1..(n + 1) -> {0, 1}]
      OBVIOUS
    <2>2. up \in SUBSET (1..n) /\ down \in SUBSET (1..n)
      BY DEF up, down
    <2>3. \A i \in 1..n : /\ i \in up   <=> side[i] = 0 /\ side[i + 1] = 1
                          /\ i \in down <=> side[i] = 1 /\ side[i + 1] = 0
      BY DEF up, down
    <2>4. side[n + 1] - side[1] = 0
      OBVIOUS
    <2> HIDE DEF side
    <2>5. Cardinality(up) - Cardinality(down) = side[n + 1] - side[1]
      BY <2>1, <2>2, <2>3, StepsBalance
    <2> QED BY <2>4, <2>5
  <1>11. total[1..n] = k * (Cardinality(up) - Cardinality(down))
    <2>1. up \cap (1..n) = up /\ down \cap (1..n) = down
      BY DEF up, down
    <2> QED BY <2>1
  <1> HIDE DEF total
  <1>12. k * 0 = 0
    BY <1>2
  <1> QED BY <1>1, <1>9, <1>10, <1>11, <1>12

\* So a ring that has an area has three points.
LEMMA AreaHasCorners ==
    ASSUME NEW g, g.coordinates \in Seq(Int \X Int), g.coordinates # <<>>,
           ~Degenerate(Ring(g))
    PROVE  Cardinality({Ring(g)[i] : i \in DOMAIN Ring(g)}) >= 3
  <1> DEFINE ring == Ring(g)
             n    == Len(ring) - 1
             S    == {ring[i] : i \in DOMAIN ring}
             f    == [i \in 1..Len(ring) |-> ring[i]]
  <1>1. /\ ring \in Seq(Int \X Int) /\ n \in Nat /\ Len(ring) = n + 1
        /\ DOMAIN ring = 1..(n + 1) /\ ring[n + 1] = ring[1]
    <2> DEFINE c == g.coordinates
    <2>1. Len(c) \in Nat /\ Len(c) >= 1 /\ DOMAIN c = 1..Len(c)
      BY LenProperties, EmptySeq
    <2>2. 1 \in DOMAIN c /\ c[1] \in Int \X Int
      BY <2>1
    <2>3. CASE c[1] = c[Len(c)]
      BY <2>1, <2>3 DEF Ring
    <2>4. CASE c[1] # c[Len(c)]
      <3>1. ring = Append(c, c[1])
        BY <2>4 DEF Ring
      <3> HIDE DEF c, ring
      <3>2. c \in Seq(Int \X Int)
        BY DEF c
      <3>3. /\ ring \in Seq(Int \X Int) /\ Len(ring) = Len(c) + 1
            /\ ring[Len(c) + 1] = c[1] /\ \A i \in 1..Len(c) : ring[i] = c[i]
        BY <2>2, <3>1, <3>2, AppendProperties
      <3> QED BY <2>1, <3>3, LenProperties
    <2> QED BY <2>3, <2>4
  <1> HIDE DEF ring
  <1>2. IsFiniteSet(S)
    <2>1. f \in Surjection(1..Len(ring), S) /\ IsFiniteSet(1..Len(ring))
      <3>1. IsFiniteSet(1..Len(ring))
        BY <1>1, FS_Interval
      <3>2. f \in [1..Len(ring) -> S] /\ \A y \in S : \E x \in 1..Len(ring) : f[x] = y
        BY <1>1
      <3> QED BY <3>1, <3>2 DEF Surjection
    <2> HIDE DEF f, S
    <2> QED BY <2>1, FS_Surjection
  <1>3. Cardinality(S) \in Nat
    BY <1>2, FS_CardinalityType
  <1>4. \A i \in 1..(n + 1) : ring[i] \in S /\ ring[i] \in Int \X Int
    <2>1. \A i \in 1..(n + 1) : ring[i] \in Int \X Int
      <3> HIDE DEF n
      <3> QED BY <1>1, ElementOfSeq
    <2>2. \A i \in 1..(n + 1) : i \in DOMAIN ring
      BY <1>1
    <2> QED BY <2>1, <2>2
  <1> DEFINE A == ring[1]
  <1>5. A \in S /\ A \in Int \X Int
    BY <1>1, <1>4
  <1>6. S \subseteq Int \X Int
    BY <1>1, <1>4
  <1> HIDE DEF S
  <1>7. ASSUME Cardinality(S) <= 2 PROVE FALSE
    <2>1. IsFiniteSet(S \ {A}) /\ Cardinality(S \ {A}) \in Nat /\ Cardinality(S \ {A}) <= 1
      <3>1. IsFiniteSet(S \ {A}) /\ Cardinality(S \ {A}) = Cardinality(S) - 1
        BY <1>2, <1>5, FS_RemoveElement
      <3>2. Cardinality(S \ {A}) \in Nat
        BY <3>1, FS_CardinalityType
      <3> QED BY <1>3, <1>7, <3>1, <3>2
    <2>2. \E B \in Int \X Int : S \subseteq {A, B}
      <3>1. CASE Cardinality(S \ {A}) = 0
        <4>1. S \ {A} = {}
          BY <2>1, <3>1, FS_EmptySet
        <4> QED BY <1>5, <4>1
      <3>2. CASE Cardinality(S \ {A}) = 1
        <4>1. PICK B : S \ {A} = {B}
          BY <2>1, <3>2, FS_Singleton
        <4> QED BY <1>6, <4>1
      <3> QED BY <2>1, <3>1, <3>2
    <2>3. PICK B \in Int \X Int : S \subseteq {A, B}
      BY <2>2
    <2>4. \A i \in 1..(n + 1) : ring[i] \in {A, B}
      BY <1>4, <2>3
    <2> HIDE DEF A, n
    <2>5. TwiceArea(ring) = 0
      BY <1>1, <1>5, <2>4, TwoPointsHaveNoArea
    <2> QED BY <2>5 DEF Degenerate, ring
  <1>8. Cardinality(S) >= 3
    BY <1>3, <1>7
  <1> QED BY <1>8 DEF S, ring

\* What the evaluation asks of an entity it locates points in.
Usable(entities) == \A e \in entities : ValidPolygon(e.geometry)

LEMMA UsableIsLocated ==
    ASSUME NEW entities, Usable(entities), NEW e \in entities, NEW point
    PROVE  Undefined(Location(point, e)) # "reference_integrity"
  <1>1. Location(point, e) \in {"boundary", "inside", "outside"}
    BY DEF Usable, Location, Locate
  <1> QED BY <1>1, NoErrorAssumption DEF Undefined, Errors

LEMMA RoisAreLocated ==
    ASSUME NEW rois, Usable(rois), \A r \in rois : r.id \in Nat, NEW point
    PROVE  RoiPass(point, rois).error # "reference_integrity"
  <1> DEFINE hits == {r \in rois : r.geometry.space = point.space /\ Location(point, r) # "outside"}
             hit  == CHOOSE r \in hits : r.id = Least(Ids(hits))
  <1>1. CASE hits = {}
    BY <1>1, NoErrorAssumption DEF RoiPass, Errors
  <1>2. CASE hits # {}
    <2>1. Ids(hits) \subseteq Nat /\ Ids(hits) # {}
      BY <1>2 DEF Ids
    <2>2. Least(Ids(hits)) \in Ids(hits)
      BY <2>1, LeastOfNat
    <2>3. \E r \in hits : r.id = Least(Ids(hits))
      BY <2>2 DEF Ids
    <2>4. hit \in hits
      BY <2>3
    <2>5. RoiPass(point, rois).error = Undefined(Location(point, hit))
      BY <1>2 DEF RoiPass
    <2>6. hit \in rois
      BY <2>4
    <2> HIDE DEF hit
    <2> QED BY <2>5, <2>6, UsableIsLocated
  <1> QED BY <1>1, <1>2

LEMMA EntitiesAreLocated ==
    ASSUME NEW entities, Usable(entities), \A e \in entities : e.id \in Nat, NEW point,
           NEW priority
    PROVE  Membership(point, entities, priority).error # "reference_integrity"
  <1> DEFINE unclear == {e \in entities : Location(point, e) \in {"boundary", "invalid"}}
             first   == CHOOSE e \in unclear : e.id = Least(Ids(unclear))
  <1>1. Membership(point, entities, priority).error =
          IF unclear = {} THEN None ELSE Undefined(Location(point, first))
    BY DEF Membership
  <1>2. CASE unclear = {}
    BY <1>1, <1>2, NoErrorAssumption DEF Errors
  <1>3. CASE unclear # {}
    <2>1. Ids(unclear) \subseteq Nat /\ Ids(unclear) # {}
      BY <1>3 DEF Ids
    <2>2. Least(Ids(unclear)) \in Ids(unclear)
      BY <2>1, LeastOfNat
    <2>3. \E e \in unclear : e.id = Least(Ids(unclear))
      BY <2>2 DEF Ids
    <2>4. first \in unclear
      BY <2>3
    <2>5. first \in entities
      BY <2>4
    <2> HIDE DEF first, unclear
    <2> QED BY <1>1, <1>3, <2>5, UsableIsLocated
  <1> QED BY <1>2, <1>3

\* An evaluation finds a reference broken when a pass does.
LEMMA FindsBroken ==
    ASSUME NEW content, NEW c, NEW point, NEW error, NEW privacy, NEW exclusion, NEW zones,
           NEW tables,
           error = ReferenceError(content, c, <<>>, <<>>),
           privacy = RoiPass(point, Declared(content, "privacy_roi", c.privacy)),
           exclusion = RoiPass(point, Declared(content, "exclusion_roi", c.exclusion)),
           zones = Membership(point, Declared(content, "zone", c.zones), <<>>),
           tables = Membership(point, Of(content, "table"), <<>>),
           Evaluate(content, "published", c, point, <<>>, <<>>).error = "reference_integrity"
    PROVE  /\ c # None
           /\ "reference_integrity" \in
                {error, privacy.error, exclusion.error, zones.error, tables.error}
  <1> DEFINE broken == "reference_integrity"
             answer == Evaluate(content, "published", c, point, <<>>, <<>>)
  <1>1. \/ answer \in {Raise("invalid_input"), Raise("camera_not_in_configuration"),
                       Raise("venue_point_required")}
        \/ c # None /\ answer \in {Raise(error), Raise(privacy.error), Raise(exclusion.error),
                                   Raise(Else(zones.error, tables.error))}
        \/ answer \in {Observation("privacy", None, None, {}),
                       Observation("excluded", None, None, {}), Combined(content, zones, tables)}
    BY DEF Evaluate
  <1>2. answer.error = broken
    OBVIOUS
  <1> HIDE DEF answer
  <1>3. \A x : Raise(x).error = x
    BY DEF Raise
  <1>4. \A s, z, t, k : Observation(s, z, t, k).error = None
    BY DEF Observation
  <1>5. Combined(content, zones, tables).error = None
    BY <1>4 DEF Combined
  <1>6. None # broken
    BY NoErrorAssumption DEF Errors
  <1>7. Else(zones.error, tables.error) \in {zones.error, tables.error}
    BY DEF Else
  <1>8. c # None /\ answer \in {Raise(error), Raise(privacy.error), Raise(exclusion.error),
                                Raise(Else(zones.error, tables.error))}
    BY <1>1, <1>2, <1>3, <1>4, <1>5, <1>6
  <1> QED BY <1>2, <1>3, <1>7, <1>8

\* What content that is hydrated and was found valid is.
Sane(content) ==
    /\ \A e \in content : ReferencesOf(e) \subseteq Ids(content)
    /\ \A e \in content : e.kind # "camera" =>
          Permits(e.kind, e.geometry) /\ Constructible(e.geometry, None)
    /\ \A e \in content : e.kind \in {"zone", "table", "privacy_roi", "exclusion_roi"} =>
          ValidPolygon(e.geometry)

LEMMA ValidIsSane ==
    ASSUME NEW content \in Layouts, Valid(content), HydratesEntities(content)
    PROVE  Sane(content)
  <1>1. ASSUME NEW code, code \notin WarningCodes, NEW e \in content
        PROVE  Finding(code, e) \notin RunAllValidators(content)
    BY <1>1 DEF Valid, IsError, Finding
  <1>2. ASSUME NEW e \in content PROVE ReferencesOf(e) \subseteq Ids(content)
    <2> SUFFICES ASSUME ReferencesOf(e) \ Ids(content) # {} PROVE FALSE
      OBVIOUS
    <2>1. Finding("MISSING_REFERENCE", e) \in RunAllValidators(content)
      BY DEF References, RunAllValidators
    <2> QED BY <1>1, <2>1 DEF WarningCodes
  <1>3. ASSUME NEW e \in content, e.kind # "camera"
        PROVE  /\ e.geometry # None
               /\ Permits(e.kind, e.geometry) /\ Constructible(e.geometry, None)
               /\ e.geometry.type = "polygon" => ~Degenerate(Ring(e.geometry))
    <2>1. e.geometry # None /\ e \in GeometryEntities(content)
      BY <1>3 DEF HydratesEntities, GeometryEntities
    <2>2. Constructible(e.geometry, None)
      BY <2>1 DEF HydratesEntities
    <2>3. Permits(e.kind, e.geometry)
      <3> SUFFICES ASSUME ~Permits(e.kind, e.geometry) PROVE FALSE
        OBVIOUS
      <3>1. Finding("ENTITY_GEOMETRY_CONTRACT_VIOLATION", e) \in Geometries(content)
        BY <2>1 DEF Geometries
      <3>2. Finding("ENTITY_GEOMETRY_CONTRACT_VIOLATION", e) \in RunAllValidators(content)
        BY <3>1 DEF RunAllValidators
      <3> QED BY <1>1, <3>2 DEF WarningCodes
    <2>4. e.geometry.type = "polygon" => ~Degenerate(Ring(e.geometry))
      <3> SUFFICES ASSUME e.geometry.type = "polygon", Degenerate(Ring(e.geometry)) PROVE FALSE
        OBVIOUS
      <3>1. Finding("GEOMETRY_ZERO_AREA", e) \in Geometries(content)
        BY <2>1, <2>3 DEF Geometries
      <3>2. Finding("GEOMETRY_ZERO_AREA", e) \in RunAllValidators(content)
        BY <3>1 DEF RunAllValidators
      <3> QED BY <1>1, <3>2 DEF WarningCodes
    <2> QED BY <2>1, <2>2, <2>3, <2>4
  <1>4. ASSUME NEW e \in content,
               e.kind \in {"zone", "table", "privacy_roi", "exclusion_roi"}
        PROVE  ValidPolygon(e.geometry)
    <2> DEFINE g == e.geometry
    <2>1. e.kind # "camera"
      BY <1>4
    <2>2. g # None /\ Constructible(g, None) /\ Permits(e.kind, g)
          /\ (g.type = "polygon" => ~Degenerate(Ring(g)))
      BY <1>3, <2>1
    <2>3. g.type = "polygon"
      BY <1>4, <2>2 DEF Permits
    <2>4. g.coordinates \in Seq(Int \X Int)
      BY <2>2, LayoutsAssumption
    <2> HIDE DEF g
    <2>5. Len(g.coordinates) >= 4
      BY <2>2, <2>3 DEF Constructible
    <2>6. g.coordinates # <<>>
      BY <2>5, EmptySeq
    <2>7. Cardinality({Ring(g)[i] : i \in DOMAIN Ring(g)}) >= 3
      BY <2>2, <2>3, <2>4, <2>6, AreaHasCorners
    <2>8. g.space = "image_normalized" => \A i \in DOMAIN g.coordinates : InUnit(g.coordinates[i])
      BY <2>2 DEF Constructible
    <2>9. ValidPolygon(g)
      BY <2>2, <2>3, <2>7, <2>8 DEF ValidPolygon
    <2> QED BY <2>9 DEF g
  <1> QED BY <1>2, <1>3, <1>4 DEF Sane

\* What has been published was found valid, with a list of crossings per entrance.
ValidInv ==
    /\ stage # "draft" => Valid(layout) /\ HydratesEntities(layout)
    /\ DOMAIN crossings = Of(layout, "entrance")
    /\ space \in Spaces

LEMMA InitValid == SpatialInit => ValidInv
  BY DEF SpatialInit, ValidInv

LEMMA NextValid == ValidInv /\ [SpatialNext]_spatialVars => ValidInv'
  <1> SUFFICES ASSUME ValidInv, [SpatialNext]_spatialVars PROVE ValidInv'
    OBVIOUS
  <1>1. UNCHANGED <<layout, space>> /\ DOMAIN crossings' = DOMAIN crossings
    BY DEF SpatialNext, Validate, PublishContent, Frame, spatialVars
  <1>2. stage' # "draft" => Valid(layout) /\ HydratesEntities(layout)
    BY DEF SpatialNext, Validate, PublishContent, Frame, spatialVars, Hydrates, ValidInv
  <1>3. Valid(layout)' = Valid(layout) /\ HydratesEntities(layout)' = HydratesEntities(layout)
    BY <1>1
  <1> QED BY <1>1, <1>2, <1>3 DEF ValidInv

LEMMA SaneEvaluates ==
    ASSUME NEW content, Sane(content), \A e \in content : e.id \in Nat, NEW c \in content, c.kind = "camera",
           NEW point,
           c.zones \cap (Ids(content) \ Ids(Of(content, "zone"))) = {},
           c.privacy \cap (Ids(content) \ Ids(Of(content, "privacy_roi"))) = {},
           c.exclusion \cap (Ids(content) \ Ids(Of(content, "exclusion_roi"))) = {},
           \A z \in Of(content, "zone") :
              z.tables \cap (Ids(content) \ Ids(Of(content, "table"))) = {}
    PROVE  Evaluate(content, "published", c, point, <<>>, <<>>).error # "reference_integrity"
  <1> DEFINE error     == ReferenceError(content, c, <<>>, <<>>)
             privacy   == RoiPass(point, Declared(content, "privacy_roi", c.privacy))
             exclusion == RoiPass(point, Declared(content, "exclusion_roi", c.exclusion))
             zones     == Membership(point, Declared(content, "zone", c.zones), <<>>)
             tables    == Membership(point, Of(content, "table"), <<>>)
             broken    == "reference_integrity"
  <1>1. \A e \in content : e.kind \in {"zone", "table", "privacy_roi", "exclusion_roi"} =>
          ValidPolygon(e.geometry) /\ Permits(e.kind, e.geometry)
    BY DEF Sane
  <1>2. ASSUME NEW kind \in {"zone", "table", "privacy_roi", "exclusion_roi"}, NEW refs
        PROVE  /\ Usable(Declared(content, kind, refs)) /\ Usable(Of(content, kind))
               /\ \A e \in Declared(content, kind, refs) : e.id \in Nat /\ Permits(kind, e.geometry)
               /\ \A e \in Of(content, kind) : e.id \in Nat
    BY <1>1 DEF Usable, Declared, Of
  <1>3. privacy.error # broken /\ exclusion.error # broken
    BY <1>2, RoisAreLocated
  <1>4. zones.error # broken /\ tables.error # broken
    BY <1>2, EntitiesAreLocated
  <1>5. error # broken
    <2>1. /\ c.zones \subseteq Ids(content) /\ c.privacy \subseteq Ids(content)
          /\ c.exclusion \subseteq Ids(content)
      BY DEF Sane, ReferencesOf
    <2>2. /\ c.zones \subseteq Ids(Of(content, "zone"))
          /\ c.privacy \subseteq Ids(Of(content, "privacy_roi"))
          /\ c.exclusion \subseteq Ids(Of(content, "exclusion_roi"))
      BY <2>1
    <2>3. UNION {z.tables : z \in Of(content, "zone")} \subseteq Ids(Of(content, "table"))
      <3> SUFFICES ASSUME NEW z \in Of(content, "zone") PROVE z.tables \subseteq Ids(Of(content, "table"))
        OBVIOUS
      <3>1. z \in content
        BY DEF Of
      <3>2. z.tables \subseteq Ids(content)
        BY <3>1 DEF Sane, ReferencesOf
      <3> QED BY <3>2
    <2>4. /\ ~BrokenRefs(content, "zone", c.zones)
          /\ ~BrokenRefs(content, "table", Ids(Of(content, "table")))
          /\ ~BrokenRefs(content, "privacy_roi", c.privacy)
          /\ ~BrokenRefs(content, "exclusion_roi", c.exclusion)
      BY <1>2, <2>2 DEF BrokenRefs
    <2>5. \A declared : BrokenPriority(<<>>, declared) = None
      BY DEF BrokenPriority, IsInjective, Range
    <2>6. error = None
      BY <2>3, <2>4, <2>5 DEF ReferenceError, Else
    <2> QED BY <2>6, NoErrorAssumption DEF Errors
  <1> HIDE DEF error, privacy, exclusion, zones, tables
  <1> QED BY <1>3, <1>4, <1>5, FindsBroken DEF error, privacy, exclusion, zones, tables

\* An entrance line of content that is sane evaluates, but for one that is a polygon.
LEMMA SaneCrosses ==
    ASSUME NEW content, Sane(content), NEW c, NEW e \in Of(content, "entrance"), NEW s, NEW t,
           t.point.space \in {"venue_local", "image_normalized"}
    PROVE  LET verdict == EvaluateCrossing(content, "published", c, s, t, e)
           IN  /\ verdict.error # "reference_integrity"
               /\ verdict.error = "invalid_line" => e.geometry.type = "polygon"
  <1> DEFINE verdict == EvaluateCrossing(content, "published", c, s, t, e)
             line    == ClassifyCrossing(s.point.at, t.point.at, e.geometry.coordinates,
                                         e.direction # "bidirectional")
             g       == e.geometry
             Others  == {"invalid_input", "not_published", "camera_not_in_configuration",
                         "transition_scope", "transition_order", "line_not_applicable",
                         "venue_point_required"}
  <1>1. Permits("entrance", g) /\ Constructible(g, None)
    BY DEF Sane, Of
  <1>2. g.type \in {"linestring", "polygon"} /\ g.space = "venue_local"
    BY <1>1 DEF Permits
  <1>3. g.type = "linestring" => ValidLineString(g)
    BY <1>1, <1>2 DEF Constructible, ValidLineString
  <1>4. \/ \E x \in Others : verdict = Crossing(x, None, None)
        \/ verdict = Crossing("invalid_line", None, None) /\ g.type = "polygon"
        \/ verdict = line
    <2> HIDE DEF line
    <2> QED BY <1>2, <1>3 DEF EvaluateCrossing, line
  <1>5. line.error = None
    BY DEF ClassifyCrossing, NoCrossing, Crossing
  <1> HIDE DEF verdict, line
  <1>6. None # "reference_integrity" /\ None # "invalid_line"
    BY NoErrorAssumption DEF Errors
  <1>7. \A x : Crossing(x, None, None).error = x
    BY DEF Crossing
  <1>8. /\ verdict.error # "reference_integrity"
        /\ verdict.error = "invalid_line" => g.type = "polygon"
    BY <1>4, <1>5, <1>6, <1>7
  <1> QED BY <1>8 DEF verdict

LEMMA SightIsSane ==
    ASSUME SightInv, CrossingsInv, ValidInv
    PROVE  ValidatedEvaluates
  <1>1. ASSUME stage = "published" PROVE Sane(layout)
    BY <1>1, ValidIsSane DEF ValidInv, SightInv
  <1>2. ASSUME seen # None, ~Misused PROVE seen.error # "reference_integrity"
    <2> DEFINE point == path[Len(path)].point
    <2>1. PICK c \in ResolveCamera(layout, Physical) :
             seen = Evaluate(layout, "published", c, point, <<>>, <<>>)
      BY <1>2 DEF SightInv
    <2>2. Sane(layout)
      BY <1>1, <1>2 DEF SightInv
    <2>3. CASE c = None
      <3> HIDE DEF point
      <3>1. Evaluate(layout, "published", c, point, <<>>, <<>>).error # "reference_integrity"
        BY <2>3, FindsBroken
      <3> QED BY <2>1, <3>1
    <2>4. CASE c # None
      <3>1. c \in Of(layout, "camera")
        BY <2>4 DEF ResolveCamera
      <3>2. /\ c.zones \cap (Ids(layout) \ Ids(Of(layout, "zone"))) = {}
            /\ c.privacy \cap (Ids(layout) \ Ids(Of(layout, "privacy_roi"))) = {}
            /\ c.exclusion \cap (Ids(layout) \ Ids(Of(layout, "exclusion_roi"))) = {}
            /\ \A z \in Of(layout, "zone") :
                 z.tables \cap (Ids(layout) \ Ids(Of(layout, "table"))) = {}
        BY <1>2, <3>1 DEF Misused
      <3>3. c \in layout /\ c.kind = "camera" /\ \A e \in layout : e.id \in Nat
        BY <3>1, LayoutsAssumption DEF Of, SightInv
      <3> HIDE DEF point
      <3> QED BY <2>1, <2>2, <3>2, <3>3, SaneEvaluates
    <2> QED BY <2>3, <2>4
  <1>3. ASSUME NEW e \in DOMAIN crossings, NEW i \in 1..(Len(path) - 1)
        PROVE  /\ crossings[e][i].error # "reference_integrity"
               /\ crossings[e][i].error = "invalid_line" => e.geometry.type = "polygon"
    <2>1. Len(path) \in Nat /\ i \in 1..Len(path) /\ i + 1 \in 1..Len(path) /\ path # <<>>
      BY LenProperties, EmptySeq DEF SightInv
    <2>2. stage = "published"
      BY <2>1 DEF CrossingsInv
    <2>3. PICK c \in ResolveCamera(layout, Physical) :
             crossings[e][i] = EvaluateCrossing(layout, "published", c, path[i], path[i + 1], e)
      BY DEF CrossingsInv, Recorded
    <2>4. e \in Of(layout, "entrance")
      BY DEF ValidInv
    <2>5. path[i + 1] \in Sightings
      BY <2>1, ElementOfSeq DEF SightInv
    <2>6. path[i + 1].point.space = space
      <3> DEFINE t == path[i + 1]
      <3>1. t \in Sightings
        BY <2>5
      <3> HIDE DEF t
      <3>2. t.point.space = space
        BY <3>1 DEF Sightings, PointAt, Point
      <3> QED BY <3>2 DEF t
    <2>7. path[i + 1].point.space \in {"venue_local", "image_normalized"}
      BY <2>6, SpacesAssumption DEF ValidInv
    <2> DEFINE s == path[i]  t == path[i + 1]
    <2> HIDE DEF s, t
    <2>8. LET verdict == EvaluateCrossing(layout, "published", c, s, t, e)
          IN  /\ verdict.error # "reference_integrity"
              /\ verdict.error = "invalid_line" => e.geometry.type = "polygon"
      BY <1>1, <2>2, <2>4, <2>7, SaneCrosses DEF t
    <2> QED BY <2>3, <2>8 DEF s, t
  <1> QED BY <1>2, <1>3 DEF ValidatedEvaluates

\* What validation lets pass is evaluated without a broken reference or an invalid
\* line, for any contents, geometries and paths.
THEOREM ValidationIsSound == SpatialSpec => []ValidatedEvaluates
  <1>1. SightInv /\ CrossingsInv /\ ValidInv => ValidatedEvaluates
    BY SightIsSane
  <1> QED BY <1>1, InitSight, NextSight, InitCrossings, NextCrossings, InitValid, NextValid, PTL
          DEF SpatialSpec
=============================================================================
