----------------------------- MODULE EvidenceProofs -----------------------------
(***************************************************************************)
(* Theorems about the evidence worker, for any number of requests, workers,*)
(* attempts and faults, and for a store of either kind (works);            *)
(* then about the retention of what it has stored; in the last part, about *)
(* the packages, for any recordings and any requests.                      *)
(***************************************************************************)
EXTENDS EvidenceWork, EvidenceArtifacts, WellFoundedInduction, FiniteSetTheorems, TLAPS

Types ==
    /\ refs \in [Refs -> RefRow]
    /\ ev \in [EvWorkers -> EvWorker]
    /\ packages \in [Refs -> Nat]
    /\ faults \in Nat

\* What the memory m of a worker holds at each point of its cycle.
Hand(m) ==
    /\ m.pc \in {"idle", "down"} => m.age = 0
    /\ m.pc \notin {"recover", "process", "settle", "finalize"} => m.todo = {}
    /\ m.pc \notin {"settle", "finalize"} => m.cur = NoOne /\ m.verdict = "extracted"
    /\ m.pc \in {"settle", "finalize"} => m.cur \in Refs

Hands == \A w \in EvWorkers : Hand(ev[w])

EvInv == Types /\ Hands /\ OnePackagePerRequest

-----------------------------------------------------------------------------
(* Rows.                                                                   *)

LEMMA EvNumbers ==
    /\ Lease \in Nat \ {0} /\ MaxAttempts \in Nat \ {0}
    /\ BatchSize \in Nat \ {0} /\ MaxCycle \in Nat \ {0}
    /\ BackoffMax \in Nat
    /\ NoOne \notin Refs
  BY EvidenceAssumption, BackoffAssumption DEF EvidenceAssumption, BackoffAssumption

OwnerType == (EvWorkers \X Nat) \cup {NoOne}
LeaseType == (-MaxCycle)..Lease
RetryType == (-MaxCycle)..BackoffMax

\* A clock value of the cycle keeps every timer in its range.
LEMMA Timers ==
    ASSUME NEW age \in 0..MaxCycle
    PROVE  /\ Lease - age \in LeaseType /\ -MaxCycle \in LeaseType
           /\ -age \in RetryType /\ -MaxCycle \in RetryType
           /\ \A n : \A d \in Delays(n) : d - age \in RetryType
  BY EvNumbers DEF Delays, LeaseType, RetryType

\* The fields of a row.
LEMMA RowFields ==
    RefRow = [state : States \cup {"absent"}, owner : OwnerType, lease : LeaseType,
              retry : RetryType, attempts : Nat, checkpoint : BOOLEAN, abandoned : BOOLEAN]
  BY DEF RefRow, OwnerType, LeaseType, RetryType

\* The states by name.
LEMMA StateNames ==
    /\ {"requested", "queued", "extracting", "uploading", "finalized",
        "terminal_failure", "expired", "retryable_failure"} \subseteq States
    /\ "queued" \in States /\ "extracting" \in States /\ "uploading" \in States
    /\ "finalized" \in States /\ "terminal_failure" \in States
    /\ "expired" \in States /\ "retryable_failure" \in States
  BY DEF States, Pending, Leased, Final

\* What one step of worker w may do to row r and to its package: nothing,
\* or a move of the state machine that it has the right to.
Moves(w, r) ==
    LET was == refs[r].state   is == refs'[r].state
    IN  /\ refs'[r] \in RefRow
        /\ <<was, is>> \in Transitions
        /\ packages'[r] = IF is = "finalized" THEN packages[r] + 1 ELSE packages[r]
        /\ was \in Leased /\ refs[r].lease > 0 => HasRow(w, r)
        /\ was = "extracting" /\ is = "terminal_failure" =>
             \/ refs[r].attempts >= MaxAttempts
             \/ HasRow(w, r) /\ ev[w].verdict = "permanent"

Rightful(w, r) == (refs'[r] = refs[r] /\ packages'[r] = packages[r]) \/ Moves(w, r)

\* The tables keep their keys.
SameKeys ==
    refs' = [r \in Refs |-> refs'[r]] /\ packages' = [r \in Refs |-> packages'[r]]

RightfulStep(w) == SameKeys /\ \A r \in Refs : Rightful(w, r)

-----------------------------------------------------------------------------
(* What the transactions do to the rows.                                   *)

\* A step that leaves both tables alone is rightful.
LEMMA NoChange ==
    ASSUME Types, NEW w, UNCHANGED <<refs, packages>>
    PROVE  RightfulStep(w)
  BY DEF Types, RightfulStep, SameKeys, Rightful

\* So is one that moves some of the rows rightfully, without a package.
LEMMA SomeMove ==
    ASSUME Types, NEW w, NEW S \in SUBSET Refs, UNCHANGED packages,
           refs' = [r \in Refs |-> IF r \in S THEN refs'[r] ELSE refs[r]],
           \A r \in S : Moves(w, r)
    PROVE  RightfulStep(w)
  <1>1. SameKeys
    BY Zenon DEF Types, SameKeys
  <1>2. \A r \in Refs \ S : refs'[r] = refs[r]
    <2> TAKE r \in Refs \ S
    <2> QED BY Zenon
  <1> QED BY <1>1, <1>2 DEF RightfulStep, Rightful

\* The bulk updates of a cycle take rows that nobody leases, or none that has
\* a lease to lose.
LEMMA CycleRows ==
    ASSUME Types, NEW w \in EvWorkers, CycleStep(w) \/ ClaimUnheard(w)
    PROVE  RightfulStep(w)
  <1> USE DEF Picks
  <1>1. UNCHANGED packages
    BY DEF CycleStep, ClaimUnheard
  <1>2. /\ EvId(w) \in OwnerType /\ -MaxCycle \in RetryType
        /\ Lease - ev[w].age \in LeaseType
    BY Timers DEF Types, EvWorker, EvId, OwnerType
  <1>3. CASE QueuePending(w)
    <2>1. PICK S \in SUBSET Refs :
            /\ \A r \in S : refs[r].state = "requested"
            /\ refs' = [r \in Refs |-> IF r \in S THEN [refs[r] EXCEPT !.state = "queued"]
                                                  ELSE refs[r]]
      BY <1>3 DEF QueuePending, Rewrite
    <2>2. ASSUME NEW r \in S PROVE Moves(w, r)
      <3>1. refs'[r] = [refs[r] EXCEPT !.state = "queued"] /\ refs[r] \in RefRow
        BY <2>1 DEF Types
      <3>2. refs'[r] \in RefRow
        BY <3>1, StateNames DEF RefRow
      <3> QED BY <1>1, <2>1, <3>1, <3>2 DEF Moves, Transitions, Leased, RefRow
    <2> QED BY <1>1, <2>1, <2>2, SomeMove
  <1>4. CASE ExpireAbandoned(w)
    <2>1. PICK S \in SUBSET Refs :
            /\ \A r \in S : refs[r].state \in Pending
            /\ refs' = [r \in Refs |-> IF r \in S THEN [refs[r] EXCEPT !.state = "expired"]
                                                  ELSE refs[r]]
      BY <1>4 DEF ExpireAbandoned, Rewrite
    <2>2. ASSUME NEW r \in S PROVE Moves(w, r)
      <3>1. refs'[r] = [refs[r] EXCEPT !.state = "expired"] /\ refs[r] \in RefRow
        BY <2>1 DEF Types
      <3>2. refs'[r] \in RefRow
        BY <3>1, StateNames DEF RefRow
      <3> QED BY <1>1, <2>1, <3>1, <3>2 DEF Moves, Transitions, Pending, Leased, RefRow
    <2> QED BY <1>1, <2>1, <2>2, SomeMove
  <1>5. CASE ListStale(w)
    BY <1>1, <1>5, NoChange DEF ListStale
  <1>6. CASE PromoteDueRetries(w)
    <2>1. PICK S \in SUBSET Refs :
            /\ \A r \in S : refs[r].state = "retryable_failure"
            /\ refs' = [r \in Refs |->
                 IF r \in S THEN [refs[r] EXCEPT !.state = "queued", !.retry = -MaxCycle]
                            ELSE refs[r]]
      BY <1>6 DEF PromoteDueRetries, Rewrite
    <2>2. ASSUME NEW r \in S PROVE Moves(w, r)
      <3>1. /\ refs'[r] = [refs[r] EXCEPT !.state = "queued", !.retry = -MaxCycle]
            /\ refs[r] \in RefRow
        BY <2>1 DEF Types
      <3>2. refs'[r] \in RefRow
        BY <3>1, <1>2, StateNames DEF RefRow, RetryType
      <3> QED BY <1>1, <2>1, <3>1, <3>2 DEF Moves, Transitions, Leased, RefRow
    <2> QED BY <1>1, <2>1, <2>2, SomeMove
  <1>7. ASSUME NEW heard \in BOOLEAN, ClaimQueued(w, heard)
        PROVE  RightfulStep(w)
    <2>1. PICK S \in SUBSET Refs :
            /\ \A r \in S : refs[r].state = "queued"
            /\ refs' = [r \in Refs |->
                 IF r \in S
                 THEN [refs[r] EXCEPT !.state = "extracting", !.owner = EvId(w),
                          !.lease = Lease - ev[w].age, !.attempts = @ + 1]
                 ELSE refs[r]]
      BY <1>7 DEF ClaimQueued, Rewrite, Claimable
    <2>2. ASSUME NEW r \in S PROVE Moves(w, r)
      <3>1. /\ refs'[r] = [refs[r] EXCEPT !.state = "extracting", !.owner = EvId(w),
                             !.lease = Lease - ev[w].age, !.attempts = @ + 1]
            /\ refs[r] \in RefRow
        BY <2>1 DEF Types
      <3>2. refs'[r] \in RefRow
        <4> DEFINE n == refs[r].attempts + 1
        <4>1. n \in Nat
          BY <3>1 DEF RefRow
        <4>2. refs'[r] = [refs[r] EXCEPT !.state = "extracting", !.owner = EvId(w),
                            !.lease = Lease - ev[w].age, !.attempts = n]
          BY <3>1
        <4> HIDE DEF n
        <4> QED BY <1>2, <3>1, <4>1, <4>2, StateNames, RowFields
      <3> QED BY <1>1, <2>1, <3>1, <3>2 DEF Moves, Transitions, Leased, RefRow
    <2> QED BY <1>1, <2>1, <2>2, SomeMove
  <1> QED BY <1>3, <1>4, <1>5, <1>6, <1>7 DEF CycleStep, ClaimUnheard

\* A step that moves one row rightfully, with or without a package.
LEMMA OneMove ==
    ASSUME Types, NEW w, NEW r \in Refs, NEW row, NEW n,
           refs' = [refs EXCEPT ![r] = row],
           packages' = [packages EXCEPT ![r] = n],
           Moves(w, r)
    PROVE  RightfulStep(w)
  BY DEF Types, RightfulStep, SameKeys, Rightful

\* A guarded transition of the row in hand: it writes under its claim or not
\* at all.
LEMMA PersistedIs ==
    ASSUME Types, NEW w, NEW r \in Refs, r = ev[w].cur, NEW row \in RefRow,
           NEW from, <<from, row.state>> \in Transitions, row.state # "finalized",
           from = "extracting" /\ row.state = "terminal_failure" =>
             refs[r].attempts >= MaxAttempts \/ ev[w].verdict = "permanent",
           Persisted(w, r, from, row)
    PROVE  RightfulStep(w)
  <1>1. CASE ~Writes(w, r, from)
    BY <1>1, NoChange DEF Persisted
  <1>2. CASE Writes(w, r, from)
    <2>1. refs' = [refs EXCEPT ![r] = row] /\ refs'[r] = row /\ UNCHANGED packages
      BY <1>2 DEF Persisted, Types
    <2>2. refs[r].state = from /\ HasRow(w, r)
      BY <1>2 DEF Writes, Mine, HasRow
    <2>3. Moves(w, r)
      BY <2>1, <2>2 DEF Moves
    <2>4. packages' = [packages EXCEPT ![r] = packages[r]]
      BY <2>1 DEF Types
    <2> QED BY <2>1, <2>3, <2>4, OneMove
  <1> QED BY <1>1, <1>2

\* What extraction ended in is written by the worker that has the row.
LEMMA SettleRows ==
    ASSUME Types, NEW w \in EvWorkers, ev[w].cur \in Refs, Settle(w)
    PROVE  RightfulStep(w)
  <1> DEFINE r == ev[w].cur
  <1>1. refs[r] \in RefRow /\ ev[w].age \in 0..MaxCycle
    BY DEF Types, EvWorker
  <1>2. CASE Checkpoint(w)
    <2> DEFINE row == [refs[r] EXCEPT !.state = "uploading", !.checkpoint = TRUE]
    <2>1. row \in RefRow /\ row.state = "uploading"
      BY <1>1, StateNames DEF RefRow
    <2>2. <<"extracting", row.state>> \in Transitions
      BY <2>1 DEF Transitions
    <2>3. Persisted(w, r, "extracting", row)
      BY <1>2 DEF Checkpoint
    <2> HIDE DEF row
    <2> QED BY <2>1, <2>2, <2>3, PersistedIs
  <1>3. CASE BuryExtraction(w)
    <2> DEFINE row == Buried(refs[r])
    <2>1. row \in RefRow /\ row.state = "terminal_failure"
      BY <1>1, StateNames DEF RefRow, Buried
    <2>2. <<"extracting", row.state>> \in Transitions
      BY <2>1 DEF Transitions
    <2>3. /\ Persisted(w, r, "extracting", row)
          /\ refs[r].attempts >= MaxAttempts \/ ev[w].verdict = "permanent"
      BY <1>3 DEF BuryExtraction
    <2> HIDE DEF row
    <2> QED BY <2>1, <2>2, <2>3, PersistedIs
  <1>4. CASE RetryExtraction(w)
    <2>1. PICK d \in Delays(refs[r].attempts) :
            Persisted(w, r, "extracting",
                      [refs[r] EXCEPT !.state = "retryable_failure", !.retry = d - ev[w].age])
      BY <1>4 DEF RetryExtraction
    <2> DEFINE row == [refs[r] EXCEPT !.state = "retryable_failure", !.retry = d - ev[w].age]
    <2>2. d - ev[w].age \in RetryType
      BY <1>1, <2>1, Timers
    <2>3. row \in RefRow /\ row.state = "retryable_failure"
      BY <1>1, <2>2, StateNames DEF RefRow, RetryType
    <2>4. <<"extracting", row.state>> \in Transitions
      BY <2>3 DEF Transitions
    <2>5. Persisted(w, r, "extracting", row)
      BY <2>1
    <2> HIDE DEF row
    <2> QED BY <2>3, <2>4, <2>5, PersistedIs
  <1> QED BY <1>2, <1>3, <1>4 DEF Settle

\* The end of an upload persists one package with the final state, or none.
LEMMA FinalizeRows ==
    ASSUME Types, NEW w \in EvWorkers, ev[w].cur \in Refs,
           FinalizePackage(w, ev[w].cur)
    PROVE  RightfulStep(w)
  <1> DEFINE r == ev[w].cur
  <1>1. refs[r] \in RefRow
    BY DEF Types
  <1>2. CASE SaveFinalized(w, r)
    <2>1. CASE ~Writes(w, r, "uploading")
      BY <1>2, <2>1, NoChange DEF SaveFinalized
    <2>2. CASE Writes(w, r, "uploading")
      <3> DEFINE row == [refs[r] EXCEPT !.state = "finalized"]
      <3>1. row \in RefRow /\ row.state = "finalized"
        BY <1>1, StateNames DEF RefRow
      <3>2. /\ refs' = [refs EXCEPT ![r] = row] /\ refs'[r] = row
            /\ packages' = [packages EXCEPT ![r] = packages[r] + 1]
            /\ packages'[r] = packages[r] + 1
        BY <1>2, <2>2 DEF SaveFinalized, Types
      <3>3. refs[r].state = "uploading" /\ HasRow(w, r)
        BY <2>2 DEF Writes, Mine, HasRow
      <3> HIDE DEF row
      <3>4. Moves(w, r)
        BY <3>1, <3>2, <3>3 DEF Moves, Transitions
      <3> QED BY <3>2, <3>4, OneMove
    <2> QED BY <2>1, <2>2
  <1>3. CASE Persisted(w, r, "uploading", Buried(refs[r]))
    <2> DEFINE row == Buried(refs[r])
    <2>1. row \in RefRow /\ row.state = "terminal_failure"
      BY <1>1, StateNames DEF RefRow, Buried
    <2>2. <<"uploading", row.state>> \in Transitions
      BY <2>1 DEF Transitions
    <2> HIDE DEF row
    <2> QED BY <1>3, <2>1, <2>2, PersistedIs DEF row
  <1> QED BY <1>2, <1>3 DEF FinalizePackage

\* A row is taken over only when its lease is over, and then it is retried,
\* finalized with its one package, or buried.
LEMMA RecoverRows ==
    ASSUME Types, NEW w \in EvWorkers, NEW r \in Refs, RecoverStale(w, r)
    PROVE  RightfulStep(w)
  <1>1. /\ refs[r] \in RefRow /\ ev[w].age \in 0..MaxCycle /\ EvId(w) \in OwnerType
        /\ Lease - ev[w].age \in LeaseType
    BY Timers DEF Types, EvWorker, EvId, OwnerType
  <1>2. CASE ~Stale(r, ev[w].age) \/ ~works
    BY <1>2, NoChange DEF RecoverStale
  <1>3. CASE Stale(r, ev[w].age) /\ works
    <2>1. ~(refs[r].lease > 0)
      BY <1>1, <1>3, EvNumbers DEF Stale, Over, RefRow
    <2>2. CASE refs[r].state = "extracting"
      <3> DEFINE row == [refs[r] EXCEPT !.state = "retryable_failure", !.owner = EvId(w),
                                        !.retry = -ev[w].age, !.lease = -MaxCycle]
      <3>1. row \in RefRow /\ row.state = "retryable_failure"
        BY <1>1, StateNames, Timers DEF RefRow, OwnerType, LeaseType, RetryType
      <3>2. refs' = [refs EXCEPT ![r] = row] /\ UNCHANGED packages
        BY <1>3, <2>2 DEF RecoverStale
      <3> HIDE DEF row
      <3>3. refs'[r] = row /\ packages' = [packages EXCEPT ![r] = packages[r]]
        BY <3>2 DEF Types
      <3>4. Moves(w, r)
        BY <2>1, <2>2, <3>1, <3>2, <3>3 DEF Moves, Transitions
      <3> QED BY <3>2, <3>3, <3>4, OneMove
    <2>3. CASE refs[r].state # "extracting"
      <3> DEFINE taken == [refs[r] EXCEPT !.owner = EvId(w), !.lease = Lease - ev[w].age]
                 row == [taken EXCEPT !.state = "finalized"]
      <3>1. refs[r].state = "uploading"
        BY <1>3, <2>3 DEF Stale, Leased
      <3>2. /\ row \in RefRow /\ row.state = "finalized"
            /\ Buried(taken) \in RefRow /\ Buried(taken).state = "terminal_failure"
        BY <1>1, StateNames DEF RefRow, Buried, OwnerType, LeaseType
      <3>3. \/ /\ refs' = [refs EXCEPT ![r] = row]
               /\ packages' = [packages EXCEPT ![r] = @ + 1]
            \/ refs' = [refs EXCEPT ![r] = Buried(taken)] /\ UNCHANGED packages
        BY <1>3, <2>3 DEF RecoverStale
      <3> HIDE DEF taken, row
      <3>4. CASE /\ refs' = [refs EXCEPT ![r] = row]
                 /\ packages' = [packages EXCEPT ![r] = @ + 1]
        <4>1. refs'[r] = row /\ packages'[r] = packages[r] + 1
          BY <3>4 DEF Types
        <4>2. Moves(w, r)
          BY <2>1, <3>1, <3>2, <4>1 DEF Moves, Transitions
        <4> QED BY <3>4, <4>2, OneMove
      <3>5. CASE refs' = [refs EXCEPT ![r] = Buried(taken)] /\ UNCHANGED packages
        <4>1. refs'[r] = Buried(taken) /\ packages' = [packages EXCEPT ![r] = packages[r]]
          BY <3>5 DEF Types
        <4>2. Moves(w, r)
          BY <2>1, <3>1, <3>2, <3>5, <4>1 DEF Moves, Transitions
        <4> QED BY <3>5, <4>1, <4>2, OneMove
      <3> QED BY <3>3, <3>4, <3>5
    <2> QED BY <2>2, <2>3
  <1> QED BY <1>2, <1>3

-----------------------------------------------------------------------------
(* What a worker remembers.                                                *)

\* A step that changes the memory of one worker into a sound one.
Remembers(w, m) == ev' = [ev EXCEPT ![w] = m] /\ m \in EvWorker /\ Hand(m)

LEMMA OneMemory ==
    ASSUME Types, Hands, NEW w \in EvWorkers, NEW m, Remembers(w, m)
    PROVE  ev' \in [EvWorkers -> EvWorker] /\ Hands'
  BY DEF Types, Hands, Remembers

\* The fields of the memory of a worker.
LEMMA Memory ==
    ASSUME Types, Hands, NEW w \in EvWorkers
    PROVE  /\ ev[w] \in EvWorker /\ Hand(ev[w])
           /\ 0 \in 0..MaxCycle /\ NoOne \in Refs \cup {NoOne} /\ NoOne \notin Refs
           /\ {} \in SUBSET Refs
           /\ \A r : ev[w].todo \ {r} \in SUBSET Refs
  BY EvNumbers DEF Types, Hands, EvWorker

\* What a worker remembers when it leaves a row, or is at rest.
LEMMA RestIs ==
    ASSUME Types, Hands, NEW w \in EvWorkers, NEW r,
           ev[w].pc \in {"recover", "settle", "finalize"}
    PROVE  Rest(w, r) \in EvWorker /\ Hand(Rest(w, r))
  <1> DEFINE rest == ev[w].todo \ {r}
             pc   == IF ev[w].pc = "recover"
                     THEN IF rest # {} THEN "recover" ELSE "promote"
                     ELSE IF rest # {} THEN "process" ELSE "idle"
             age  == IF pc = "idle" THEN 0 ELSE ev[w].age
  <1>1. /\ rest \in SUBSET Refs /\ age \in 0..MaxCycle
        /\ pc \in {"recover", "promote", "process", "idle"}
        /\ pc \in {"idle", "promote"} => rest = {}
        /\ pc = "idle" => age = 0
    BY Memory DEF EvWorker
  <1>2. Rest(w, r) = [ev[w] EXCEPT !.todo = rest, !.cur = NoOne, !.verdict = "extracted",
                                   !.pc = pc, !.age = age]
    BY Memory DEF Rest, EvWorker
  <1> HIDE DEF rest, pc, age
  <1> QED BY Memory, <1>1, <1>2 DEF EvWorker, Hand

LEMMA AtRestIs ==
    ASSUME Types, Hands, NEW w \in EvWorkers, NEW pc \in {"idle", "down"}
    PROVE  AtRest(w, pc) \in EvWorker /\ Hand(AtRest(w, pc))
  <1> DEFINE x == ev[w]
             a == [x EXCEPT !.pc = pc, !.age = 0]
             b == [a EXCEPT !.todo = {}, !.cur = NoOne, !.verdict = "extracted"]
  <1>1. x \in EvWorker /\ 0 \in 0..MaxCycle
    BY Memory
  <1>2. AtRest(w, pc) = b
    BY DEF AtRest
  <1> HIDE DEF x
  <1>3. a \in EvWorker /\ a.pc = pc /\ a.age = 0
    BY <1>1 DEF EvWorker
  <1> HIDE DEF a
  <1>4. /\ b \in EvWorker /\ b.pc = a.pc /\ b.age = a.age
        /\ b.todo = {} /\ b.cur = NoOne /\ b.verdict = "extracted"
    BY ONLY <1>3 DEF EvWorker
  <1> HIDE DEF b
  <1>5. Hand(b)
    BY <1>3, <1>4 DEF Hand
  <1> QED BY ONLY <1>2, <1>4, <1>5

\* The steps of a cycle.
LEMMA CycleMemory ==
    ASSUME Types, Hands, NEW w \in EvWorkers, CycleStep(w) \/ ClaimUnheard(w)
    PROVE  ev' \in [EvWorkers -> EvWorker] /\ Hands'
  <1>1. /\ ev[w] \in EvWorker /\ Hand(ev[w]) /\ 0 \in 0..MaxCycle
        /\ NoOne \in Refs \cup {NoOne}
    BY Memory
  <1>2. ASSUME NEW pc \in {"expire", "list", "claim"}, Enter(w, pc),
               ev[w].pc \in {"idle", "expire", "promote"}
        PROVE  ev' \in [EvWorkers -> EvWorker] /\ Hands'
    <2> DEFINE m == [ev[w] EXCEPT !.pc = pc]
    <2>1. m \in EvWorker /\ Hand(m)
      BY <1>1, <1>2 DEF EvWorker, Hand
    <2>2. ev' = [ev EXCEPT ![w] = m]
      BY <1>2 DEF Enter, Types
    <2> HIDE DEF m
    <2> QED BY <2>1, <2>2, OneMemory DEF Remembers
  <1>3. CASE QueuePending(w) \/ ExpireAbandoned(w) \/ PromoteDueRetries(w)
    BY <1>2, <1>3 DEF QueuePending, ExpireAbandoned, PromoteDueRetries
  <1>4. CASE ListStale(w)
    <2>1. PICK S \in SUBSET Refs :
            ev' = [ev EXCEPT ![w].todo = S,
                             ![w].pc = IF S = {} THEN "promote" ELSE "recover"]
      BY <1>4 DEF ListStale, Picks
    <2> DEFINE m == [ev[w] EXCEPT !.todo = S,
                                  !.pc = IF S = {} THEN "promote" ELSE "recover"]
    <2>2. m \in EvWorker /\ Hand(m)
      BY <1>1, <1>4 DEF EvWorker, Hand, ListStale
    <2>3. ev' = [ev EXCEPT ![w] = m]
      BY <2>1 DEF Types
    <2> HIDE DEF m
    <2> QED BY <2>2, <2>3, OneMemory DEF Remembers
  <1>5. ASSUME NEW heard \in BOOLEAN, ClaimQueued(w, heard)
        PROVE  ev' \in [EvWorkers -> EvWorker] /\ Hands'
    <2>1. PICK S \in SUBSET Refs :
            ev' = [ev EXCEPT ![w] = IF heard /\ S # {}
                                   THEN [@ EXCEPT !.todo = S, !.pc = "process"]
                                   ELSE [@ EXCEPT !.pc = "idle", !.age = 0]]
      BY <1>5 DEF ClaimQueued, Picks
    <2> DEFINE m == IF heard /\ S # {}
                    THEN [ev[w] EXCEPT !.todo = S, !.pc = "process"]
                    ELSE [ev[w] EXCEPT !.pc = "idle", !.age = 0]
    <2>2. m \in EvWorker /\ Hand(m)
      BY <1>1, <1>5 DEF EvWorker, Hand, ClaimQueued
    <2>3. ev' = [ev EXCEPT ![w] = m]
      BY <2>1 DEF Types
    <2> HIDE DEF m
    <2> QED BY <2>2, <2>3, OneMemory DEF Remembers
  <1> QED BY <1>3, <1>4, <1>5 DEF CycleStep, ClaimUnheard

\* The steps on a row in hand, failures, stops and restarts.
LEMMA WorkMemory ==
    ASSUME Types, Hands, NEW w \in EvWorkers,
           \/ \E r \in Refs : Recover(w, r)
           \/ \E r \in Refs, v \in {"extracted", "permanent", "transient"} : Extract(w, r, v)
           \/ SettleExtraction(w) \/ Finalize(w) \/ Restart(w)
           \/ RowFails(w) \/ CycleFails(w) \/ Halt(w)
    PROVE  ev' \in [EvWorkers -> EvWorker] /\ Hands'
  <1>1. ev[w] \in EvWorker /\ Hand(ev[w])
    BY Memory
  <1>2. ASSUME NEW r, Leaves(w, r), ev[w].pc \in {"recover", "settle", "finalize"}
        PROVE  ev' \in [EvWorkers -> EvWorker] /\ Hands'
    <2>1. Rest(w, r) \in EvWorker /\ Hand(Rest(w, r))
      BY <1>2, RestIs
    <2>2. Remembers(w, Rest(w, r))
      BY <1>2, <2>1 DEF Leaves, Remembers
    <2> QED BY <2>2, OneMemory
  <1>3. ASSUME NEW r \in Refs, NEW v \in {"extracted", "permanent", "transient"},
               Extract(w, r, v)
        PROVE  ev' \in [EvWorkers -> EvWorker] /\ Hands'
    <2> DEFINE m == [ev[w] EXCEPT !.pc = "settle", !.cur = r, !.verdict = v]
    <2>1. m \in EvWorker /\ Hand(m)
      BY <1>1, <1>3 DEF EvWorker, Hand, Extract
    <2>2. ev' = [ev EXCEPT ![w] = m]
      BY <1>3 DEF Extract, Types
    <2> HIDE DEF m
    <2> QED BY <2>1, <2>2, OneMemory DEF Remembers
  <1>4. CASE SettleExtraction(w)
    <2>1. CASE Enter(w, "finalize")
      <3> DEFINE m == [ev[w] EXCEPT !.pc = "finalize"]
      <3>1. m \in EvWorker /\ Hand(m)
        BY <1>1, <1>4 DEF EvWorker, Hand, SettleExtraction
      <3>2. ev' = [ev EXCEPT ![w] = m]
        BY <2>1 DEF Enter, Types
      <3> HIDE DEF m
      <3> QED BY <3>1, <3>2, OneMemory DEF Remembers
    <2>2. CASE Leaves(w, ev[w].cur)
      BY <1>2, <1>4, <2>2 DEF SettleExtraction
    <2> QED BY <1>4, <2>1, <2>2 DEF SettleExtraction
  <1>5. CASE \/ \E r \in Refs : Recover(w, r)
             \/ Finalize(w) \/ RowFails(w)
    BY <1>2, <1>5 DEF Recover, Finalize, RowFails
  <1>6. CASE Restart(w)
    <2> DEFINE m == [ev[w] EXCEPT !.pc = "idle", !.inc = ev[w].inc + 1]
    <2>1. ev[w].inc + 1 \in Nat
      BY <1>1 DEF EvWorker
    <2>2. m \in EvWorker /\ Hand(m)
      BY <1>1, <1>6, <2>1 DEF EvWorker, Hand, Restart
    <2>3. ev' = [ev EXCEPT ![w] = m]
      BY <1>6 DEF Restart, Types
    <2> HIDE DEF m
    <2> QED BY <2>2, <2>3, OneMemory DEF Remembers
  <1>7. CASE CycleFails(w) \/ Halt(w)
    BY <1>7, AtRestIs, OneMemory DEF CycleFails, Halt, Remembers
  <1> QED BY <1>3, <1>4, <1>5, <1>6, <1>7

-----------------------------------------------------------------------------
(* Steps.                                                                  *)

\* Every step of a worker is rightful.
LEMMA WorkerIsRightful ==
    ASSUME EvInv, NEW w \in EvWorkers, EvStep(w)
    PROVE  RightfulStep(w)
  <1> USE DEF EvInv
  <1>1. ev[w].pc \in {"settle", "finalize"} => ev[w].cur \in Refs
    BY DEF Hands, Hand
  <1>2. CASE CycleStep(w) \/ ClaimUnheard(w)
    BY <1>2, CycleRows
  <1>3. CASE \E r \in Refs : Recover(w, r)
    BY <1>3, RecoverRows DEF Recover
  <1>4. CASE SettleExtraction(w)
    BY <1>1, <1>4, SettleRows DEF SettleExtraction
  <1>5. CASE Finalize(w)
    BY <1>1, <1>5, FinalizeRows DEF Finalize
  <1>6. CASE RowFails(w)
    BY <1>1, <1>6, SettleRows, FinalizeRows, NoChange DEF RowFails
  <1>7. CASE \/ \E r \in Refs, v \in {"extracted", "permanent", "transient"} :
                  Extract(w, r, v)
             \/ Restart(w) \/ CycleFails(w) \/ Halt(w)
    BY <1>7, NoChange DEF Extract, Restart, CycleFails, Halt
  <1> QED BY <1>2, <1>3, <1>4, <1>5, <1>6, <1>7 DEF EvStep, EvProgress

\* Rightful moves keep the rows typed, and a package goes with the final state.
LEMMA RightfulKeeps ==
    ASSUME EvInv, NEW w, RightfulStep(w)
    PROVE  /\ refs' \in [Refs -> RefRow] /\ packages' \in [Refs -> Nat]
           /\ OnePackagePerRequest'
  <1>1. ASSUME NEW r \in Refs
        PROVE  /\ refs'[r] \in RefRow /\ packages'[r] \in Nat
               /\ packages'[r] = IF refs'[r].state = "finalized" THEN 1 ELSE 0
    <2>1. /\ refs[r] \in RefRow /\ packages[r] \in Nat
          /\ packages[r] = IF refs[r].state = "finalized" THEN 1 ELSE 0
      BY DEF EvInv, Types, OnePackagePerRequest
    <2>2. CASE refs'[r] = refs[r] /\ packages'[r] = packages[r]
      BY <2>1, <2>2
    <2>3. CASE Moves(w, r)
      <3>1. refs[r].state # "finalized"
        BY <2>3 DEF Moves, Transitions, Pending, Leased
      <3> QED BY <2>1, <2>3, <3>1 DEF Moves
    <2> QED BY <2>2, <2>3 DEF RightfulStep, Rightful
  <1>2. /\ refs' = [r \in Refs |-> refs'[r]]
        /\ packages' = [r \in Refs |-> packages'[r]]
    BY Zenon DEF RightfulStep, SameKeys
  <1>3. refs' \in [Refs -> RefRow] /\ packages' \in [Refs -> Nat]
    BY <1>1, <1>2
  <1> QED BY <1>1, <1>3 DEF OnePackagePerRequest

\* Requests, abandonment and time move no row but from absent to requested.
LEMMA OthersKeep ==
    ASSUME EvInv, Tick \/ \E r \in Refs : Request(r) \/ Abandon(r)
    PROVE  /\ EvInv'
           /\ \A r \in Refs : refs[r].state = "absent" \/ refs'[r].state = refs[r].state
  <1>1. CASE \E r \in Refs : Request(r) \/ Abandon(r)
    <2>1. PICK r \in Refs, row \in RefRow :
            /\ refs' = [refs EXCEPT ![r] = row]
            /\ row.state # "finalized" \/ row.state = refs[r].state
            /\ refs[r].state # "finalized" \/ row.state = refs[r].state
            /\ refs[r].state = "absent" \/ row.state = refs[r].state
            /\ UNCHANGED <<ev, packages, faults>>
      <3>1. PICK r \in Refs : Request(r) \/ Abandon(r)
        BY <1>1
      <3>2. refs[r] \in RefRow
        BY DEF EvInv, Types
      <3>3. CASE Request(r)
        <4> DEFINE row == [refs[r] EXCEPT !.state = "requested"]
        <4>1. row \in RefRow /\ row.state = "requested"
          BY <3>2, StateNames DEF RefRow
        <4>2. refs' = [refs EXCEPT ![r] = row] /\ refs[r].state = "absent"
          BY <3>3 DEF Request, EvInv, Types
        <4> HIDE DEF row
        <4> QED BY <3>3, <4>1, <4>2 DEF Request
      <3>4. CASE Abandon(r)
        <4> DEFINE row == [refs[r] EXCEPT !.abandoned = TRUE]
        <4>1. row \in RefRow /\ row.state = refs[r].state
          BY <3>2 DEF RefRow
        <4>2. refs' = [refs EXCEPT ![r] = row]
          BY <3>4 DEF Abandon, EvInv, Types
        <4> HIDE DEF row
        <4> QED BY <3>4, <4>1, <4>2 DEF Abandon
      <3> QED BY <3>1, <3>3, <3>4
    <2> QED BY <2>1 DEF EvInv, Types, Hands, OnePackagePerRequest
  <1>2. CASE Tick
    <2>1. ASSUME NEW r \in Refs
          PROVE  refs'[r] \in RefRow /\ refs'[r].state = refs[r].state
      <3>1. refs[r] \in RefRow
        BY DEF EvInv, Types
      <3>2. Later(refs[r].lease) \in LeaseType /\ Later(refs[r].retry) \in RetryType
        BY <3>1, EvNumbers DEF Later, RefRow, LeaseType, RetryType
      <3>3. refs'[r] = [refs[r] EXCEPT !.lease = Later(refs[r].lease),
                                       !.retry = Later(refs[r].retry)]
        BY <1>2, <3>1 DEF Tick
      <3> QED BY <3>1, <3>2, <3>3, RowFields
    <2>2. refs' = [r \in Refs |-> refs'[r]]
      BY <1>2 DEF Tick
    <2>3. refs' \in [Refs -> RefRow]
      BY <2>1, <2>2
    <2>4. ASSUME NEW w \in EvWorkers
          PROVE  ev'[w] \in EvWorker /\ Hand(ev'[w])
      <3>1. ev[w] \in EvWorker /\ Hand(ev[w])
        BY DEF EvInv, Types, Hands
      <3>2. ev'[w] = IF InCycle(w) THEN [ev[w] EXCEPT !.age = ev[w].age + 1] ELSE ev[w]
        BY <1>2 DEF Tick
      <3>3. ev[w].age + 1 \in 0..MaxCycle
        <4>1. ev[w].age < MaxCycle
          BY <1>2 DEF Tick
        <4>2. ev[w].age \in 0..MaxCycle
          BY <3>1 DEF EvWorker
        <4> QED BY <4>1, <4>2, EvNumbers
      <3>4. CASE InCycle(w)
        <4> DEFINE a == ev[w].age + 1
        <4>1. ev'[w] = [ev[w] EXCEPT !.age = a] /\ a \in 0..MaxCycle
          BY <3>2, <3>3, <3>4
        <4> HIDE DEF a
        <4> QED BY <3>1, <3>4, <4>1 DEF EvWorker, Hand, InCycle
      <3> QED BY <3>1, <3>2, <3>4
    <2>5. ev' = [w \in EvWorkers |-> ev'[w]]
      BY <1>2 DEF Tick
    <2>6. ev' \in [EvWorkers -> EvWorker] /\ Hands'
      BY <2>4, <2>5 DEF Hands
    <2>7. faults' \in Nat /\ UNCHANGED packages
      <3>1. (Fault(0) \/ Fault(1)) /\ UNCHANGED packages
        BY <1>2, Zenon DEF Tick
      <3>2. faults \in Nat
        BY DEF EvInv, Types
      <3> QED BY <3>1, <3>2 DEF Fault
    <2> QED BY <2>1, <2>3, <2>6, <2>7 DEF EvInv, Types, OnePackagePerRequest
  <1> QED BY <1>1, <1>2

\* A worker adds to its faults only.
LEMMA FaultsCount ==
    ASSUME EvInv, NEW w \in EvWorkers, EvStep(w) PROVE faults' \in Nat
  <1>1. UNCHANGED faults \/ Fault(1)
    BY DEF EvStep, EvProgress, CycleStep, ClaimUnheard, Recover, Extract,
           SettleExtraction, Finalize, Restart, RowFails, CycleFails, Halt
  <1>2. faults \in Nat
    BY DEF EvInv, Types
  <1> QED BY <1>1, <1>2 DEF Fault

\* EvInv is inductive.
LEMMA NextEvInv == EvInv /\ [Next]_evidenceVars => EvInv'
  <1> SUFFICES ASSUME EvInv, [Next]_evidenceVars PROVE EvInv'
    OBVIOUS
  <1>1. ASSUME NEW w \in EvWorkers, EvStep(w) PROVE EvInv'
    <2>1. ev' \in [EvWorkers -> EvWorker] /\ Hands'
      BY <1>1, CycleMemory, WorkMemory DEF EvInv, EvStep, EvProgress
    <2>2. RightfulStep(w)
      BY <1>1, WorkerIsRightful
    <2>3. /\ refs' \in [Refs -> RefRow] /\ packages' \in [Refs -> Nat]
          /\ OnePackagePerRequest'
      BY <2>2, RightfulKeeps
    <2> QED BY <1>1, <2>1, <2>3, FaultsCount DEF EvInv, Types
  <1>2. CASE UNCHANGED evidenceVars
    BY <1>2 DEF evidenceVars, EvInv, Types, Hands, OnePackagePerRequest
  <1> QED BY <1>1, <1>2, OthersKeep DEF Next, Step

\* Initially there is no request, and the workers are at rest.
LEMMA InitEvInv == Init => EvInv
  <1> SUFFICES ASSUME Init PROVE EvInv
    OBVIOUS
  <1> DEFINE m == [pc |-> "idle", inc |-> 0, age |-> 0, todo |-> {}, cur |-> NoOne,
                   verdict |-> "extracted"]
  <1>1. m \in EvWorker /\ Hand(m)
    BY EvNumbers DEF EvWorker, Hand
  <1>2. NoRequest \in RefRow /\ NoRequest.state = "absent"
    BY EvNumbers DEF NoRequest, RefRow
  <1> QED BY <1>1, <1>2 DEF Init, EvInv, Types, Hands, OnePackagePerRequest

\* Outside of a cycle EvInv leaves nothing in the hands of a worker.
LEMMA InvTypes == EvInv /\ works \in BOOLEAN => EvTypeOK
  <1> SUFFICES ASSUME EvInv, works \in BOOLEAN, NEW w \in EvWorkers, ~InCycle(w)
               PROVE  ev[w] = AtRest(w, ev[w].pc)
    BY DEF EvInv, Types, EvTypeOK
  <1> QED BY DEF EvInv, Types, Hands, Hand, EvWorker, InCycle, AtRest

-----------------------------------------------------------------------------
\* Rows and workers keep their types, and a worker keeps neither rows nor a
\* clock value from one cycle to the next.
THEOREM TypeCorrect == Spec => []EvTypeOK
  <1>1. Init => works \in BOOLEAN
    BY DEF Init
  <1>2. works \in BOOLEAN /\ [Next]_evidenceVars => (works \in BOOLEAN)'
    BY DEF Next, evidenceVars
  <1> QED BY InitEvInv, NextEvInv, InvTypes, <1>1, <1>2, PTL DEF Spec

\* No crash, duplicate delivery or lost lease persists a second package, or a
\* package without the final state, or the state without the package.
THEOREM OnePackage == Spec => []OnePackagePerRequest
  <1>1. EvInv => OnePackagePerRequest
    BY DEF EvInv
  <1> QED BY InitEvInv, NextEvInv, <1>1, PTL DEF Spec

\* The guarded statements of the store make only moves of the state machine,
\* only the holder of a running lease makes them, and no extraction is given up
\* before its budget is spent.
THEOREM MovesAreRightful == Spec => RightfulMoves
  <1> DEFINE Right(r) ==
        LET was == refs[r].state   is == refs'[r].state
        IN  was \notin {"absent", is} =>
              /\ <<was, is>> \in Transitions
              /\ was \in Leased /\ refs[r].lease > 0 => \E w \in EvWorkers : HasRow(w, r)
              /\ was = "extracting" /\ is = "terminal_failure" =>
                   \/ refs[r].attempts >= MaxAttempts
                   \/ \E w \in EvWorkers : HasRow(w, r) /\ ev[w].verdict = "permanent"
  <1>1. EvInv /\ [Next]_evidenceVars => [\A r \in Refs : Right(r)]_evidenceVars
    <2> SUFFICES ASSUME EvInv, Next, NEW r \in Refs PROVE Right(r)
      OBVIOUS
    <2>1. ASSUME NEW w \in EvWorkers, EvStep(w) PROVE Right(r)
      BY <2>1, WorkerIsRightful DEF RightfulStep, Rightful, Moves
    <2>2. CASE Tick \/ \E q \in Refs : Request(q) \/ Abandon(q)
      BY <2>2, OthersKeep
    <2> QED BY <2>1, <2>2 DEF Next, Step
  <1> QED BY InitEvInv, NextEvInv, <1>1, PTL DEF Spec, RightfulMoves

-----------------------------------------------------------------------------
(* Retention.  What a deletion was begun for is due for good: no step of a *)
(* worker touches the class, the hold, the age or the lifecycle of a row,  *)
(* and time only passes.                                                   *)

\* A row, as EvidenceArtifacts writes it.
IsRow(x) ==
    x = [state |-> x.state, owner |-> x.owner, attempts |-> x.attempts,
         recovery |-> x.recovery, package |-> x.package, lifecycle |-> x.lifecycle,
         class |-> x.class, hold |-> x.hold, created |-> x.created]

Rows == /\ DOMAIN rows = Requested
        /\ rows = [r \in Requested |-> rows[r]]
        /\ \A r \in Requested : IsRow(rows[r])

\* Past its deadline and not on hold.
IsDue(x) ==
    /\ x.class # Held /\ ~x.hold
    /\ today >= x.created + Duration[ResolveClass(x.class)]

Deletions ==
    \A r \in Requested :
        sweep.ref = r \/ rows[r].lifecycle # "active" => IsDue(rows[r])

RetentionInv ==
    /\ Rows
    /\ today \in Nat
    /\ \A r \in Requested : rows[r].created = 0
    /\ sweep = [ref |-> sweep.ref, gone |-> sweep.gone]
    /\ Deletions

\* What retention looks at in a row.
SameTerms(x, y) ==
    /\ x.class = y.class /\ x.hold = y.hold
    /\ x.created = y.created /\ x.lifecycle = y.lifecycle

\* The deadline of a row that is not held by its class is a number.
LEMMA Deadlines ==
    ASSUME NEW class, class # Held
    PROVE  /\ ResolveClass(class) \in DOMAIN Duration
           /\ Duration[ResolveClass(class)] \in Nat
           /\ ResolveClass(class) # Held
  <1>1. ResolveClass(class) \in DOMAIN Duration
    BY ArtifactsAssumption DEF ArtifactsAssumption, ResolveClass
  <1>2. Duration[ResolveClass(class)] \in Nat
    BY <1>1, ArtifactsAssumption DEF ArtifactsAssumption
  <1>3. Held \notin DOMAIN Duration
    BY ArtifactsAssumption DEF ArtifactsAssumption
  <1> QED BY <1>1, <1>2, <1>3

\* A row that retention calls expired is due; and what is due is not accessible.
LEMMA ExpiredIsDue ==
    ASSUME NEW x, Evaluate(x, today) = "expired"
    PROVE  IsDue(x)
  <1>1. ~IsProtected(x) /\ today >= Deadline(x)
    BY DEF Evaluate
  <1>2. x.class # Held
    BY <1>1 DEF IsProtected, ResolveClass
  <1> QED BY <1>1, <1>2 DEF IsDue, IsProtected, Deadline

LEMMA DueIsInaccessible ==
    ASSUME NEW x, IsDue(x)
    PROVE  ~AccessAllowed(x, today)
  <1>1. ~IsProtected(x) /\ today >= Deadline(x)
    BY Deadlines DEF IsDue, IsProtected, Deadline
  <1>2. Evaluate(x, today) \in {"deleted", "expired"}
    BY <1>1 DEF Evaluate
  <1> QED BY <1>2 DEF AccessAllowed

\* The writes of a worker leave the terms of all rows alone.
RowsKeepTerms ==
    /\ Rows'
    /\ \A q \in Requested : SameTerms(rows'[q], rows[q])

LEMMA WriteKeepsTerms ==
    ASSUME Rows, NEW w, NEW r, NEW state, NEW new,
           r \in Requested => IsRow(new) /\ SameTerms(new, rows[r]),
           Write(w, r, state, new)
    PROVE  RowsKeepTerms
  <1>1. rows' = [rows EXCEPT ![r] = new] \/ rows' = rows
    BY DEF Write
  <1>2. \A q \in Requested :
           rows'[q] = rows[q] \/ (q = r /\ rows'[q] = new)
    BY <1>1 DEF Rows
  <1>3. DOMAIN rows' = Requested /\ rows' = [q \in Requested |-> rows'[q]]
    BY <1>1 DEF Rows
  <1>4. \A q \in Requested : IsRow(rows'[q]) /\ SameTerms(rows'[q], rows[q])
    BY <1>2 DEF Rows, SameTerms
  <1> QED BY <1>3, <1>4 DEF RowsKeepTerms, Rows

LEMMA OneKeepsTerms ==
    ASSUME Rows, NEW r \in Requested, NEW new, IsRow(new), SameTerms(new, rows[r]),
           rows' = [rows EXCEPT ![r] = new]
    PROVE  RowsKeepTerms
  <1>1. \A q \in Requested :
           rows'[q] = rows[q] \/ (q = r /\ rows'[q] = new)
    BY DEF Rows
  <1>2. DOMAIN rows' = Requested /\ rows' = [q \in Requested |-> rows'[q]]
    BY DEF Rows
  <1>3. \A q \in Requested : IsRow(rows'[q]) /\ SameTerms(rows'[q], rows[q])
    BY <1>1 DEF Rows, SameTerms
  <1> QED BY <1>2, <1>3 DEF RowsKeepTerms, Rows

LEMMA SameRows ==
    ASSUME Rows, UNCHANGED rows
    PROVE  RowsKeepTerms
  BY DEF RowsKeepTerms, Rows, IsRow, SameTerms

\* A row with other values in the fields that workers write.
WithWork(x, state, owner, attempts, recovery, package) ==
    [state |-> state, owner |-> owner, attempts |-> attempts,
     recovery |-> recovery, package |-> package, lifecycle |-> x.lifecycle,
     class |-> x.class, hold |-> x.hold, created |-> x.created]

LEMMA WithWorkIsRow ==
    ASSUME NEW x, NEW s, NEW o, NEW a, NEW c, NEW p
    PROVE  IsRow(WithWork(x, s, o, a, c, p)) /\ SameTerms(WithWork(x, s, o, a, c, p), x)
  BY DEF IsRow, WithWork, SameTerms

LEMMA RowWithOne ==
    ASSUME NEW x, IsRow(x), NEW v
    PROVE  /\ [x EXCEPT !.state = v] = WithWork(x, v, x.owner, x.attempts, x.recovery, x.package)
           /\ [x EXCEPT !.owner = v] = WithWork(x, x.state, v, x.attempts, x.recovery, x.package)
           /\ [x EXCEPT !.attempts = v] = WithWork(x, x.state, x.owner, v, x.recovery, x.package)
           /\ [x EXCEPT !.recovery = v] = WithWork(x, x.state, x.owner, x.attempts, v, x.package)
           /\ [x EXCEPT !.package = v] = WithWork(x, x.state, x.owner, x.attempts, x.recovery, v)
  <1> DEFINE st == x.state  ow == x.owner  at == x.attempts  re == x.recovery
             pa == x.package  li == x.lifecycle  cl == x.class  ho == x.hold  cr == x.created
  <1>1. x = [state |-> st, owner |-> ow, attempts |-> at, recovery |-> re, package |-> pa,
             lifecycle |-> li, class |-> cl, hold |-> ho, created |-> cr]
    BY DEF IsRow
  <1> HIDE DEF st, ow, at, re, pa, li, cl, ho, cr
  <1>2. [x EXCEPT !.state = v] = WithWork(x, v, x.owner, x.attempts, x.recovery, x.package)
    BY <1>1 DEF WithWork
  <1>3. [x EXCEPT !.owner = v] = WithWork(x, x.state, v, x.attempts, x.recovery, x.package)
    BY <1>1 DEF WithWork
  <1>4. [x EXCEPT !.attempts = v] = WithWork(x, x.state, x.owner, v, x.recovery, x.package)
    BY <1>1 DEF WithWork
  <1>5. [x EXCEPT !.recovery = v] = WithWork(x, x.state, x.owner, x.attempts, v, x.package)
    BY <1>1 DEF WithWork
  <1>6. [x EXCEPT !.package = v] = WithWork(x, x.state, x.owner, x.attempts, x.recovery, v)
    BY <1>1 DEF WithWork
  <1> QED BY <1>2, <1>3, <1>4, <1>5, <1>6

LEMMA RowWithState ==
    ASSUME NEW x, IsRow(x), NEW v
    PROVE  [x EXCEPT !.state = v] = WithWork(x, v, x.owner, x.attempts, x.recovery, x.package)
  BY RowWithOne

LEMMA RowWithAttempts ==
    ASSUME NEW x, IsRow(x), NEW v
    PROVE  [x EXCEPT !.attempts = v]
             = WithWork(x, x.state, x.owner, v, x.recovery, x.package)
  BY RowWithOne

LEMMA RowWithTwo ==
    ASSUME NEW x, IsRow(x), NEW s, NEW v
    PROVE  /\ [x EXCEPT !.state = s, !.owner = v]
                = WithWork(x, s, v, x.attempts, x.recovery, x.package)
           /\ [x EXCEPT !.state = s, !.recovery = v]
                = WithWork(x, s, x.owner, x.attempts, v, x.package)
  <1> DEFINE xs == [x EXCEPT !.state = s]
  <1>1. /\ [x EXCEPT !.state = s, !.owner = v] = [xs EXCEPT !.owner = v]
        /\ [x EXCEPT !.state = s, !.recovery = v] = [xs EXCEPT !.recovery = v]
    OBVIOUS
  <1>2. xs = WithWork(x, s, x.owner, x.attempts, x.recovery, x.package)
    BY RowWithOne
  <1>3. IsRow(xs)
    BY <1>2, WithWorkIsRow
  <1> HIDE DEF xs
  <1>4. /\ [xs EXCEPT !.owner = v]
              = WithWork(xs, xs.state, v, xs.attempts, xs.recovery, xs.package)
        /\ [xs EXCEPT !.recovery = v]
              = WithWork(xs, xs.state, xs.owner, xs.attempts, v, xs.package)
    BY <1>3, RowWithOne
  <1> QED BY <1>1, <1>2, <1>4 DEF WithWork

LEMMA OwnedWithWork ==
    ASSUME NEW x, IsRow(x), NEW s, NEW o
    PROVE  [x EXCEPT !.owner = o, !.state = s]
             = WithWork(x, s, o, x.attempts, x.recovery, x.package)
  <1> DEFINE xo == [x EXCEPT !.owner = o]
  <1>1. [x EXCEPT !.owner = o, !.state = s] = [xo EXCEPT !.state = s]
    OBVIOUS
  <1>2. xo = WithWork(x, x.state, o, x.attempts, x.recovery, x.package)
    BY RowWithOne
  <1> HIDE DEF xo
  <1>3. [xo EXCEPT !.state = s]
          = WithWork(xo, s, xo.owner, xo.attempts, xo.recovery, xo.package)
    <2>1. IsRow(WithWork(x, x.state, o, x.attempts, x.recovery, x.package))
      BY WithWorkIsRow
    <2>2. IsRow(xo)
      BY ONLY <1>2, <2>1
    <2> QED BY ONLY <2>2, RowWithState
  <1>4. /\ xo.owner = o /\ xo.attempts = x.attempts /\ xo.recovery = x.recovery
        /\ xo.package = x.package /\ xo.lifecycle = x.lifecycle /\ xo.class = x.class
        /\ xo.hold = x.hold /\ xo.created = x.created
    BY ONLY <1>2 DEF WithWork
  <1>5. WithWork(xo, s, xo.owner, xo.attempts, xo.recovery, xo.package)
          = WithWork(x, s, o, x.attempts, x.recovery, x.package)
    BY ONLY <1>4 DEF WithWork
  <1> QED BY ONLY <1>1, <1>3, <1>5

LEMMA ClaimWithWork ==
    ASSUME NEW x, IsRow(x), NEW s, NEW o, NEW a
    PROVE  [x EXCEPT !.state = s, !.owner = o, !.attempts = a]
             = WithWork(x, s, o, a, x.recovery, x.package)
  <1> DEFINE y == [x EXCEPT !.state = s, !.owner = o]
  <1>1. [x EXCEPT !.state = s, !.owner = o, !.attempts = a] = [y EXCEPT !.attempts = a]
    BY SMTT(30)
  <1>2. y = WithWork(x, s, o, x.attempts, x.recovery, x.package)
    BY RowWithTwo
  <1> HIDE DEF y
  <1>3. [y EXCEPT !.attempts = a]
          = WithWork(y, y.state, y.owner, a, y.recovery, y.package)
    <2>1. IsRow(WithWork(x, s, o, x.attempts, x.recovery, x.package))
      BY WithWorkIsRow
    <2>2. IsRow(y)
      BY ONLY <1>2, <2>1
    <2> QED BY ONLY <2>2, RowWithAttempts
  <1>4. /\ y.state = s /\ y.owner = o /\ y.recovery = x.recovery
        /\ y.package = x.package /\ y.lifecycle = x.lifecycle /\ y.class = x.class
        /\ y.hold = x.hold /\ y.created = x.created
    BY ONLY <1>2 DEF WithWork
  <1>5. WithWork(y, y.state, y.owner, a, y.recovery, y.package)
          = WithWork(x, s, o, a, x.recovery, x.package)
    BY ONLY <1>4 DEF WithWork
  <1> QED BY ONLY <1>1, <1>3, <1>5

\* What a worker puts in the place of a row has its terms.
LEMMA BuriedRow ==
    ASSUME Rows, NEW r \in Requested
    PROVE  /\ IsRow([rows[r] EXCEPT !.state = "terminal_failure"])
           /\ SameTerms([rows[r] EXCEPT !.state = "terminal_failure"], rows[r])
           /\ IsRow([rows[r] EXCEPT !.state = "queued"])
           /\ SameTerms([rows[r] EXCEPT !.state = "queued"], rows[r])
  <1> DEFINE x == rows[r]
  <1>1. IsRow(x)
    BY DEF Rows
  <1> HIDE DEF x
  <1>2. /\ IsRow([x EXCEPT !.state = "terminal_failure"])
        /\ SameTerms([x EXCEPT !.state = "terminal_failure"], x)
        /\ IsRow([x EXCEPT !.state = "queued"])
        /\ SameTerms([x EXCEPT !.state = "queued"], x)
    BY <1>1 DEF IsRow, SameTerms
  <1> QED BY <1>2 DEF x

LEMMA FinalIsRow ==
    ASSUME NEW x, IsRow(x), NEW o, NEW p
    PROVE  \A y \in {[x EXCEPT !.owner = o, !.state = "terminal_failure"],
                     [x EXCEPT !.owner = o, !.state = "finalized", !.package = p]} :
              IsRow(y) /\ SameTerms(y, x)
  <1>1. [x EXCEPT !.owner = o, !.state = "terminal_failure"]
           = WithWork(x, "terminal_failure", o, x.attempts, x.recovery, x.package)
    BY OwnedWithWork
  <1> DEFINE z == [x EXCEPT !.owner = o, !.state = "finalized"]
  <1>2. [x EXCEPT !.owner = o, !.state = "finalized", !.package = p] = [z EXCEPT !.package = p]
    OBVIOUS
  <1>3. z = WithWork(x, "finalized", o, x.attempts, x.recovery, x.package)
    BY OwnedWithWork
  <1> HIDE DEF z
  <1>4. IsRow(z) /\ SameTerms(z, x)
    BY <1>3, WithWorkIsRow
  <1>5. [z EXCEPT !.package = p]
          = WithWork(z, z.state, z.owner, z.attempts, z.recovery, p)
    BY <1>4, RowWithOne
  <1>6. IsRow([z EXCEPT !.package = p]) /\ SameTerms([z EXCEPT !.package = p], z)
    BY <1>5, WithWorkIsRow
  <1> DEFINE u == [z EXCEPT !.package = p]
             v == [x EXCEPT !.owner = o, !.state = "terminal_failure"]
  <1>7. IsRow(v) /\ SameTerms(v, x)
    BY <1>1, WithWorkIsRow
  <1> HIDE DEF u
  <1>8. IsRow(u) /\ SameTerms(u, x)
    BY <1>4, <1>6 DEF SameTerms, u
  <1> QED BY <1>2, <1>7, <1>8 DEF u

LEMMA FinalizedRow ==
    ASSUME Rows, NEW r \in Requested, NEW w, NEW s, NEW x
    PROVE  /\ IsRow(Finalized(w, r, s, x))
           /\ SameTerms(Finalized(w, r, s, x), rows[r])
  <1>1. IsRow(rows[r])
    BY DEF Rows
  <1> QED BY <1>1, FinalIsRow DEF Finalized

LEMMA BuryKeepsTerms ==
    ASSUME Rows, NEW w, NEW r, NEW state, Bury(w, r, state)
    PROVE  RowsKeepTerms
  BY BuriedRow, WriteKeepsTerms DEF Bury

LEMMA RetryKeepsTerms ==
    ASSUME Rows, NEW w, NEW r, Retry(w, r)
    PROVE  RowsKeepTerms
  BY BuriedRow, BuryKeepsTerms, WriteKeepsTerms DEF Retry

LEMMA ClaimKeepsTerms ==
    ASSUME Rows, NEW w, NEW r \in Requested,
           Claim(w, r) \/ TakeOver(w, r)
    PROVE  RowsKeepTerms
  <1> DEFINE x == rows[r]
             claimed == [x EXCEPT !.state = "extracting", !.owner = w, !.attempts = @ + 1]
             taken == IF x.state = "extracting" THEN [x EXCEPT !.state = "queued", !.owner = w]
                      ELSE Finalized(w, r, x.recovery.segment, x.recovery.artifact)
  <1>1. IsRow(x)
    BY DEF Rows
  <1>2. IsRow(Finalized(w, r, x.recovery.segment, x.recovery.artifact))
        /\ SameTerms(Finalized(w, r, x.recovery.segment, x.recovery.artifact), x)
    BY FinalizedRow
  <1>3. CASE Claim(w, r)
    <2>1. rows' = [rows EXCEPT ![r] = claimed]
      BY <1>3 DEF Claim, Rows
    <2> HIDE DEF x
    <2>2. IsRow(claimed) /\ SameTerms(claimed, x)
      <3> DEFINE n == x.attempts + 1
      <3>1. claimed = WithWork(x, "extracting", w, n, x.recovery, x.package)
        <4> HIDE DEF n
        <4>1. [x EXCEPT !.state = "extracting", !.owner = w, !.attempts = n]
                = WithWork(x, "extracting", w, n, x.recovery, x.package)
          BY <1>1, ClaimWithWork
        <4> QED BY <4>1 DEF n
      <3> QED BY <3>1, WithWorkIsRow
    <2>3. SameTerms(claimed, rows[r])
      BY ONLY <2>2 DEF x
    <2> HIDE DEF claimed
    <2> QED BY <2>1, <2>2, <2>3, OneKeepsTerms
  <1>4. CASE TakeOver(w, r)
    <2>1. rows' = [rows EXCEPT ![r] = taken]
      BY <1>4 DEF TakeOver, Rows
    <2> HIDE DEF x
    <2>2. IsRow(taken) /\ SameTerms(taken, x)
      BY <1>1, <1>2 DEF IsRow, SameTerms
    <2>3. SameTerms(taken, rows[r])
      BY ONLY <2>2 DEF x
    <2> HIDE DEF taken
    <2> QED BY <2>1, <2>2, <2>3, OneKeepsTerms
  <1> QED BY <1>3, <1>4

LEMMA WorkersKeepTerms ==
    ASSUME Rows, NEW w, WorkerStep(w)
    PROVE  RowsKeepTerms /\ UNCHANGED <<sweep, today>>
  <1> DEFINE r == work[w].ref
  <1>1. CASE \E q \in Requested : Claim(w, q) \/ TakeOver(w, q)
    BY <1>1, ClaimKeepsTerms DEF Claim, TakeOver
  <1>2. CASE ResolveSource(w)
    BY <1>2, BuryKeepsTerms, SameRows DEF ResolveSource
  <1>3. CASE ExtractArtifact(w)
    <2>1. Bury(w, r, "extracting") \/ Retry(w, r) \/ UNCHANGED rows
      BY <1>3 DEF ExtractArtifact
    <2> QED BY <1>3, <2>1, BuryKeepsTerms, RetryKeepsTerms, SameRows DEF ExtractArtifact
  <1>4. CASE Put(w)
    BY <1>4, RetryKeepsTerms, SameRows DEF Put
  <1>5. CASE CheckpointArtifact(w)
    <2> DEFINE recovery == [segment |-> work[w].segment, artifact |-> work[w].artifact]
               new == [rows[r] EXCEPT !.state = "uploading", !.recovery = recovery]
    <2>1. Write(w, r, "extracting", new)
      BY <1>5 DEF CheckpointArtifact
    <2> HIDE DEF recovery
    <2>2. r \in Requested => IsRow(new) /\ SameTerms(new, rows[r])
      <3> SUFFICES ASSUME r \in Requested PROVE IsRow(new) /\ SameTerms(new, rows[r])
        OBVIOUS
      <3> DEFINE x == rows[r]
      <3>1. IsRow(x)
        BY DEF Rows
      <3> HIDE DEF x
      <3>2. [x EXCEPT !.state = "uploading", !.recovery = recovery]
              = WithWork(x, "uploading", x.owner, x.attempts, recovery, x.package)
        BY <3>1, RowWithTwo
      <3> QED BY <3>2, WithWorkIsRow DEF x
    <2> QED BY <1>5, <2>1, <2>2, WriteKeepsTerms DEF CheckpointArtifact
  <1>6. CASE FinalizeArtifact(w)
    BY <1>6, FinalizedRow, WriteKeepsTerms DEF FinalizeArtifact
  <1>7. CASE Fails(w)
    BY <1>7, RetryKeepsTerms, SameRows DEF Fails
  <1> QED BY <1>1, <1>2, <1>3, <1>4, <1>5, <1>6, <1>7 DEF WorkerStep

-----------------------------------------------------------------------------
LEMMA InitRetention ==
    ASSUME ArtifactsInit PROVE RetentionInv
  <1>1. Nil \notin Requested
    BY ArtifactsAssumption DEF ArtifactsAssumption
  <1>2. PICK term : rows = [r \in Requested |->
            [state |-> "queued", owner |-> Nil, attempts |-> 0, recovery |-> Nil,
             package |-> Nil, lifecycle |-> "active", class |-> term[r].class,
             hold |-> term[r].hold, created |-> 0]]
    BY DEF ArtifactsInit
  <1>3. Rows /\ \A r \in Requested : rows[r].created = 0 /\ rows[r].lifecycle = "active"
    BY <1>2 DEF Rows, IsRow
  <1>4. today = 0 /\ sweep = NoSweep
    BY DEF ArtifactsInit
  <1> QED BY <1>1, <1>3, <1>4 DEF RetentionInv, Deletions, NoSweep

\* What is due stays due, whatever else is written on its row.
LEMMA DueStaysDue ==
    ASSUME RetentionInv, NEW r \in Requested,
           IsDue(rows[r]), rows'[r].class = rows[r].class, rows'[r].hold = rows[r].hold,
           rows'[r].created = rows[r].created, today' \in {today, today + 1}
    PROVE  IsDue(rows[r])'
  <1>1. rows[r].class # Held /\ rows[r].created = 0 /\ today \in Nat
    BY DEF RetentionInv, IsDue
  <1>2. Duration[ResolveClass(rows[r].class)] \in Nat
    BY <1>1, Deadlines
  <1>3. ResolveClass(rows'[r].class) = ResolveClass(rows[r].class)
    OBVIOUS
  <1> QED BY <1>1, <1>2, <1>3 DEF IsDue

LEMMA NextRetention ==
    ASSUME RetentionInv, [ArtifactsNext]_artifactVars
    PROVE  RetentionInv'
  <1> DEFINE Same(r) == /\ rows'[r].class = rows[r].class /\ rows'[r].hold = rows[r].hold
                        /\ rows'[r].created = rows[r].created
  <1>1. Rows
    BY DEF RetentionInv
  <1>2. CASE \/ \E w \in Workers : WorkerStep(w)
             \/ UNCHANGED <<rows, sweep, today>>
    <2>1. RowsKeepTerms /\ UNCHANGED <<sweep, today>>
      BY <1>1, <1>2, WorkersKeepTerms, SameRows
    <2>2. \A r \in Requested : Same(r) /\ rows'[r].lifecycle = rows[r].lifecycle
      BY <2>1 DEF RowsKeepTerms, SameTerms
    <2>3. \A r \in Requested : IsDue(rows[r]) => IsDue(rows[r])'
      BY <2>1, <2>2, DueStaysDue
    <2> QED BY <2>1, <2>2, <2>3 DEF RetentionInv, Deletions, RowsKeepTerms
  <1>3. CASE \E r \in Requested : BeginDeletion(r)
    <2>1. PICK r \in Requested : BeginDeletion(r)
      BY <1>3
    <2>2. IsDue(rows[r]) /\ sweep' = [ref |-> r, gone |-> FALSE] /\ UNCHANGED <<rows, today>>
      BY <2>1, ExpiredIsDue DEF BeginDeletion
    <2>3. \A q \in Requested : IsDue(rows[q]) => IsDue(rows[q])'
      BY <2>2 DEF IsDue
    <2> QED BY <2>2, <2>3 DEF RetentionInv, Deletions, Rows, IsRow
  <1>4. CASE DeleteObject \/ SweepDies \/ Tomorrow
    <2>1. /\ UNCHANGED rows /\ today' \in {today, today + 1}
          /\ \/ sweep' = NoSweep \/ sweep' = [sweep EXCEPT !.gone = TRUE]
             \/ sweep' = sweep
      BY <1>4 DEF DeleteObject, SweepDies, Tomorrow
    <2>2. /\ sweep' = [ref |-> sweep'.ref, gone |-> sweep'.gone]
          /\ sweep'.ref \in {sweep.ref, Nil}
      BY <2>1 DEF RetentionInv, NoSweep
    <2>3. \A r \in Requested : IsDue(rows[r]) => IsDue(rows[r])'
      BY <2>1, DueStaysDue
    <2>4. Nil \notin Requested
      BY ArtifactsAssumption DEF ArtifactsAssumption
    <2>5. today' \in Nat
      BY <2>1 DEF RetentionInv
    <2> QED BY <2>1, <2>2, <2>3, <2>4, <2>5 DEF RetentionInv, Deletions, Rows, IsRow
  <1>5. CASE EndDeletion
    <2> DEFINE is == IF sweep.gone THEN "deleted" ELSE "deletion_pending"
    <2>1. /\ rows' = [rows EXCEPT ![sweep.ref].lifecycle = is]
          /\ sweep' = NoSweep /\ UNCHANGED today
      BY <1>5 DEF EndDeletion
    <2> HIDE DEF is
    <2>2. \A r \in Requested :
             /\ IsRow(rows'[r]) /\ Same(r)
             /\ r # sweep.ref => rows'[r].lifecycle = rows[r].lifecycle
      <3> SUFFICES ASSUME NEW r \in Requested
                   PROVE  /\ IsRow(rows'[r]) /\ Same(r)
                          /\ r # sweep.ref => rows'[r].lifecycle = rows[r].lifecycle
        OBVIOUS
      <3> DEFINE x == rows[r]
      <3>1. IsRow(x)
        BY <1>1 DEF Rows
      <3>2. rows'[r] = IF r = sweep.ref THEN [x EXCEPT !.lifecycle = is] ELSE x
        BY <2>1, <1>1 DEF Rows
      <3> HIDE DEF x
      <3>3. /\ IsRow([x EXCEPT !.lifecycle = is])
            /\ [x EXCEPT !.lifecycle = is].class = x.class
            /\ [x EXCEPT !.lifecycle = is].hold = x.hold
            /\ [x EXCEPT !.lifecycle = is].created = x.created
        BY <3>1 DEF IsRow
      <3> QED BY <3>1, <3>2, <3>3 DEF x
    <2>3. Rows'
      BY <1>1, <2>1, <2>2 DEF Rows
    <2>4. \A r \in Requested : IsDue(rows[r]) => IsDue(rows[r])'
      BY <2>1, <2>2, DueStaysDue
    <2>5. Nil \notin Requested
      BY ArtifactsAssumption DEF ArtifactsAssumption
    <2> QED BY <2>1, <2>2, <2>3, <2>4, <2>5 DEF RetentionInv, Deletions, NoSweep
  <1>6. \/ \E w \in Workers : WorkerStep(w)
        \/ UNCHANGED <<rows, sweep, today>>
        \/ \E r \in Requested : BeginDeletion(r)
        \/ DeleteObject \/ SweepDies \/ Tomorrow
        \/ EndDeletion
    BY DEF ArtifactsNext, artifactVars, Expire, Record
  <1> QED BY <1>2, <1>3, <1>4, <1>5, <1>6

\* Whatever a deletion was begun for is past its deadline, was never on hold and is
\* no longer accessible, for any terms of retention and any faults of storage.
THEOREM DeletionsAreDue == ArtifactsSpec => []DeletionIsDue
  <1>1. RetentionInv => DeletionIsDue
    BY DueIsInaccessible DEF RetentionInv, Deletions, IsDue, DeletionIsDue
  <1>2. ArtifactsInit => RetentionInv
    BY InitRetention
  <1>3. RetentionInv /\ [ArtifactsNext]_artifactVars => RetentionInv'
    BY NextRetention
  <1> QED BY <1>1, <1>2, <1>3, PTL DEF ArtifactsSpec

-----------------------------------------------------------------------------
(* Packages.  What covers an interval is computed by a fold, and the list  *)
(* it folds is chosen.  An induction over either is the least number of a  *)
(* set of counterexamples.                                                 *)

LEMMA LeastNatural ==
    ASSUME NEW T, T \subseteq Nat, T # {}
    PROVE  \E x \in T : \A y \in T : x <= y
  <1> DEFINE R == {ss \in Nat \X Nat : ss[1] < ss[2]}
  <1>1. IsWellFoundedOn(R, Nat)
    BY NatLessThanWellFounded DEF OpToRel
  <1>2. \E x \in T : \A y \in T : ~(<<y, x>> \in R)
    <2> HIDE DEF R
    <2> QED BY <1>1, WFMin DEF R
  <1>3. PICK x \in T : \A y \in T : ~(<<y, x>> \in R)
    BY <1>2
  <1>4. \A y \in T : x <= y
    <2> TAKE y \in T
    <2>1. x \in Nat /\ y \in Nat
      BY <1>3
    <2>2. y < x => <<y, x>> \in R
      BY <2>1
    <2> QED BY <1>3, <2>1, <2>2
  <1> QED BY <1>3, <1>4

LEMMA MaxIs ==
    ASSUME NEW S, NEW x \in S, S \subseteq Int, \A y \in S : x >= y
    PROVE  Max(S) = x
  <1>1. Max(S) \in S /\ \A y \in S : Max(S) >= y
    BY DEF Max
  <1>2. Max(S) \in Int /\ x \in Int /\ x >= Max(S) /\ Max(S) >= x
    BY <1>1
  <1> QED BY <1>2

\* The coverages c on the way through a list of n recordings, from base.
OnTheWay(c, n, list, base) ==
    /\ c[0] = base
    /\ \A i \in 1 .. n : c[i] = Extend(c[i - 1], list[i])
    /\ FoldLeft(Extend, base, list) = c[n]

LEMMA FoldOfCover ==
    ASSUME NEW n \in Nat, NEW seq, DOMAIN seq = 1 .. n, NEW base
    PROVE  \E c : OnTheWay(c, n, seq, base)
  <1> DEFINE Body(g, k) ==
               [s \in SUBSET (1 .. k) |->
                   IF s = {} THEN base ELSE Extend(g[s \ {Max(s)}], seq[Max(s)])]
             Bad == {k \in 0 .. n : ~\E g : g = Body(g, k)}
             next(g, k) == [s \in SUBSET (1 .. (k + 1)) |->
                 IF k + 1 \in s THEN Extend(g[s \ {k + 1}], seq[k + 1]) ELSE g[s]]
             empty == [s \in SUBSET (1 .. 0) |-> base]
  <1>1. empty = Body(empty, 0)
    OBVIOUS
  <1>2. ASSUME NEW k \in Nat, NEW g, g = Body(g, k)
        PROVE  next(g, k) = Body(next(g, k), k + 1)
    <2> DEFINE h == next(g, k)
    <2>1. ASSUME NEW s \in SUBSET (1 .. (k + 1)), k + 1 \in s
          PROVE  h[s] = Body(h, k + 1)[s]
      <3>1. Max(s) = k + 1
        <4>1. s \subseteq Int /\ \A y \in s : k + 1 >= y
          OBVIOUS
        <4> QED BY <2>1, <4>1, MaxIs
      <3>2. s \ {k + 1} \in SUBSET (1 .. (k + 1)) /\ k + 1 \notin s \ {k + 1}
        OBVIOUS
      <3>3. h[s \ {k + 1}] = g[s \ {k + 1}]
        BY <3>2
      <3>4. h[s] = Extend(g[s \ {k + 1}], seq[k + 1])
        BY <2>1
      <3>5. Body(h, k + 1)[s] = Extend(h[s \ {Max(s)}], seq[Max(s)])
        <4> HIDE DEF h
        <4> QED BY <2>1
      <3> HIDE DEF h, Body
      <3> QED BY <3>1, <3>3, <3>4, <3>5
    <2>2. ASSUME NEW s \in SUBSET (1 .. (k + 1)), k + 1 \notin s
          PROVE  h[s] = Body(h, k + 1)[s]
      <3>1. s \in SUBSET (1 .. k)
        BY <2>2
      <3>2. h[s] = g[s]
        BY <2>2
      <3>3. g[s] = IF s = {} THEN base ELSE Extend(g[s \ {Max(s)}], seq[Max(s)])
        <4>1. g[s] = Body(g, k)[s]
          BY <1>2
        <4> QED BY <3>1, <4>1
      <3>4. h[s \ {Max(s)}] = g[s \ {Max(s)}]
        BY <2>2
      <3>5. Body(h, k + 1)[s] = IF s = {} THEN base ELSE Extend(h[s \ {Max(s)}], seq[Max(s)])
        <4> HIDE DEF h
        <4> QED OBVIOUS
      <3> HIDE DEF h, Body
      <3> QED BY <3>2, <3>3, <3>4, <3>5
    <2>3. \A s \in SUBSET (1 .. (k + 1)) : h[s] = Body(h, k + 1)[s]
      BY <2>1, <2>2
    <2> QED BY <2>3
  <1>3. Bad = {}
    <2> SUFFICES ASSUME Bad # {} PROVE FALSE
      OBVIOUS
    <2>1. PICK k \in Bad : \A y \in Bad : k <= y
      <3>1. Bad \subseteq Nat
        OBVIOUS
      <3> HIDE DEF Bad
      <3> QED BY <3>1, LeastNatural
    <2>2. k # 0
      BY <1>1
    <2>3. k - 1 \in Nat /\ k - 1 \in 0 .. n /\ k - 1 \notin Bad
      <3>1. k \in 0 .. n
        OBVIOUS
      <3>2. k - 1 \in 0 .. n /\ ~(k <= k - 1)
        BY <2>2, <3>1
      <3> HIDE DEF Bad
      <3> QED BY <2>1, <3>2
    <2>4. PICK g : g = Body(g, k - 1)
      BY <2>3
    <2>5. next(g, k - 1) = Body(next(g, k - 1), k)
      <3> HIDE DEF Body, next
      <3> QED BY <1>2, <2>3, <2>4
    <2> HIDE DEF Body, next
    <2> QED BY <2>1, <2>5
  <1> DEFINE G == CHOOSE g : g = Body(g, n)
  <1>4. G = Body(G, n)
    <2>1. \E g : g = Body(g, n)
      <3>1. n \in 0 .. n
        OBVIOUS
      <3>2. n \notin Bad
        BY <1>3
      <3> QED BY <3>1, <3>2
    <2> HIDE DEF Body
    <2> QED BY <2>1
  <1>5. FoldLeft(Extend, base, seq) = G[1 .. n]
    BY DEF FoldLeft, MapThenFoldSet
  <1> DEFINE c == [i \in 0 .. n |-> G[1 .. i]]
  <1>6. \A s \in SUBSET (1 .. n) :
            G[s] = IF s = {} THEN base ELSE Extend(G[s \ {Max(s)}], seq[Max(s)])
    <2> HIDE DEF G
    <2> QED BY <1>4
  <1> HIDE DEF G
  <1>7. c[0] = base
    <2>1. 1 .. 0 = {} /\ {} \in SUBSET (1 .. n)
      OBVIOUS
    <2>2. c[0] = G[1 .. 0]
      OBVIOUS
    <2>3. G[{}] = base
      <3> HIDE DEF c
      <3> QED BY <1>6, <2>1
    <2> QED BY <2>1, <2>2, <2>3
  <1>8. ASSUME NEW i \in 1 .. n PROVE c[i] = Extend(c[i - 1], seq[i])
    <2>1. Max(1 .. i) = i /\ 1 .. i # {} /\ 1 .. i \in SUBSET (1 .. n)
      <3>1. i \in 1 .. i /\ 1 .. i \subseteq Int /\ \A y \in 1 .. i : i >= y
        OBVIOUS
      <3>2. Max(1 .. i) = i
        BY <3>1, MaxIs
      <3>3. 1 .. i \in SUBSET (1 .. n)
        OBVIOUS
      <3> QED BY <3>1, <3>2, <3>3
    <2>2. (1 .. i) \ {i} = 1 .. (i - 1)
      OBVIOUS
    <2>3. c[i] = G[1 .. i] /\ c[i - 1] = G[1 .. (i - 1)]
      OBVIOUS
    <2> HIDE DEF c
    <2> QED BY <1>6, <2>1, <2>2, <2>3
  <1>9. c[n] = G[1 .. n]
    OBVIOUS
  <1> HIDE DEF c
  <1> QED BY <1>5, <1>7, <1>8, <1>9 DEF OnTheWay

-----------------------------------------------------------------------------
(* Recordings in the order of their time.                                  *)

\* No two recordings have an asset in common.
Distinct(S) ==
    /\ \A x \in S : {x.asset, x.from, x.to} \subseteq Int
    /\ \A x, y \in S : x.asset = y.asset => x = y

LEMMA ChronicleIs ==
    ASSUME NEW S, IsFiniteSet(S), Distinct(S)
    PROVE  /\ Cardinality(S) \in Nat
           /\ Chronicle(S) \in [1 .. Cardinality(S) -> S]
           /\ \A i, j \in 1 .. Cardinality(S) :
                i < j => Earlier(Chronicle(S)[i], Chronicle(S)[j])
  <1> DEFINE n == Cardinality(S)
             Before(x) == {y \in S : Earlier(y, x)}
             rank == [x \in S |-> Cardinality(Before(x)) + 1]
  <1>1. \A x, y \in S : Earlier(x, y) \/ Earlier(y, x) \/ x = y
    BY DEF Distinct, Earlier
  <1>2. \A x, y, z \in S : Earlier(x, y) /\ Earlier(y, z) => Earlier(x, z)
    BY DEF Distinct, Earlier
  <1>3. \A x \in S : ~Earlier(x, x)
    BY DEF Distinct, Earlier
  <1>4. n \in Nat /\ IsFiniteSet(1 .. n) /\ Cardinality(1 .. n) = n
    <2>1. n \in Nat
      BY FS_CardinalityType
    <2> HIDE DEF n
    <2> QED BY <2>1, FS_Interval
  <1>5. ASSUME NEW x \in S
        PROVE  /\ IsFiniteSet(Before(x)) /\ Cardinality(Before(x)) \in Nat
               /\ rank[x] \in 1 .. n
    <2>1. Before(x) \in SUBSET S /\ Before(x) # S
      BY <1>3
    <2>2. IsFiniteSet(Before(x)) /\ Cardinality(Before(x)) <= n /\ Cardinality(Before(x)) # n
      <3> HIDE DEF Before
      <3> QED BY <2>1, FS_Subset
    <2>3. Cardinality(Before(x)) \in Nat
      BY <2>2, FS_CardinalityType
    <2>4. rank[x] = Cardinality(Before(x)) + 1
      OBVIOUS
    <2> HIDE DEF rank, Before, n
    <2> QED BY <1>4, <2>2, <2>3, <2>4
  <1>6. ASSUME NEW x \in S, NEW y \in S, Earlier(x, y)
        PROVE  rank[x] < rank[y]
    <2>1. Before(x) \in SUBSET Before(y) /\ Before(x) # Before(y)
      BY <1>2, <1>3, <1>6
    <2>2. /\ Cardinality(Before(x)) <= Cardinality(Before(y))
          /\ Cardinality(Before(x)) # Cardinality(Before(y))
      <3>1. IsFiniteSet(Before(y))
        BY <1>5
      <3> HIDE DEF Before
      <3> QED BY <2>1, <3>1, FS_Subset
    <2>3. rank[x] = Cardinality(Before(x)) + 1 /\ rank[y] = Cardinality(Before(y)) + 1
      OBVIOUS
    <2>4. Cardinality(Before(x)) \in Nat /\ Cardinality(Before(y)) \in Nat
      BY <1>5
    <2> HIDE DEF rank, Before, n
    <2> QED BY <2>2, <2>3, <2>4
  <1>7. rank \in [S -> 1 .. n]
    <2>1. \A x \in S : rank[x] \in 1 .. n
      BY <1>5
    <2>2. rank = [x \in S |-> rank[x]]
      OBVIOUS
    <2> HIDE DEF rank, n
    <2> QED BY <2>1, <2>2
  <1> HIDE DEF rank, Before
  <1>8. rank \in Surjection(S, 1 .. n)
    <2>1. rank \in Injection(S, 1 .. n)
      <3>1. \A x, y \in S : rank[x] = rank[y] => x = y
        <4>1. \A x \in S : rank[x] \in Int
          BY <1>4, <1>5
        <4> QED BY <1>1, <1>6, <4>1
      <3> QED BY <1>7, <3>1 DEF Injection, IsInjective
    <2> QED BY <1>4, <2>1, FS_Injection
  <1>9. \A i \in 1 .. n : \E x \in S : rank[x] = i
    BY <1>8 DEF Surjection
  <1> DEFINE list == [i \in 1 .. n |-> CHOOSE x \in S : rank[x] = i]
  <1>10. list \in [1 .. n -> S] /\ \A i \in 1 .. n : rank[list[i]] = i
    <2>1. ASSUME NEW i \in 1 .. n PROVE list[i] \in S /\ rank[list[i]] = i
      <3>1. list[i] = CHOOSE x \in S : rank[x] = i
        OBVIOUS
      <3> HIDE DEF list
      <3> QED BY <1>9, <3>1
    <2>2. list = [i \in 1 .. n |-> list[i]]
      OBVIOUS
    <2> HIDE DEF list
    <2> QED BY <2>1, <2>2
  <1> HIDE DEF list
  <1>11. \A i, j \in 1 .. n : i < j => Earlier(list[i], list[j])
    <2> SUFFICES ASSUME NEW i \in 1 .. n, NEW j \in 1 .. n, i < j
                 PROVE  Earlier(list[i], list[j])
      OBVIOUS
    <2>1. /\ list[i] \in S /\ list[j] \in S
          /\ rank[list[i]] = i /\ rank[list[j]] = j
      BY <1>10
    <2>2. list[i] # list[j]
      BY <2>1
    <2>3. ~Earlier(list[j], list[i])
      <3>1. ~(j < i)
        OBVIOUS
      <3> QED BY <1>6, <2>1, <3>1
    <2> QED BY <1>1, <2>1, <2>2, <2>3
  <1> DEFINE P(c) == \A i, j \in DOMAIN c : i < j => Earlier(c[i], c[j])
  <1>12. \E c \in [1 .. n -> S] : P(c)
    BY <1>10, <1>11
  <1>13. Chronicle(S) = CHOOSE c \in [1 .. n -> S] : P(c)
    BY DEF Chronicle
  <1>14. Chronicle(S) \in [1 .. n -> S] /\ P(Chronicle(S))
    <2> HIDE DEF P, n
    <2> QED BY <1>12, <1>13
  <1> QED BY <1>4, <1>14

-----------------------------------------------------------------------------
(* The coverage of an interval.                                            *)

\* A part of a coverage is what a recording has of the interval.
Parts(S) == {[asset |-> x.asset, camera |-> x.camera, from |-> f, to |-> x.to] :
                x \in S, f \in Int}

\* The coverage c of recordings S, all between from and to.
Coverage(S, from, to, c) ==
    /\ c.cursor \in Int /\ from <= c.cursor
    /\ c.parts \in Seq(Parts(S))
    /\ c.parts # <<>> =>
         /\ \E x \in S : c.parts[1] = [asset |-> x.asset, camera |-> x.camera,
                                       from |-> x.from, to |-> x.to]
         /\ c.parts[1].to <= c.cursor /\ c.cursor <= to
         /\ c.parts[Len(c.parts)].to = c.cursor

LEMMA MaxMin ==
    ASSUME NEW a \in Int, NEW b \in Int
    PROVE  /\ Max({a, b}) = IF a >= b THEN a ELSE b
           /\ Min({a, b}) = IF a <= b THEN a ELSE b
  <1>1. Max({a, b}) \in {a, b} /\ \A y \in {a, b} : Max({a, b}) >= y
    <2>1. \E x \in {a, b} : \A y \in {a, b} : x >= y
      OBVIOUS
    <2> QED BY <2>1 DEF Max
  <1>2. Min({a, b}) \in {a, b} /\ \A y \in {a, b} : Min({a, b}) <= y
    <2>1. \E x \in {a, b} : \A y \in {a, b} : x <= y
      OBVIOUS
    <2> QED BY <2>1 DEF Min
  <1> QED BY <1>1, <1>2

LEMMA ExtendCovers ==
    ASSUME NEW S, NEW from \in Int, NEW to \in Int, NEW c, Coverage(S, from, to, c),
           Distinct(S), NEW x \in S,
           from <= x.from, x.from <= x.to, x.to <= to,
           c.parts = <<>> => c.cursor = from
    PROVE  /\ Coverage(S, from, to, Extend(c, x)) /\ Extend(c, x).parts # <<>>
  <1> DEFINE part == [asset |-> x.asset, camera |-> x.camera,
                      from |-> Max({x.from, c.cursor}), to |-> x.to]
             d == [parts |-> Append(c.parts, part), cursor |-> Max({c.cursor, x.to})]
  <1>1. \A y \in S : {y.from, y.to} \subseteq Int
    BY DEF Distinct
  <1>2. c.cursor \in Int
    BY DEF Coverage
  <1>3. CASE x.to <= c.cursor /\ c.parts # <<>>
    BY <1>3 DEF Extend
  <1>4. CASE x.to > c.cursor \/ c.parts = <<>>
    <2>1. Extend(c, x) = d
      BY <1>1, <1>4, <1>2 DEF Extend
    <2>2. c.cursor \in Int /\ from <= c.cursor /\ c.parts \in Seq(Parts(S))
      BY DEF Coverage
    <2>3. Max({c.cursor, x.to}) = x.to
      BY <1>1, <1>4, <2>2, MaxMin
    <2>4. part \in Parts(S)
      <3>1. Max({x.from, c.cursor}) \in Int
        BY <1>1, <2>2, MaxMin
      <3> QED BY <3>1 DEF Parts
    <2>5. part.to = x.to
      OBVIOUS
    <2>6. c.parts = <<>> => part = [asset |-> x.asset, camera |-> x.camera,
                                    from |-> x.from, to |-> x.to]
      <3>1. c.parts = <<>> => Max({x.from, c.cursor}) = x.from
        BY <1>1, <2>2, MaxMin
      <3> QED BY <3>1
    <2> HIDE DEF part
    <2>7. /\ d.parts = Append(c.parts, part) /\ d.cursor = x.to
      BY <2>3
    <2>8. /\ d.parts \in Seq(Parts(S)) /\ d.parts # <<>>
          /\ d.parts[Len(d.parts)] = part
          /\ c.parts = <<>> => d.parts[1] = part
          /\ c.parts # <<>> => d.parts[1] = c.parts[1]
      <3> HIDE DEF d
      <3>1. /\ d.parts \in Seq(Parts(S)) /\ Len(d.parts) = Len(c.parts) + 1
            /\ d.parts[Len(d.parts)] = part
        BY <2>2, <2>4, <2>7
      <3>2. \A i \in 1 .. Len(c.parts) : d.parts[i] = c.parts[i]
        BY <2>2, <2>4, <2>7
      <3>3. /\ c.parts = <<>> => Len(c.parts) = 0
            /\ c.parts # <<>> => 1 \in 1 .. Len(c.parts)
            /\ Len(c.parts) \in Nat
        BY <2>2
      <3> QED BY <3>1, <3>2, <3>3
    <2> HIDE DEF d
    <2>9. d.parts[1].to <= d.cursor
      <3>1. CASE c.parts = <<>>
        BY <1>1, <3>1, <2>5, <2>7, <2>8
      <3>2. CASE c.parts # <<>>
        <4>1. c.parts[1].to <= c.cursor /\ c.cursor <= x.to
          BY <1>1, <3>2, <1>4, <2>2 DEF Coverage
        <4>2. c.parts[1].to \in Int
          <5>1. PICK y \in S : c.parts[1] = [asset |-> y.asset, camera |-> y.camera,
                                              from |-> y.from, to |-> y.to]
            BY <3>2 DEF Coverage
          <5> QED BY <1>1, <5>1
        <4> QED BY <1>1, <3>2, <4>1, <4>2, <2>2, <2>7, <2>8
      <3> QED BY <3>1, <3>2
    <2>10. \E y \in S : d.parts[1] = [asset |-> y.asset, camera |-> y.camera,
                                      from |-> y.from, to |-> y.to]
      BY <2>6, <2>8 DEF Coverage
    <2>11. Coverage(S, from, to, d)
      BY <1>1, <2>5, <2>7, <2>8, <2>9, <2>10, <2>2, <1>4 DEF Coverage
    <2> QED BY <2>1, <2>8, <2>11
  <1> QED BY <1>1, <1>3, <1>4, <1>2

\* A recording as the provider describes it.
IsCandidate(rec) ==
    rec = [asset |-> rec.asset, tenant |-> rec.tenant, venue |-> rec.venue,
           camera |-> rec.camera, session |-> rec.session, from |-> rec.from,
           to |-> rec.to, available |-> rec.available, stored |-> rec.stored,
           sound |-> rec.sound]

Candidates(recs) ==
    /\ IsFiniteSet(recs) /\ Distinct(recs)
    /\ \A rec \in recs : IsCandidate(rec)

LEMMA ClippedIs ==
    ASSUME NEW rec, NEW from \in Int, NEW to \in Int, {rec.from, rec.to} \subseteq Int,
           IsCandidate(rec)
    PROVE  /\ Clipped(rec, from, to).asset = rec.asset
           /\ Clipped(rec, from, to).from = Max({rec.from, from})
           /\ Clipped(rec, from, to).to = Min({rec.to, to})
           /\ Clipped(rec, from, to).from \in Int /\ Clipped(rec, from, to).to \in Int
           /\ from <= Clipped(rec, from, to).from /\ Clipped(rec, from, to).to <= to
           /\ Overlaps(rec, from, to)
                => Clipped(rec, from, to).from <= Clipped(rec, from, to).to
  <1> DEFINE x == Clipped(rec, from, to)
  <1>1. /\ x.asset = rec.asset
        /\ x.from = Max({rec.from, from}) /\ x.to = Min({rec.to, to})
    BY DEF Clipped, IsCandidate
  <1>2. /\ {Max({rec.from, from}), Min({rec.to, to})} \subseteq Int
        /\ from <= Max({rec.from, from}) /\ Min({rec.to, to}) <= to
    <2>1. rec.from \in Int /\ rec.to \in Int
      OBVIOUS
    <2>2. /\ Max({rec.from, from}) = IF rec.from >= from THEN rec.from ELSE from
          /\ Min({rec.to, to}) = IF rec.to <= to THEN rec.to ELSE to
      BY <2>1, MaxMin
    <2> QED BY <2>1, <2>2
  <1>3. Overlaps(rec, from, to) => Max({rec.from, from}) <= Min({rec.to, to})
    BY <1>2 DEF Overlaps
  <1> HIDE DEF x
  <1> QED BY <1>1, <1>2, <1>3 DEF x

LEMMA ClippedWithin ==
    ASSUME NEW rec, NEW from \in Int, NEW to \in Int, {rec.from, rec.to} \subseteq Int,
           IsCandidate(rec), Overlaps(rec, from, to)
    PROVE  /\ Clipped(rec, from, to).asset = rec.asset
           /\ Clipped(rec, from, to).from \in Int /\ Clipped(rec, from, to).to \in Int
           /\ from <= Clipped(rec, from, to).from /\ Clipped(rec, from, to).to <= to
           /\ Clipped(rec, from, to).from <= Clipped(rec, from, to).to
  BY ClippedIs

LEMMA ClippedAsset ==
    \A rec, from, to : IsCandidate(rec) => Clipped(rec, from, to).asset = rec.asset
  BY DEF Clipped, IsCandidate

\* The recordings of an interval, cut to it.
ClippedTo(recs, from, to) ==
    {Clipped(rec, from, to) : rec \in {q \in recs : Overlaps(q, from, to)}}

LEMMA ClippedAre ==
    ASSUME NEW recs, Candidates(recs), NEW from \in Int, NEW to \in Int
    PROVE  LET S == ClippedTo(recs, from, to)
           IN  /\ IsFiniteSet(S) /\ Distinct(S)
               /\ \A x \in S : /\ from <= x.from /\ x.from <= x.to /\ x.to <= to
                               /\ \E rec \in recs : /\ Overlaps(rec, from, to)
                                                    /\ x = Clipped(rec, from, to)
  <1> DEFINE T == {q \in recs : Overlaps(q, from, to)}
             S == ClippedTo(recs, from, to)
             f == [q \in T |-> Clipped(q, from, to)]
  <1>1. \A q \in recs : {q.asset, q.from, q.to} \subseteq Int /\ IsCandidate(q)
    BY DEF Candidates, Distinct
  <1>2. IsFiniteSet(S)
    <2>1. IsFiniteSet(T)
      <3>1. IsFiniteSet(recs) /\ T \in SUBSET recs
        BY DEF Candidates
      <3> HIDE DEF T
      <3> QED BY <3>1, FS_Subset
    <2>2. f \in Surjection(T, S)
      BY DEF Surjection, ClippedTo
    <2> HIDE DEF T, f, S
    <2> QED BY <2>1, <2>2, FS_Surjection
  <1>3. ASSUME NEW x \in S
        PROVE  \E rec \in recs : Overlaps(rec, from, to) /\ x = Clipped(rec, from, to)
    BY DEF ClippedTo
  <1> HIDE DEF S
  <1>4. ASSUME NEW x \in S
        PROVE  /\ {x.asset, x.from, x.to} \subseteq Int
               /\ from <= x.from /\ x.from <= x.to /\ x.to <= to
    <2>1. PICK rec \in recs : Overlaps(rec, from, to) /\ x = Clipped(rec, from, to)
      BY <1>3
    <2>2. {rec.asset, rec.from, rec.to} \subseteq Int /\ IsCandidate(rec)
      BY <1>1
    <2>3. /\ Clipped(rec, from, to).asset = rec.asset
          /\ Clipped(rec, from, to).from \in Int /\ Clipped(rec, from, to).to \in Int
          /\ from <= Clipped(rec, from, to).from /\ Clipped(rec, from, to).to <= to
          /\ Clipped(rec, from, to).from <= Clipped(rec, from, to).to
      BY <2>1, <2>2, ClippedWithin
    <2> QED BY <2>1, <2>2, <2>3
  <1>5. ASSUME NEW x \in S, NEW y \in S, x.asset = y.asset
        PROVE  x = y
    <2>1. PICK p \in recs : Overlaps(p, from, to) /\ x = Clipped(p, from, to)
      BY <1>3
    <2>2. PICK q \in recs : Overlaps(q, from, to) /\ y = Clipped(q, from, to)
      BY <1>3
    <2>3. x.asset = p.asset /\ y.asset = q.asset
      <3>1. /\ {p.from, p.to} \subseteq Int /\ IsCandidate(p)
            /\ {q.from, q.to} \subseteq Int /\ IsCandidate(q)
        BY <1>1
      <3>2. Clipped(p, from, to).asset = p.asset /\ Clipped(q, from, to).asset = q.asset
        BY <3>1, ClippedAsset
      <3> QED BY <2>1, <2>2, <3>2
    <2>4. p = q
      BY <1>5, <2>3 DEF Candidates, Distinct
    <2> QED BY <2>1, <2>2, <2>4
  <1>6. Distinct(S)
    BY <1>4, <1>5 DEF Distinct
  <1> QED BY <1>2, <1>3, <1>4, <1>6 DEF S

\* Parts that begin with what rec has of an interval, and end within it.
BeginWith(parts, rec, from, to) ==
    /\ Overlaps(rec, from, to)
    /\ parts[1].asset = rec.asset
    /\ parts[1].from = Max({rec.from, from})
    /\ parts[1].to = Min({rec.to, to})
    /\ parts[Len(parts)].to \in Int
    /\ parts[1].to <= parts[Len(parts)].to /\ parts[Len(parts)].to <= to

\* What the resolver covers an interval with begins with what a recording has of it.
LEMMA CoverIs ==
    ASSUME NEW recs, Candidates(recs), NEW from \in Int, NEW to \in Int,
           Cover(recs, from, to) # <<>>
    PROVE  \E rec \in recs : BeginWith(Cover(recs, from, to), rec, from, to)
  <1> DEFINE S == ClippedTo(recs, from, to)
             n == Cardinality(S)
             list == Chronicle(S)
             base == [parts |-> <<>>, cursor |-> from]
             parts == Cover(recs, from, to)
  <1>1. /\ IsFiniteSet(S) /\ Distinct(S)
        /\ \A x \in S : /\ from <= x.from /\ x.from <= x.to /\ x.to <= to
                        /\ \E rec \in recs : /\ Overlaps(rec, from, to)
                                             /\ x = Clipped(rec, from, to)
    BY ClippedAre
  <1>2. parts = FoldLeft(Extend, base, list).parts
    BY DEF Cover, ClippedTo
  <1> HIDE DEF S, parts
  <1>3. n \in Nat /\ list \in [1 .. n -> S]
    BY <1>1, ChronicleIs
  <1> HIDE DEF n, list
  <1>4. PICK c : /\ c[0] = base
                 /\ \A i \in 1 .. n : c[i] = Extend(c[i - 1], list[i])
                 /\ FoldLeft(Extend, base, list) = c[n]
    <2>1. DOMAIN list = 1 .. n
      BY <1>3
    <2> HIDE DEF base
    <2>2. \E c : OnTheWay(c, n, list, base)
      BY <1>3, <2>1, FoldOfCover
    <2> QED BY <2>2 DEF OnTheWay
  <1> DEFINE Fine(i) == /\ Coverage(S, from, to, c[i])
                        /\ c[i].parts = <<>> => c[i].cursor = from
             Bad == {i \in 0 .. n : ~Fine(i)}
  <1>5. Fine(0)
    BY <1>4 DEF Coverage
  <1>6. ASSUME NEW i \in 1 .. n, Fine(i - 1) PROVE Fine(i)
    <2>1. list[i] \in S /\ c[i] = Extend(c[i - 1], list[i])
      BY <1>3, <1>4
    <2>2. from <= list[i].from /\ list[i].from <= list[i].to /\ list[i].to <= to
      BY <1>1, <2>1
    <2> QED BY <1>1, <1>6, <2>1, <2>2, ExtendCovers
  <1>7. Bad = {}
    <2> SUFFICES ASSUME Bad # {} PROVE FALSE
      OBVIOUS
    <2>1. PICK k \in Bad : \A y \in Bad : k <= y
      <3>1. Bad \subseteq Nat
        BY <1>3
      <3> HIDE DEF Bad
      <3> QED BY <3>1, LeastNatural
    <2>2. k \in 0 .. n /\ k # 0 /\ ~Fine(k)
      BY <1>5
    <2>3. k - 1 \in 0 .. n /\ ~(k <= k - 1) /\ k \in 1 .. n
      BY <1>3, <2>2
    <2>4. Fine(k - 1)
      BY <2>1, <2>3
    <2> HIDE DEF Fine
    <2> QED BY <1>6, <2>2, <2>3, <2>4
  <1>8. Coverage(S, from, to, c[n])
    <2>1. n \in 0 .. n /\ n \notin Bad
      BY <1>3, <1>7
    <2> QED BY <2>1
  <1>9. parts = c[n].parts /\ parts # <<>>
    BY <1>2, <1>4 DEF parts
  <1>10. PICK x \in S : parts[1] = [asset |-> x.asset, camera |-> x.camera,
                                    from |-> x.from, to |-> x.to]
    BY <1>8, <1>9 DEF Coverage
  <1>11. PICK rec \in recs : Overlaps(rec, from, to) /\ x = Clipped(rec, from, to)
    BY <1>1
  <1>12. /\ x.asset = rec.asset /\ x.from = Max({rec.from, from}) /\ x.to = Min({rec.to, to})
    <2>1. {rec.from, rec.to} \subseteq Int /\ IsCandidate(rec)
      BY <1>11 DEF Candidates, Distinct
    <2>2. /\ Clipped(rec, from, to).asset = rec.asset
          /\ Clipped(rec, from, to).from = Max({rec.from, from})
          /\ Clipped(rec, from, to).to = Min({rec.to, to})
      BY <2>1, ClippedIs, ZenonT(40)
    <2> QED BY <1>11, <2>2
  <1>13. /\ parts[Len(parts)].to = c[n].cursor /\ c[n].cursor \in Int
         /\ parts[1].to <= c[n].cursor /\ c[n].cursor <= to
    BY <1>8, <1>9 DEF Coverage
  <1>14. /\ parts[1].asset = rec.asset /\ parts[1].from = Max({rec.from, from})
         /\ parts[1].to = Min({rec.to, to})
    BY <1>10, <1>12
  <1>15. /\ parts[Len(parts)].to \in Int
         /\ parts[1].to <= parts[Len(parts)].to /\ parts[Len(parts)].to <= to
    BY <1>13
  <1> QED BY <1>11, <1>14, <1>15 DEF parts, BeginWith

-----------------------------------------------------------------------------
(* The segment of a request.                                               *)

Earliest(e, rec) == Max({rec.from, Start(e)})
Latest(e, rec) == Min({rec.to, Stop(e)})

\* The segment s of request r begins with recording rec.
Begins(rec, r, s) ==
    LET e == Requests[r] IN
    /\ r \in Requested /\ rec \in Recordings
    /\ InScope(e, rec) /\ IdentityMatches(e, rec)
    /\ s = Outcome(e, s.status, s.parts)
    /\ s.status \in {"resolved", "partial_coverage"} /\ s.parts # <<>>
    /\ s.parts[1].asset = rec.asset /\ s.parts[1].from = Earliest(e, rec)
    /\ LET last == s.parts[Len(s.parts)].to
       IN  last \in Int /\ Latest(e, rec) <= last /\ last <= Stop(e)

LEMMA Recorded ==
    ASSUME NEW rec \in Recordings, NEW r \in Requested
    PROVE  /\ rec.asset \in Int /\ rec.from \in Int /\ rec.to \in Int
           /\ Start(Requests[r]) \in Int /\ Stop(Requests[r]) \in Int
  BY RecordingsAssumption DEF RecordingsAssumption

LEMMA RegisteredAre == Candidates(Registered)
  <1> DEFINE T == {q \in Recordings : media[q] # "absent"}
             f == [q \in T |-> Candidate(q)]
  <1>1. IsFiniteSet(Registered)
    <2>1. IsFiniteSet(T)
      <3>1. IsFiniteSet(Recordings) /\ T \in SUBSET Recordings
        BY RecordingsAssumption DEF RecordingsAssumption
      <3> HIDE DEF T
      <3> QED BY <3>1, FS_Subset
    <2>2. f \in Surjection(T, Registered)
      BY DEF Surjection, Registered
    <2> HIDE DEF T, f
    <2> QED BY <2>1, <2>2, FS_Surjection
  <1>2. ASSUME NEW x \in Registered
        PROVE  \E q \in Recordings : x = Candidate(q)
    BY DEF Registered
  <1>3. \A q \in Recordings : /\ Candidate(q).asset = q.asset /\ Candidate(q).from = q.from
                              /\ Candidate(q).to = q.to /\ IsCandidate(Candidate(q))
    BY DEF Candidate, IsCandidate
  <1>4. \A x \in Registered : {x.asset, x.from, x.to} \subseteq Int /\ IsCandidate(x)
    BY <1>2, <1>3, RecordingsAssumption DEF RecordingsAssumption
  <1>5. \A x, y \in Registered : x.asset = y.asset => x = y
    <2> SUFFICES ASSUME NEW x \in Registered, NEW y \in Registered, x.asset = y.asset
                 PROVE  x = y
      OBVIOUS
    <2>1. PICK p \in Recordings : x = Candidate(p)
      BY <1>2
    <2>2. PICK q \in Recordings : y = Candidate(q)
      BY <1>2
    <2>3. p = q
      BY <1>3, <2>1, <2>2, RecordingsAssumption DEF RecordingsAssumption
    <2> QED BY <2>1, <2>2, <2>3
  <1> QED BY <1>1, <1>4, <1>5 DEF Candidates, Distinct

LEMMA FewerCandidates ==
    ASSUME NEW recs, Candidates(recs), NEW some \in SUBSET recs
    PROVE  Candidates(some)
  BY FS_Subset DEF Candidates, Distinct

\* A segment that a worker goes on with begins with a recording in the scope of
\* its request.
LEMMA ResolvedBegins ==
    ASSUME NEW r \in Requested, NEW recs \in SUBSET Registered,
           Resolve(Requests[r], recs).status \notin {"authorization_failure", "source_not_found"}
    PROVE  \E rec \in Recordings : Begins(rec, r, Resolve(Requests[r], recs))
  <1> DEFINE e == Requests[r]
             s == Resolve(e, recs)
             matching == {rec \in recs : IdentityMatches(e, rec) /\ rec.available}
             parts == Cover(matching, Start(e), Stop(e))
  <1>1. \A status, p : /\ Outcome(e, status, p).status = status
                       /\ Outcome(e, status, p).parts = p
    BY DEF Outcome
  <1>2. /\ Authorized(e, recs) /\ parts # <<>>
        /\ s = Outcome(e, s.status, parts) /\ s.status \in {"resolved", "partial_coverage"}
    <2> HIDE DEF e
    <2>1. /\ Authorized(e, recs) /\ ~(~HasIdentity(e) \/ parts = <<>>)
          /\ \/ s = Outcome(e, "resolved", parts)
             \/ s = Outcome(e, "source_not_found", <<>>)
             \/ s = Outcome(e, "partial_coverage", parts)
      <3>1. CASE ~Authorized(e, recs)
        <4>1. s = Outcome(e, "authorization_failure", <<>>)
          BY <3>1 DEF Resolve
        <4> QED BY <1>1, <4>1 DEF e
      <3>2. CASE Authorized(e, recs) /\ (~HasIdentity(e) \/ parts = <<>>)
        <4>1. s = Outcome(e, "source_not_found", <<>>)
          BY <3>2 DEF Resolve
        <4> QED BY <1>1, <4>1 DEF e
      <3>3. CASE Authorized(e, recs) /\ ~(~HasIdentity(e) \/ parts = <<>>)
        BY <3>3 DEF Resolve
      <3> QED BY <3>1, <3>2, <3>3
    <2> HIDE DEF s, parts
    <2> QED BY <1>1, <2>1 DEF e, s
  <1>3. Candidates(matching) /\ matching \in SUBSET recs
    <2>1. matching \in SUBSET Registered
      OBVIOUS
    <2> HIDE DEF matching
    <2> QED BY <2>1, RegisteredAre, FewerCandidates DEF matching
  <1>4. Start(e) \in Int /\ Stop(e) \in Int
    BY Recorded, RecordingsAssumption DEF RecordingsAssumption
  <1>5. PICK x \in matching : BeginWith(parts, x, Start(e), Stop(e))
    <2> HIDE DEF matching, e
    <2> QED BY <1>2, <1>3, <1>4, CoverIs
  <1>6. PICK rec \in Recordings : x = Candidate(rec)
    BY DEF Registered
  <1>7. /\ x.asset = rec.asset /\ x.from = rec.from /\ x.to = rec.to
        /\ x.tenant = rec.tenant /\ x.venue = rec.venue
        /\ x.camera = rec.camera /\ x.session = rec.session
    BY <1>6 DEF Candidate
  <1>8. InScope(e, rec) /\ IdentityMatches(e, rec)
    <2>1. InScope(e, x) /\ IdentityMatches(e, x)
      BY <1>2 DEF Authorized
    <2> HIDE DEF e
    <2> QED BY <1>7, <2>1 DEF InScope, IdentityMatches
  <1>9. s.parts = parts
    BY <1>1, <1>2
  <1>10. Begins(rec, r, s)
    <2> HIDE DEF s, parts, e, matching
    <2> QED BY <1>2, <1>5, <1>7, <1>8, <1>9 DEF Begins, BeginWith, Earliest, Latest, e
  <1> QED BY <1>10

-----------------------------------------------------------------------------
(* The artifact that is made of a segment.                                 *)

\* What is cut from recording rec for a request e.
BytesOf(e, rec) ==
    [asset |-> rec.asset, whole |-> TRUE, from |-> Earliest(e, rec), to |-> Latest(e, rec)]

\* The artifact x was made of segment s, for request r.
Made(r, s, x) ==
    \E rec \in Recordings :
        Begins(rec, r, s) /\ x = Extracted(s, Cut(rec, Wanted(s)))

LEMMA OutcomeIs ==
    ASSUME NEW e, NEW s, s = Outcome(e, s.status, s.parts)
    PROVE  /\ s.ref = e.ref /\ s.from = Start(e) /\ s.to = Stop(e)
           /\ s.tenant = e.tenant /\ s.venue = e.venue /\ s.event = e.event
           /\ s.session = e.session /\ s.config = e.config /\ s.rule = e.rule
           /\ s.version = e.version
  <1> DEFINE st == s.status  pa == s.parts
  <1>1. s = Outcome(e, st, pa)
    OBVIOUS
  <1> HIDE DEF st, pa
  <1> QED BY <1>1 DEF Outcome

LEMMA ScopeIs ==
    ASSUME NEW rec, NEW r, NEW s, Begins(rec, r, s)
    PROVE  s.ref = r /\ s.from = Start(Requests[r]) /\ s.to = Stop(Requests[r])
  <1> DEFINE e == Requests[r]
  <1>1. r \in Requested /\ s = Outcome(e, s.status, s.parts)
    BY DEF Begins
  <1>2. e.ref = r
    BY <1>1, ArtifactsAssumption DEF ArtifactsAssumption
  <1> HIDE DEF e
  <1>3. s.ref = e.ref /\ s.from = Start(e) /\ s.to = Stop(e)
    BY ONLY <1>1, OutcomeIs
  <1> QED BY ONLY <1>2, <1>3 DEF e

LEMMA CutIs ==
    ASSUME NEW rec, NEW r, NEW s, Begins(rec, r, s)
    PROVE  /\ Cut(rec, Wanted(s)) = BytesOf(Requests[r], rec)
           /\ Wanted(s).from \in Int /\ Wanted(s).to \in Int
           /\ Earliest(Requests[r], rec) \in Int /\ Latest(Requests[r], rec) \in Int
  <1> DEFINE e == Requests[r]
             w == Wanted(s)
             last == s.parts[Len(s.parts)].to
  <1>1. /\ rec.from \in Int /\ rec.to \in Int /\ Start(e) \in Int /\ Stop(e) \in Int
    BY Recorded DEF Begins
  <1>2. /\ s.parts[1].from = Earliest(e, rec) /\ last \in Int
        /\ Latest(e, rec) <= last /\ last <= Stop(e)
        /\ s.from = Start(e) /\ s.to = Stop(e)
    <2>1. s.from = Start(e) /\ s.to = Stop(e)
      BY ScopeIs
    <2> QED BY <2>1 DEF Begins
  <1>3. /\ w.from \in {Start(e), Earliest(e, rec)}
        /\ w.to \in {Stop(e), last}
    <2> HIDE DEF e, last
    <2> QED BY <1>2 DEF Wanted, last
  <1> HIDE DEF e, w, last
  <1>4. /\ Earliest(e, rec) = IF rec.from >= Start(e) THEN rec.from ELSE Start(e)
        /\ Latest(e, rec) = IF rec.to <= Stop(e) THEN rec.to ELSE Stop(e)
    BY <1>1, MaxMin DEF Earliest, Latest
  <1>5. w.from \in Int /\ w.to \in Int
    BY <1>1, <1>2, <1>3, <1>4
  <1>6. /\ Max({rec.from, w.from}) = IF rec.from >= w.from THEN rec.from ELSE w.from
        /\ Min({rec.to, w.to}) = IF rec.to <= w.to THEN rec.to ELSE w.to
    BY <1>1, <1>5, MaxMin
  <1>7. Max({rec.from, w.from}) = Earliest(e, rec)
    BY <1>1, <1>3, <1>4, <1>5, <1>6
  <1>8. Min({rec.to, w.to}) = Latest(e, rec)
    BY <1>1, <1>2, <1>3, <1>4, <1>5, <1>6
  <1>9. Cut(rec, w) = BytesOf(e, rec)
    BY <1>7, <1>8 DEF Cut, BytesOf
  <1>10. Earliest(e, rec) \in Int /\ Latest(e, rec) \in Int
    BY <1>1, <1>4
  <1> QED BY <1>5, <1>9, <1>10 DEF e, w

\* What an artifact is made of.
LEMMA MadeIs ==
    ASSUME NEW r, NEW s, NEW x, Made(r, s, x)
    PROVE  \E rec \in Recordings :
             /\ Begins(rec, r, s)
             /\ x.checksum = BytesOf(Requests[r], rec)
             /\ x.path = EvidenceKey(s, BytesOf(Requests[r], rec))
             /\ x.id = ExtractionId(s)
             /\ x.status = IF IsPartial(s, BytesOf(Requests[r], rec)) THEN "partial"
                           ELSE "success"
             /\ x.from = s.from /\ x.to = s.to
  <1>1. PICK rec \in Recordings : Begins(rec, r, s) /\ x = Extracted(s, Cut(rec, Wanted(s)))
    BY DEF Made
  <1>2. x = Extracted(s, BytesOf(Requests[r], rec))
    BY <1>1, CutIs
  <1> DEFINE b == BytesOf(Requests[r], rec)
  <1> HIDE DEF b
  <1>3. /\ x.checksum = b /\ x.path = EvidenceKey(s, b) /\ x.id = ExtractionId(s)
        /\ x.status = IF IsPartial(s, b) THEN "partial" ELSE "success"
        /\ x.from = s.from /\ x.to = s.to
    BY <1>2 DEF Extracted, Result, b
  <1> QED BY <1>1, <1>3 DEF b

LEMMA KeyIs ==
    ASSUME NEW s, NEW b
    PROVE  EvidenceKey(s, b).artifact = ExtractionId(s) /\ EvidenceKey(s, b).category = "evidence"
  <1> DEFINE i == ExtractionId(s)
  <1>1. EvidenceKey(s, b) = ObjectKey(s.tenant, s.venue, "evidence", i, Day(b.from))
    BY DEF EvidenceKey
  <1> HIDE DEF i
  <1>2. EvidenceKey(s, b).artifact = i /\ EvidenceKey(s, b).category = "evidence"
    BY <1>1 DEF ObjectKey
  <1> QED BY <1>2 DEF i

\* The key of an artifact tells the request and the recording, hence the bytes.
LEMMA KeysTellBytes ==
    ASSUME NEW r, NEW s, NEW x, Made(r, s, x),
           NEW q, NEW t, NEW y, Made(q, t, y), x.path = y.path
    PROVE  r = q /\ x.checksum = y.checksum
  <1>1. PICK rec \in Recordings :
          /\ Begins(rec, r, s) /\ x.checksum = BytesOf(Requests[r], rec)
          /\ x.path = EvidenceKey(s, BytesOf(Requests[r], rec))
    BY MadeIs
  <1>2. PICK other \in Recordings :
          /\ Begins(other, q, t) /\ y.checksum = BytesOf(Requests[q], other)
          /\ y.path = EvidenceKey(t, BytesOf(Requests[q], other))
    BY MadeIs
  <1>3. x.path.artifact = ExtractionId(s) /\ y.path.artifact = ExtractionId(t)
    BY <1>1, <1>2, KeyIs
  <1>4. /\ ExtractionId(s) = <<"extraction", s.ref, s.parts[1].asset, s.from, s.to>>
        /\ ExtractionId(t) = <<"extraction", t.ref, t.parts[1].asset, t.from, t.to>>
    BY <1>1, <1>2 DEF ExtractionId, Begins
  <1>5. s.ref = t.ref /\ s.parts[1].asset = t.parts[1].asset
    BY <1>3, <1>4
  <1>6. s.ref = r /\ t.ref = q
    BY <1>1, <1>2, ScopeIs
  <1>7. rec = other
    <2>1. rec.asset = s.parts[1].asset /\ other.asset = t.parts[1].asset
      BY <1>1, <1>2 DEF Begins
    <2>2. rec.asset = other.asset
      BY ONLY <1>5, <2>1
    <2> QED BY <2>2, RecordingsAssumption DEF RecordingsAssumption
  <1> QED BY <1>1, <1>2, <1>5, <1>6, <1>7

LEMMA EvidenceIsNoRefUri ==
    ASSUME NEW r, NEW s, NEW x, Made(r, s, x), NEW q
    PROVE  x.path # RefUri(q)
  <1>1. x.path.category = "evidence"
    <2>1. \E b : x.path = EvidenceKey(s, b)
      BY MadeIs
    <2> QED BY <2>1, KeyIs
  <1>2. RefUri(q).category = "rule"
    BY DEF RefUri, ObjectKey
  <1> QED BY <1>1, <1>2

-----------------------------------------------------------------------------
(* The invariant: what rows, workers and uploads are about was made of a   *)
(* segment of their request, and the bytes of what counts are there.       *)

\* The package p of request r was made of an artifact and contradicts nothing.
Packed(r, p) ==
    \E s, x : /\ Made(r, s, x) /\ ~Refused(Requests[r], s, x)
              /\ p = Package(Requests[r], s, x)

\* What a worker has in hand.
Mem(pc, ref, segment, artifact) ==
    [pc |-> pc, ref |-> ref, segment |-> segment, artifact |-> artifact]

InWork(m) ==
    /\ m = Mem(m.pc, m.ref, m.segment, m.artifact)
    /\ m.pc # "idle" => m.ref \in Requested
    /\ m.pc \in {"extract", "put", "checkpoint", "finalize"} =>
         \E rec \in Recordings : Begins(rec, m.ref, m.segment)
    /\ m.pc \in {"put", "checkpoint", "finalize"} => Made(m.ref, m.segment, m.artifact)

RowMade(r, x) ==
    /\ x.state = "uploading" => Made(r, x.recovery.segment, x.recovery.artifact)
    /\ x.state = "finalized" => Packed(r, x.package)

WasMade(u) == \E r, s, x : Made(r, s, x) /\ u = <<x.path, x.checksum>>

Contents ==
    /\ work = [w \in Workers |-> work[w]] /\ \A w \in Workers : InWork(work[w])
    /\ \A r \in Requested : RowMade(r, rows[r])
    /\ \A u \in uploads : WasMade(u)

\* A worker about to finalize its row has in hand what the row recovers from.
Custody ==
    \A w \in Workers :
        LET m == work[w] IN
        m.pc = "finalize" /\ Owned(w, m.ref, "uploading") =>
            rows[m.ref].recovery = [segment |-> m.segment, artifact |-> m.artifact]

\* The bytes of an artifact are there, or may have been taken away.
Safe(x) ==
    \/ Has(bucket, x.path) /\ bucket[x.path] = x.checksum
    \/ x.path \in spoiled

\* The artifacts that a package has, or will have if nothing goes wrong.
Uploaded(x) == \E w \in Workers : /\ work[w].pc = "checkpoint" /\ x = work[w].artifact
                                  /\ Owned(w, work[w].ref, "extracting")
Recoverable(x) == \E r \in Requested : rows[r].state = "uploading" /\ x = rows[r].recovery.artifact
Packaged(x) == \E r \in Requested : rows[r].state = "finalized" /\ x = rows[r].package.extraction

Counts(x) == Uploaded(x) \/ Recoverable(x) \/ Packaged(x)

Kept == \A x : Counts(x) => Safe(x)

ArtifactInv == RetentionInv /\ Contents /\ Custody /\ Kept

-----------------------------------------------------------------------------
LEMMA CountsIsMade ==
    ASSUME Contents, NEW x, Counts(x)
    PROVE  \E r \in Requested : (\E s : Made(r, s, x)) /\
             \/ \E w \in Workers : /\ work[w].pc = "checkpoint" /\ work[w].ref = r
                                   /\ Owned(w, r, "extracting")
             \/ rows[r].state \in {"uploading", "finalized"}
  <1>1. CASE Uploaded(x)
    <2>1. PICK w \in Workers : /\ work[w].pc = "checkpoint" /\ x = work[w].artifact
                               /\ Owned(w, work[w].ref, "extracting")
      BY <1>1 DEF Uploaded
    <2>2. work[w].ref \in Requested /\ Made(work[w].ref, work[w].segment, x)
      BY <2>1 DEF Contents, InWork
    <2> QED BY <2>1, <2>2
  <1>2. CASE Recoverable(x)
    <2>1. PICK r \in Requested : rows[r].state = "uploading" /\ x = rows[r].recovery.artifact
      BY <1>2 DEF Recoverable
    <2>2. Made(r, rows[r].recovery.segment, x)
      BY <2>1 DEF Contents, RowMade
    <2> QED BY <2>1, <2>2
  <1>3. CASE Packaged(x)
    <2>1. PICK r \in Requested : rows[r].state = "finalized" /\ x = rows[r].package.extraction
      BY <1>3 DEF Packaged
    <2>2. PICK s, y : Made(r, s, y) /\ rows[r].package = Package(Requests[r], s, y)
      BY <2>1 DEF Contents, RowMade, Packed
    <2>3. x = y
      BY <2>1, <2>2 DEF Package
    <2> QED BY <2>1, <2>2, <2>3
  <1> QED BY <1>1, <1>2, <1>3 DEF Counts

LEMMA SafeStays ==
    ASSUME UNCHANGED <<bucket, spoiled>>, Kept
    PROVE  \A x : Counts(x) => Safe(x)'
  BY DEF Safe, Kept

\* A step that leaves alone what the invariant says of rows and workers.
LEMMA StillKept ==
    ASSUME Contents, Custody, UNCHANGED <<work, uploads>>,
           \A r \in Requested : /\ rows'[r].state = rows[r].state
                                /\ rows'[r].owner = rows[r].owner
                                /\ rows'[r].recovery = rows[r].recovery
                                /\ rows'[r].package = rows[r].package,
           \A x : Counts(x) => Safe(x)'
    PROVE  Contents' /\ Custody' /\ Kept'
  <1>1. Contents'
    BY DEF Contents, RowMade
  <1>2. Custody'
    <2> SUFFICES ASSUME NEW w \in Workers, (work[w].pc = "finalize")',
                        Owned(w, work[w].ref, "uploading")'
                 PROVE  (rows[work[w].ref].recovery
                          = [segment |-> work[w].segment, artifact |-> work[w].artifact])'
      BY DEF Custody
    <2>1. work'[w] = work[w] /\ work[w].ref \in Requested
      BY DEF Contents, InWork
    <2> QED BY <2>1 DEF Custody, Owned
  <1>3. ASSUME NEW x, Counts(x)' PROVE Counts(x)
    <2>1. \A w \in Workers : work[w].pc # "idle" => work[w].ref \in Requested
      BY DEF Contents, InWork
    <2>2. Uploaded(x)' => Uploaded(x)
      BY <2>1 DEF Uploaded, Owned
    <2>3. Recoverable(x)' => Recoverable(x)
      BY DEF Recoverable
    <2>4. Packaged(x)' => Packaged(x)
      BY DEF Packaged
    <2> QED BY <1>3, <2>2, <2>3, <2>4 DEF Counts
  <1>4. Kept'
    BY <1>3 DEF Kept
  <1> QED BY <1>1, <1>2, <1>4

\* A step of worker w on row r.
LEMMA StepKeeps ==
    ASSUME Rows, Contents, Custody, NEW w \in Workers, NEW r \in Requested, NEW new, NEW mem,
           rows' = [rows EXCEPT ![r] = new], work' = [work EXCEPT ![w] = mem],
           InWork(mem), \A u \in uploads' : u \in uploads \/ WasMade(u),
           \A x : Counts(x) => Safe(x)',
           new = rows[r] \/
             /\ new.owner = w /\ RowMade(r, new)
             /\ new.state = "uploading" => Safe(new.recovery.artifact)'
             /\ new.state = "finalized" => Safe(new.package.extraction)',
           mem.pc = "checkpoint" => Safe(mem.artifact)',
           mem.pc = "finalize" => /\ mem.ref = r
                                  /\ new.recovery = [segment |-> mem.segment,
                                                     artifact |-> mem.artifact]
    PROVE  Contents' /\ Custody' /\ Kept'
  <1>1. /\ \A q \in Requested : rows'[q] = IF q = r THEN new ELSE rows[q]
        /\ \A v \in Workers : work'[v] = IF v = w THEN mem ELSE work[v]
        /\ work' = [v \in Workers |-> work'[v]]
    BY DEF Rows, Contents
  <1>2. Contents'
    <2>1. \A v \in Workers : InWork(work'[v])
      BY <1>1 DEF Contents
    <2>2. \A q \in Requested : RowMade(q, rows'[q])
      BY <1>1 DEF Contents
    <2>3. \A u \in uploads' : WasMade(u)
      BY DEF Contents
    <2> QED BY <1>1, <2>1, <2>2, <2>3 DEF Contents
  <1>3. ASSUME NEW v \in Workers, v # w, work'[v].ref \in Requested,
               NEW state, Owned(v, work[v].ref, state)'
        PROVE  /\ work'[v] = work[v] /\ rows'[work[v].ref] = rows[work[v].ref]
               /\ Owned(v, work[v].ref, state)
    <2>1. work'[v] = work[v] /\ rows'[work[v].ref].owner = v
      BY <1>1, <1>3 DEF Owned
    <2>2. rows'[work[v].ref] = rows[work[v].ref]
      BY <1>1, <1>3, <2>1
    <2> QED BY <1>3, <2>1, <2>2 DEF Owned
  <1>4. Custody'
    <2> SUFFICES ASSUME NEW v \in Workers, (work[v].pc = "finalize")',
                        Owned(v, work[v].ref, "uploading")'
                 PROVE  (rows[work[v].ref].recovery
                          = [segment |-> work[v].segment, artifact |-> work[v].artifact])'
      BY DEF Custody
    <2>1. CASE v = w
      BY <1>1, <2>1
    <2>2. CASE v # w
      <3>1. work'[v].ref \in Requested
        BY <1>2 DEF Contents, InWork
      <3>2. /\ work'[v] = work[v] /\ rows'[work[v].ref] = rows[work[v].ref]
            /\ Owned(v, work[v].ref, "uploading")
        BY <1>3, <2>2, <3>1
      <3> QED BY <3>2 DEF Custody
    <2> QED BY <2>1, <2>2
  <1>5. ASSUME NEW x, Uploaded(x)' PROVE Safe(x)'
    <2>1. PICK v \in Workers : /\ work'[v].pc = "checkpoint" /\ x = work'[v].artifact
                               /\ Owned(v, work[v].ref, "extracting")'
      BY <1>5 DEF Uploaded
    <2>2. CASE v = w
      BY <1>1, <2>1, <2>2
    <2>3. CASE v # w
      <3>1. work'[v].ref \in Requested
        BY <1>2, <2>1 DEF Contents, InWork
      <3>2. work'[v] = work[v] /\ Owned(v, work[v].ref, "extracting")
        BY <1>3, <2>1, <2>3, <3>1
      <3>3. Uploaded(x)
        BY <2>1, <3>2 DEF Uploaded
      <3> QED BY <3>3 DEF Counts
    <2> QED BY <2>2, <2>3
  <1>6. ASSUME NEW x, Recoverable(x)' PROVE Safe(x)'
    <2>1. PICK q \in Requested : rows'[q].state = "uploading" /\ x = rows'[q].recovery.artifact
      BY <1>6 DEF Recoverable
    <2>2. CASE rows'[q] = rows[q]
      BY <2>1, <2>2 DEF Recoverable, Counts
    <2>3. CASE rows'[q] # rows[q]
      BY <1>1, <2>1, <2>3
    <2> QED BY <2>2, <2>3
  <1>7. ASSUME NEW x, Packaged(x)' PROVE Safe(x)'
    <2>1. PICK q \in Requested : rows'[q].state = "finalized" /\ x = rows'[q].package.extraction
      BY <1>7 DEF Packaged
    <2>2. CASE rows'[q] = rows[q]
      BY <2>1, <2>2 DEF Packaged, Counts
    <2>3. CASE rows'[q] # rows[q]
      BY <1>1, <2>1, <2>3
    <2> QED BY <2>2, <2>3
  <1>8. Kept'
    BY <1>5, <1>6, <1>7 DEF Kept, Counts
  <1> QED BY <1>2, <1>4, <1>8

-----------------------------------------------------------------------------
(* Rows and workers after a step.                                          *)

\* The parts of a memory are what it was made of.
LEMMA MemIs ==
    ASSUME NEW pc, NEW ref, NEW segment, NEW artifact
    PROVE  LET m == Mem(pc, ref, segment, artifact)
           IN  /\ m.pc = pc /\ m.ref = ref /\ m.segment = segment /\ m.artifact = artifact
               /\ m = Mem(m.pc, m.ref, m.segment, m.artifact)
  BY DEF Mem

LEMMA MemWith ==
    ASSUME NEW m, m = Mem(m.pc, m.ref, m.segment, m.artifact), NEW v
    PROVE  /\ [m EXCEPT !.pc = v] = Mem(v, m.ref, m.segment, m.artifact)
           /\ [m EXCEPT !.ref = v] = Mem(m.pc, v, m.segment, m.artifact)
           /\ [m EXCEPT !.segment = v] = Mem(m.pc, m.ref, v, m.artifact)
           /\ [m EXCEPT !.artifact = v] = Mem(m.pc, m.ref, m.segment, v)
  <1> DEFINE p == m.pc  r == m.ref  s == m.segment  a == m.artifact
  <1>1. m = Mem(p, r, s, a)
    OBVIOUS
  <1> HIDE DEF p, r, s, a
  <1>2. /\ [m EXCEPT !.pc = v] = Mem(v, r, s, a)
        /\ [m EXCEPT !.ref = v] = Mem(p, v, s, a)
        /\ [m EXCEPT !.segment = v] = Mem(p, r, v, a)
        /\ [m EXCEPT !.artifact = v] = Mem(p, r, s, v)
    BY <1>1 DEF Mem
  <1> QED BY <1>2 DEF p, r, s, a

LEMMA IdleInWork == InWork(Idle) /\ Idle.pc = "idle"
  BY DEF InWork, Idle, Mem

\* A worker that gives up leaves its row as it is, or to somebody else.
GivesUp(w, r) ==
    \E new : /\ rows' = [rows EXCEPT ![r] = new]
             /\ new = rows[r] \/
                  /\ new.owner = w /\ new.state \in {"queued", "terminal_failure"}

LEMMA RowStays ==
    ASSUME Rows, NEW r \in Requested, rows' = rows
    PROVE  rows' = [rows EXCEPT ![r] = rows[r]]
  BY DEF Rows

LEMMA MemStays ==
    ASSUME Contents, NEW w \in Workers, work' = work
    PROVE  work' = [work EXCEPT ![w] = work[w]]
  BY DEF Contents

LEMMA WriteGivesUp ==
    ASSUME Rows, NEW r \in Requested, NEW w, NEW state, NEW to \in {"queued", "terminal_failure"},
           Write(w, r, state, [rows[r] EXCEPT !.state = to])
    PROVE  GivesUp(w, r)
  <1>1. CASE Owned(w, r, state)
    <2>1. PICK new : new = [rows[r] EXCEPT !.state = to]
      OBVIOUS
    <2>2. rows' = [rows EXCEPT ![r] = new]
      BY <1>1, <2>1 DEF Write
    <2>3. new.owner = w /\ new.state = to
      <3> DEFINE x == rows[r]
      <3>1. IsRow(x) /\ x.owner = w
        BY <1>1 DEF Rows, Owned
      <3> HIDE DEF x
      <3>2. [x EXCEPT !.state = to] = WithWork(x, to, x.owner, x.attempts, x.recovery, x.package)
        BY <3>1, RowWithOne
      <3>3. new = WithWork(x, to, x.owner, x.attempts, x.recovery, x.package)
        BY <2>1, <3>2 DEF x
      <3> QED BY <3>1, <3>3 DEF WithWork
    <2> QED BY <2>2, <2>3 DEF GivesUp
  <1>2. CASE ~Owned(w, r, state)
    <2>1. rows' = rows
      BY <1>2 DEF Write
    <2> QED BY <2>1, RowStays DEF GivesUp
  <1> QED BY <1>1, <1>2

LEMMA BuryGivesUp ==
    ASSUME Rows, NEW r \in Requested, NEW w, NEW state, Bury(w, r, state)
    PROVE  GivesUp(w, r)
  BY WriteGivesUp DEF Bury

LEMMA RetryGivesUp ==
    ASSUME Rows, NEW r \in Requested, NEW w, Retry(w, r)
    PROVE  GivesUp(w, r)
  BY BuryGivesUp, WriteGivesUp DEF Retry

LEMMA GivenUp ==
    ASSUME Rows, Contents, Custody, NEW w \in Workers, NEW r \in Requested,
           GivesUp(w, r), Drop(w), \A u \in uploads' : u \in uploads \/ WasMade(u),
           \A x : Counts(x) => Safe(x)'
    PROVE  Contents' /\ Custody' /\ Kept'
  <1>1. PICK new : /\ rows' = [rows EXCEPT ![r] = new]
                   /\ new = rows[r] \/
                        /\ new.owner = w /\ new.state \in {"queued", "terminal_failure"}
    BY DEF GivesUp
  <1>2. work' = [work EXCEPT ![w] = Idle]
    BY DEF Drop
  <1>3. new = rows[r] \/
             /\ new.owner = w /\ RowMade(r, new)
             /\ new.state = "uploading" => Safe(new.recovery.artifact)'
             /\ new.state = "finalized" => Safe(new.package.extraction)'
    BY <1>1 DEF RowMade
  <1> QED BY <1>1, <1>2, <1>3, IdleInWork, StepKeeps

LEMMA FinalizedIs ==
    ASSUME NEW r \in Requested, IsRow(rows[r]), NEW w, NEW s, NEW x, Made(r, s, x)
    PROVE  LET new == Finalized(w, r, s, x)
           IN  /\ new.owner = w /\ RowMade(r, new)
               /\ new.state \in {"terminal_failure", "finalized"}
               /\ new.state = "finalized" => new.package.extraction = x
  <1> DEFINE o == rows[r]
             new == Finalized(w, r, s, x)
  <1>1. CASE Refused(Requests[r], s, x)
    <2>1. new = [o EXCEPT !.owner = w, !.state = "terminal_failure"]
      BY <1>1 DEF Finalized
    <2> HIDE DEF o, new
    <2>2. new = WithWork(o, "terminal_failure", w, o.attempts, o.recovery, o.package)
      BY <2>1, OwnedWithWork DEF o
    <2>3. new.owner = w /\ new.state = "terminal_failure"
      BY <2>2 DEF WithWork
    <2> QED BY <2>3 DEF new, RowMade
  <1>2. CASE ~Refused(Requests[r], s, x)
    <2> DEFINE p == Package(Requests[r], s, x)
               z == [o EXCEPT !.owner = w, !.state = "finalized"]
    <2>1. new = [z EXCEPT !.package = p]
      BY <1>2 DEF Finalized
    <2> HIDE DEF o, new, p
    <2>2. z = WithWork(o, "finalized", w, o.attempts, o.recovery, o.package)
      BY OwnedWithWork DEF o
    <2> HIDE DEF z
    <2>3. IsRow(z)
      BY <2>2, WithWorkIsRow
    <2>4. new = WithWork(z, z.state, z.owner, z.attempts, z.recovery, p)
      BY <2>1, <2>3, RowWithOne
    <2>5. z.owner = w /\ z.state = "finalized"
      BY <2>2 DEF WithWork
    <2>6. new.owner = w /\ new.state = "finalized" /\ new.package = p
      BY <2>4, <2>5 DEF WithWork
    <2>7. p.extraction = x /\ Packed(r, p)
      BY <1>2 DEF p, Package, Packed
    <2> QED BY <2>6, <2>7 DEF new, RowMade
  <1> QED BY <1>1, <1>2

-----------------------------------------------------------------------------
(* The steps of a worker.                                                  *)

LEMMA Claims ==
    ASSUME Rows, Contents, Custody, Kept, NEW w \in Workers, NEW r \in Requested, Claim(w, r)
    PROVE  Contents' /\ Custody' /\ Kept'
  <1> DEFINE x == rows[r]
  <1>1. PICK new : new = [x EXCEPT !.state = "extracting", !.owner = w, !.attempts = @ + 1]
    OBVIOUS
  <1>2. PICK mem : mem = [Idle EXCEPT !.pc = "resolve", !.ref = r]
    OBVIOUS
  <1>3. rows' = [rows EXCEPT ![r] = new]
    BY <1>1 DEF Claim, Rows
  <1>4. work' = [work EXCEPT ![w] = mem]
    BY <1>2 DEF Claim, Contents
  <1>5. new.state = "extracting" /\ new.owner = w
    <2> DEFINE n == x.attempts + 1
    <2>1. IsRow(x)
      BY DEF Rows
    <2> HIDE DEF x
    <2>2. new = [x EXCEPT !.state = "extracting", !.owner = w, !.attempts = n]
      BY <1>1
    <2> HIDE DEF n
    <2>3. new = WithWork(x, "extracting", w, n, x.recovery, x.package)
      BY <2>1, <2>2, ClaimWithWork
    <2> QED BY <2>3 DEF WithWork
  <1>6. mem = Mem("resolve", r, Nil, Nil)
    BY <1>2 DEF Idle, Mem
  <1>7. InWork(mem) /\ mem.pc = "resolve"
    BY <1>6, MemIs DEF InWork
  <1>8. \A y : Counts(y) => Safe(y)'
    BY SafeStays DEF Claim
  <1>9. uploads' = uploads
    BY DEF Claim
  <1>10. RowMade(r, new) /\ new.state \notin {"uploading", "finalized"}
    BY <1>5 DEF RowMade
  <1> QED BY <1>3, <1>4, <1>5, <1>7, <1>8, <1>9, <1>10, StepKeeps

LEMMA TakesOver ==
    ASSUME Rows, Contents, Custody, Kept, NEW w \in Workers, NEW r \in Requested,
           TakeOver(w, r)
    PROVE  Contents' /\ Custody' /\ Kept'
  <1> DEFINE x == rows[r]
             s == x.recovery.segment
             a == x.recovery.artifact
  <1>1. PICK new : new = IF x.state = "extracting"
                         THEN [x EXCEPT !.state = "queued", !.owner = w]
                         ELSE Finalized(w, r, s, a)
    OBVIOUS
  <1>2. rows' = [rows EXCEPT ![r] = new]
    BY <1>1 DEF TakeOver, Rows
  <1>3. work' = [work EXCEPT ![w] = work[w]] /\ uploads' = uploads
    BY MemStays DEF TakeOver
  <1>4. InWork(work[w]) /\ work[w].pc = "idle"
    BY DEF Contents, TakeOver, Idle
  <1>5. \A y : Counts(y) => Safe(y)'
    BY SafeStays DEF TakeOver
  <1>6. IsRow(x)
    BY DEF Rows
  <1>7. /\ new.owner = w /\ RowMade(r, new)
        /\ new.state # "uploading"
        /\ new.state = "finalized" => Safe(new.package.extraction)'
    <2>1. CASE x.state = "extracting"
      <3>1. new = [x EXCEPT !.state = "queued", !.owner = w]
        BY <1>1, <2>1, SMTT(30)
      <3> HIDE DEF x
      <3>2. new = WithWork(x, "queued", w, x.attempts, x.recovery, x.package)
        BY <1>6, <3>1, RowWithTwo
      <3>3. new.owner = w /\ new.state = "queued"
        BY <3>2 DEF WithWork
      <3> QED BY <3>3 DEF RowMade
    <2>2. CASE x.state # "extracting"
      <3>1. x.state = "uploading" /\ new = Finalized(w, r, s, a)
        BY <1>1, <2>2 DEF TakeOver
      <3>2. Made(r, s, a)
        BY <3>1 DEF Contents, RowMade
      <3>3. Counts(a)
        BY <3>1 DEF Counts, Recoverable
      <3> HIDE DEF s, a
      <3>4. /\ new.owner = w /\ RowMade(r, new)
            /\ new.state \in {"terminal_failure", "finalized"}
            /\ new.state = "finalized" => new.package.extraction = a
        BY <1>6, <3>1, <3>2, FinalizedIs
      <3>5. ASSUME new.state = "finalized" PROVE Safe(new.package.extraction)'
        <4>1. PICK y : y = a
          OBVIOUS
        <4>2. Safe(y)' /\ new.package.extraction = y
          BY <1>5, <3>3, <3>4, <3>5, <4>1
        <4> QED BY <4>2
      <3> QED BY <3>4, <3>5
    <2> QED BY <2>1, <2>2
  <1> QED BY <1>2, <1>3, <1>4, <1>5, <1>7, StepKeeps

\* A worker that goes on in its cycle, with its row as it was.
LEMMA GoesOn ==
    ASSUME Rows, Contents, Custody, NEW w \in Workers, NEW mem,
           work[w].ref \in Requested, rows' = rows, work' = [work EXCEPT ![w] = mem],
           InWork(mem), mem.pc # "finalize", mem.pc = "checkpoint" => Safe(mem.artifact)',
           \A u \in uploads' : u \in uploads \/ WasMade(u),
           \A x : Counts(x) => Safe(x)'
    PROVE  Contents' /\ Custody' /\ Kept'
  <1>1. PICK r \in Requested : r = work[w].ref
    OBVIOUS
  <1>2. PICK new : new = rows[r]
    OBVIOUS
  <1>3. rows' = [rows EXCEPT ![r] = new]
    BY <1>2, RowStays
  <1> QED BY <1>2, <1>3, StepKeeps

LEMMA Resolves ==
    ASSUME Rows, Contents, Custody, Kept, NEW w \in Workers, ResolveSource(w)
    PROVE  Contents' /\ Custody' /\ Kept'
  <1> DEFINE m == work[w]
  <1>1. PICK r \in Requested : r = m.ref
    BY DEF Contents, InWork, ResolveSource
  <1>2. InWork(m) /\ m.pc = "resolve"
    BY DEF Contents, ResolveSource
  <1>3. (\A y : Counts(y) => Safe(y)') /\ uploads' = uploads
    BY SafeStays DEF ResolveSource
  <1>4. PICK recs \in {Registered, {rec \in Registered : InScope(Requests[r], rec)}} :
          LET s == Resolve(Requests[r], recs)
          IN  IF s.status \in {"authorization_failure", "source_not_found"}
              THEN Bury(w, r, "extracting") /\ Drop(w)
              ELSE /\ work' = [work EXCEPT ![w].pc = "extract", ![w].segment = s]
                   /\ UNCHANGED rows
    BY <1>1 DEF ResolveSource
  <1>5. PICK s : s = Resolve(Requests[r], recs)
    OBVIOUS
  <1>6. CASE s.status \in {"authorization_failure", "source_not_found"}
    <2>1. Bury(w, r, "extracting") /\ Drop(w)
      BY <1>4, <1>5, <1>6
    <2> QED BY <1>3, <2>1, BuryGivesUp, GivenUp
  <1>7. CASE s.status \notin {"authorization_failure", "source_not_found"}
    <2>1. work' = [work EXCEPT ![w].pc = "extract", ![w].segment = s] /\ rows' = rows
      BY <1>4, <1>5, <1>7
    <2>2. PICK rec \in Recordings : Begins(rec, r, s)
      <3>1. recs \in SUBSET Registered
        OBVIOUS
      <3> QED BY <1>5, <1>7, <3>1, ResolvedBegins
    <2> DEFINE n == [m EXCEPT !.pc = "extract"]
    <2>3. PICK mem : mem = [n EXCEPT !.segment = s]
      OBVIOUS
    <2>4. work' = [work EXCEPT ![w] = mem]
      BY <2>1, <2>3 DEF Contents
    <2>5. mem = Mem("extract", r, s, m.artifact)
      <3>1. n = Mem("extract", r, m.segment, m.artifact)
        BY <1>1, <1>2, MemWith DEF InWork
      <3> HIDE DEF n, m
      <3>2. n.pc = "extract" /\ n.ref = r /\ n.segment = m.segment /\ n.artifact = m.artifact
        BY <3>1, MemIs
      <3>3. n = Mem(n.pc, n.ref, n.segment, n.artifact)
        BY <3>1, <3>2
      <3>4. mem = Mem(n.pc, n.ref, s, n.artifact)
        BY <2>3, <3>3, MemWith
      <3> QED BY <3>2, <3>4
    <2>6. InWork(mem) /\ mem.pc = "extract"
      <3> HIDE DEF m
      <3> QED BY <2>2, <2>5, MemIs DEF InWork
    <2> QED BY <1>1, <1>3, <2>1, <2>4, <2>6, GoesOn
  <1> QED BY <1>6, <1>7

LEMMA Extracts ==
    ASSUME Rows, Contents, Custody, Kept, NEW w \in Workers, ExtractArtifact(w)
    PROVE  Contents' /\ Custody' /\ Kept'
  <1> DEFINE m == work[w]
             rec == CHOOSE q \in Recordings : q.asset = m.segment.parts[1].asset
  <1>1. PICK r \in Requested : r = m.ref
    BY DEF Contents, InWork, ExtractArtifact
  <1>2. InWork(m) /\ m.pc = "extract"
    BY DEF Contents, ExtractArtifact
  <1>3. (\A y : Counts(y) => Safe(y)') /\ uploads' = uploads
    BY SafeStays DEF ExtractArtifact
  <1>4. PICK x : x = Extracted(m.segment, Cut(rec, Wanted(m.segment)))
    OBVIOUS
  <1>5. \/ (Bury(w, r, "extracting") \/ Retry(w, r)) /\ Drop(w)
        \/ /\ work' = [work EXCEPT ![w].pc = "put", ![w].artifact = x]
           /\ rows' = rows
    <2> HIDE DEF rec
    <2> QED BY <1>1, <1>4 DEF ExtractArtifact, rec
  <1>6. CASE (Bury(w, r, "extracting") \/ Retry(w, r)) /\ Drop(w)
    BY <1>3, <1>6, BuryGivesUp, RetryGivesUp, GivenUp
  <1>7. CASE work' = [work EXCEPT ![w].pc = "put", ![w].artifact = x] /\ rows' = rows
    <2>1. PICK v \in Recordings : Begins(v, r, m.segment)
      BY <1>1, <1>2 DEF InWork
    <2>2. rec = v
      <3>1. v.asset = m.segment.parts[1].asset
        BY <2>1 DEF Begins
      <3>2. \A q \in Recordings : q.asset = m.segment.parts[1].asset => q = v
        BY <3>1, RecordingsAssumption DEF RecordingsAssumption
      <3> HIDE DEF m
      <3> QED BY <3>1, <3>2
    <2> HIDE DEF rec
    <2>3. Made(r, m.segment, x)
      BY <1>4, <2>1, <2>2 DEF Made
    <2> DEFINE n == [m EXCEPT !.pc = "put"]
    <2>4. PICK mem : mem = [n EXCEPT !.artifact = x]
      OBVIOUS
    <2>5. work' = [work EXCEPT ![w] = mem]
      BY <1>7, <2>4 DEF Contents
    <2>6. mem = Mem("put", r, m.segment, x)
      <3>1. n = Mem("put", r, m.segment, m.artifact)
        BY <1>1, <1>2, MemWith DEF InWork
      <3> HIDE DEF n, m
      <3>2. n.pc = "put" /\ n.ref = r /\ n.segment = m.segment /\ n.artifact = m.artifact
        BY <3>1, MemIs
      <3>3. n = Mem(n.pc, n.ref, n.segment, n.artifact)
        BY <3>1, <3>2
      <3>4. mem = Mem(n.pc, n.ref, n.segment, x)
        BY <2>4, <3>3, MemWith
      <3> QED BY <3>2, <3>4
    <2>7. InWork(mem) /\ mem.pc = "put"
      <3> HIDE DEF m
      <3> QED BY <2>1, <2>3, <2>6, MemIs DEF InWork
    <2> QED BY <1>1, <1>3, <1>7, <2>5, <2>7, GoesOn
  <1> QED BY <1>5, <1>6, <1>7

\* An upload changes the object under its key, and no other.
LEMMA PutTouches ==
    ASSUME NEW key, NEW bytes, NEW answer \in PutReplies(bucket, key, bytes)
    PROVE  /\ \A k : k # key => /\ Has(answer.bucket, k) <=> Has(bucket, k)
                                /\ Has(bucket, k) => answer.bucket[k] = bucket[k]
           /\ answer.reply = "stored" => /\ Has(answer.bucket, key)
                                         /\ answer.bucket[key] = bytes
  <1>1. /\ answer.bucket \in {bucket, Stored(bucket, key, bytes),
                              Stored(bucket, key, Short(bytes)), Deleted(bucket, key)}
        /\ answer.reply = "stored" => answer.bucket = Stored(bucket, key, bytes)
    <2>1. CASE answer \in PutFails(bucket, key, bytes)
      <3>1. "stored" \notin StorageErrors
        BY DEF StorageErrors, NormalizeError, Failures
      <3> QED BY <2>1, <3>1 DEF PutFails
    <2>2. CASE answer \in {[bucket |-> Stored(bucket, key, bytes), reply |-> "stored"],
                           [bucket |-> Deleted(bucket, key), reply |-> "integrity"]}
      BY <2>2
    <2> QED BY <2>1, <2>2 DEF PutReplies
  <1>2. ASSUME NEW b
        PROVE  LET new == Stored(bucket, key, b)
               IN  /\ \A k : k # key => /\ Has(new, k) <=> Has(bucket, k)
                                        /\ Has(bucket, k) => new[k] = bucket[k]
                   /\ Has(new, key) /\ new[key] = b
    BY DEF Stored, Has
  <1>3. LET new == Deleted(bucket, key)
        IN  \A k : k # key => /\ Has(new, k) <=> Has(bucket, k)
                              /\ Has(bucket, k) => new[k] = bucket[k]
    BY DEF Deleted, Has
  <1> QED BY <1>1, <1>2, <1>3

LEMMA Puts ==
    ASSUME Rows, Contents, Custody, Kept, NEW w \in Workers, Put(w)
    PROVE  Contents' /\ Custody' /\ Kept'
  <1> DEFINE m == work[w]
  <1>1. PICK r \in Requested : r = m.ref
    BY DEF Contents, InWork, Put
  <1>2. InWork(m) /\ m.pc = "put"
    BY DEF Contents, Put
  <1>3. PICK x : x = m.artifact
    OBVIOUS
  <1>4. Made(r, m.segment, x)
    BY <1>1, <1>2, <1>3 DEF InWork
  <1>5. PICK answer \in PutReplies(bucket, x.path, x.checksum) :
          /\ bucket' = answer.bucket
          /\ IF answer.reply = "stored"
             THEN /\ work' = [work EXCEPT ![w].pc = "checkpoint"]
                  /\ UNCHANGED <<rows, spoiled, setbacks>>
             ELSE /\ Setback /\ Retry(w, r) /\ Drop(w)
                  /\ spoiled' = IF Owned(w, r, "extracting") THEN spoiled
                                ELSE spoiled \cup {x.path}
    BY <1>1, <1>3 DEF Put
  <1>6. \A u \in uploads' : u \in uploads \/ WasMade(u)
    <2>1. uploads' = uploads \cup {<<x.path, x.checksum>>}
      BY <1>3 DEF Put
    <2> QED BY <1>4, <2>1 DEF WasMade
  <1>7. ASSUME NEW y, Counts(y) PROVE Safe(y)'
    <2>1. Safe(y) /\ spoiled \subseteq spoiled'
      BY <1>5, <1>7 DEF Kept
    <2>2. CASE y.path # x.path
      <3>1. /\ Has(bucket', y.path) <=> Has(bucket, y.path)
            /\ Has(bucket, y.path) => bucket'[y.path] = bucket[y.path]
        BY <1>5, <2>2, PutTouches
      <3> QED BY <2>1, <3>1 DEF Safe
    <2>3. CASE y.path = x.path
      <3>1. PICK q \in Requested : (\E s : Made(q, s, y)) /\
              \/ \E v \in Workers : /\ work[v].pc = "checkpoint" /\ work[v].ref = q
                                    /\ Owned(v, q, "extracting")
              \/ rows[q].state \in {"uploading", "finalized"}
        BY <1>7, CountsIsMade
      <3>2. q = r /\ y.checksum = x.checksum
        BY <1>4, <2>3, <3>1, KeysTellBytes
      <3>3. CASE answer.reply = "stored"
        BY <1>5, <2>3, <3>2, <3>3, PutTouches DEF Safe
      <3>4. CASE answer.reply # "stored"
        <4>1. ~Owned(w, r, "extracting")
          BY <1>2, <3>1, <3>2 DEF Owned
        <4> QED BY <1>5, <2>3, <3>4, <4>1 DEF Safe
      <3> QED BY <3>3, <3>4
    <2> QED BY <2>2, <2>3
  <1>8. CASE answer.reply # "stored"
    BY <1>5, <1>6, <1>7, <1>8, RetryGivesUp, GivenUp
  <1>9. CASE answer.reply = "stored"
    <2>1. PICK mem : mem = [m EXCEPT !.pc = "checkpoint"]
      OBVIOUS
    <2>2. work' = [work EXCEPT ![w] = mem] /\ rows' = rows
      BY <1>5, <1>9, <2>1 DEF Contents
    <2>3. mem = Mem("checkpoint", r, m.segment, x)
      BY <1>1, <1>2, <1>3, <2>1, MemWith DEF InWork
    <2>4. InWork(mem) /\ mem.pc = "checkpoint" /\ mem.artifact = x
      <3>1. \E rec \in Recordings : Begins(rec, r, m.segment)
        BY <1>4 DEF Made
      <3> HIDE DEF m
      <3> QED BY <1>4, <2>3, <3>1, MemIs DEF InWork
    <2>5. Safe(mem.artifact)'
      <3>1. Safe(x)'
        BY <1>5, <1>9, PutTouches DEF Safe
      <3> QED BY <2>4, <3>1
    <2> QED BY <1>1, <1>6, <1>7, <2>2, <2>4, <2>5, GoesOn
  <1> QED BY <1>8, <1>9

LEMMA Checkpoints ==
    ASSUME Rows, Contents, Custody, Kept, NEW w \in Workers, CheckpointArtifact(w)
    PROVE  Contents' /\ Custody' /\ Kept'
  <1> DEFINE m == work[w]
  <1>1. PICK r \in Requested : r = m.ref
    BY DEF Contents, InWork, CheckpointArtifact
  <1>2. InWork(m) /\ m.pc = "checkpoint"
    BY DEF Contents, CheckpointArtifact
  <1>3. (\A y : Counts(y) => Safe(y)') /\ uploads' = uploads
    BY SafeStays DEF CheckpointArtifact
  <1>4. PICK s, x : s = m.segment /\ x = m.artifact
    OBVIOUS
  <1>5. PICK recovery : recovery = [segment |-> s, artifact |-> x]
    OBVIOUS
  <1>6. PICK new : new = [rows[r] EXCEPT !.state = "uploading", !.recovery = recovery]
    OBVIOUS
  <1>7. Write(w, r, "extracting", new)
    BY <1>1, <1>4, <1>5, <1>6 DEF CheckpointArtifact
  <1>8. CASE Owned(w, r, "extracting")
    <2>1. rows' = [rows EXCEPT ![r] = new]
      BY <1>7, <1>8 DEF Write
    <2>2. PICK mem : mem = [m EXCEPT !.pc = "finalize"]
      OBVIOUS
    <2>3. work' = [work EXCEPT ![w] = mem]
      BY <1>1, <1>8, <2>2 DEF CheckpointArtifact, Contents
    <2>4. mem = Mem("finalize", r, s, x)
      BY <1>1, <1>2, <1>4, <2>2, MemWith DEF InWork
    <2>5. Made(r, s, x)
      BY <1>1, <1>2, <1>4 DEF InWork
    <2>6. InWork(mem) /\ mem.pc = "finalize" /\ mem.ref = r /\ mem.segment = s /\ mem.artifact = x
      <3>1. \E rec \in Recordings : Begins(rec, r, s)
        BY <2>5 DEF Made
      <3> QED BY <2>4, <2>5, <3>1, MemIs DEF InWork
    <2>7. new.state = "uploading" /\ new.owner = w /\ new.recovery = recovery
      <3> DEFINE o == rows[r]
      <3>1. IsRow(o) /\ o.owner = w
        BY <1>8 DEF Rows, Owned
      <3> HIDE DEF o
      <3>2. [o EXCEPT !.state = "uploading", !.recovery = recovery]
              = WithWork(o, "uploading", o.owner, o.attempts, recovery, o.package)
        BY <3>1, RowWithTwo
      <3>3. new = WithWork(o, "uploading", o.owner, o.attempts, recovery, o.package)
        BY <1>6, <3>2 DEF o
      <3> QED BY <3>1, <3>3 DEF WithWork
    <2>8. RowMade(r, new) /\ new.recovery.artifact = x
      BY <1>5, <2>5, <2>7 DEF RowMade
    <2>9. Safe(x)'
      <3>1. Counts(x)
        BY <1>1, <1>2, <1>4, <1>8 DEF Counts, Uploaded
      <3> QED BY <1>3, <3>1
    <2>10. Safe(new.recovery.artifact)'
      BY <2>8, <2>9
    <2> QED BY <1>3, <1>5, <2>1, <2>3, <2>6, <2>7, <2>8, <2>10, StepKeeps
  <1>9. CASE ~Owned(w, r, "extracting")
    <2>1. rows' = rows /\ Drop(w)
      BY <1>1, <1>7, <1>9 DEF Write, CheckpointArtifact
    <2>2. GivesUp(w, r)
      BY <2>1, RowStays DEF GivesUp
    <2> QED BY <1>3, <2>1, <2>2, GivenUp
  <1> QED BY <1>8, <1>9

LEMMA Finalizes ==
    ASSUME Rows, Contents, Custody, Kept, NEW w \in Workers, FinalizeArtifact(w)
    PROVE  Contents' /\ Custody' /\ Kept'
  <1> DEFINE m == work[w]
  <1>1. PICK r \in Requested : r = m.ref
    BY DEF Contents, InWork, FinalizeArtifact
  <1>2. InWork(m) /\ m.pc = "finalize"
    BY DEF Contents, FinalizeArtifact
  <1>3. (\A y : Counts(y) => Safe(y)') /\ uploads' = uploads
    BY SafeStays DEF FinalizeArtifact
  <1>4. PICK s, x : s = m.segment /\ x = m.artifact
    OBVIOUS
  <1>5. PICK new : new = Finalized(w, r, s, x)
    OBVIOUS
  <1>6. Write(w, r, "uploading", new) /\ Drop(w)
    BY <1>1, <1>4, <1>5 DEF FinalizeArtifact
  <1>7. CASE Owned(w, r, "uploading")
    <2>1. rows' = [rows EXCEPT ![r] = new] /\ work' = [work EXCEPT ![w] = Idle]
      BY <1>6, <1>7 DEF Write, Drop
    <2>2. Made(r, s, x) /\ IsRow(rows[r])
      BY <1>1, <1>2, <1>4 DEF InWork, Rows
    <2>3. /\ new.owner = w /\ RowMade(r, new)
          /\ new.state \in {"terminal_failure", "finalized"}
          /\ new.state = "finalized" => new.package.extraction = x
      BY <1>5, <2>2, FinalizedIs
    <2>4. Safe(x)'
      <3>1. rows[r].recovery = [segment |-> s, artifact |-> x]
        BY <1>1, <1>2, <1>4, <1>7 DEF Custody
      <3>2. Counts(x)
        BY <1>7, <3>1 DEF Counts, Recoverable, Owned
      <3> QED BY <1>3, <3>2
    <2>5. new.state = "finalized" => Safe(new.package.extraction)'
      BY <2>3, <2>4
    <2> QED BY <1>3, <2>1, <2>3, <2>5, IdleInWork, StepKeeps
  <1>8. CASE ~Owned(w, r, "uploading")
    <2>1. rows' = rows
      BY <1>6, <1>8 DEF Write
    <2>2. GivesUp(w, r)
      BY <2>1, RowStays DEF GivesUp
    <2> QED BY <1>3, <1>6, <2>2, GivenUp
  <1> QED BY <1>7, <1>8

LEMMA FailsKeeps ==
    ASSUME Rows, Contents, Custody, Kept, NEW w \in Workers, Fails(w)
    PROVE  Contents' /\ Custody' /\ Kept'
  <1>1. PICK r \in Requested : r = work[w].ref
    BY DEF Contents, InWork, Fails
  <1>2. (\A y : Counts(y) => Safe(y)') /\ uploads' = uploads /\ Drop(w)
    BY SafeStays DEF Fails
  <1>3. GivesUp(w, r)
    <2>1. Retry(w, r) \/ rows' = rows
      BY <1>1 DEF Fails
    <2> QED BY <2>1, RetryGivesUp, RowStays DEF GivesUp
  <1> QED BY <1>2, <1>3, GivenUp

-----------------------------------------------------------------------------
(* The other steps, and what follows.                                      *)

LEMMA WorkersKeep ==
    ASSUME Rows, Contents, Custody, Kept, NEW w \in Workers, WorkerStep(w)
    PROVE  Contents' /\ Custody' /\ Kept'
  BY Claims, TakesOver, Resolves, Extracts, Puts, Checkpoints, Finalizes, FailsKeeps
     DEF WorkerStep

LEMMA DeletesKeep ==
    ASSUME Contents, Custody, Kept, DeleteObject
    PROVE  Contents' /\ Custody' /\ Kept'
  <1>1. /\ UNCHANGED <<rows, work, uploads, spoiled>>
        /\ bucket' = Deleted(bucket, RefUri(sweep.ref))
    BY DEF DeleteObject
  <1>2. ASSUME NEW y, Counts(y) PROVE Safe(y)'
    <2>1. y.path # RefUri(sweep.ref)
      BY <1>2, CountsIsMade, EvidenceIsNoRefUri
    <2>2. Safe(y)
      BY <1>2 DEF Kept
    <2> QED BY <1>1, <2>1, <2>2 DEF Safe, Has, Deleted
  <1> QED BY <1>1, <1>2, StillKept

LEMMA EndsKeep ==
    ASSUME Rows, Contents, Custody, Kept, EndDeletion
    PROVE  Contents' /\ Custody' /\ Kept'
  <1>1. PICK is : rows' = [rows EXCEPT ![sweep.ref].lifecycle = is]
    BY DEF EndDeletion
  <1>2. UNCHANGED <<work, uploads, bucket, spoiled>>
    BY DEF EndDeletion
  <1>3. ASSUME NEW r \in Requested
        PROVE  /\ rows'[r].state = rows[r].state /\ rows'[r].owner = rows[r].owner
               /\ rows'[r].recovery = rows[r].recovery /\ rows'[r].package = rows[r].package
    <2> DEFINE x == rows[r]
    <2>1. IsRow(x)
      BY DEF Rows
    <2>2. rows'[r] = IF r = sweep.ref THEN [x EXCEPT !.lifecycle = is] ELSE x
      BY <1>1 DEF Rows
    <2> HIDE DEF x
    <2>3. LET y == [x EXCEPT !.lifecycle = is]
          IN  /\ y.state = x.state /\ y.owner = x.owner
              /\ y.recovery = x.recovery /\ y.package = x.package
      BY <2>1 DEF IsRow
    <2> QED BY <2>2, <2>3 DEF x
  <1>4. \A y : Counts(y) => Safe(y)'
    BY <1>2, SafeStays
  <1> QED BY <1>2, <1>3, <1>4, StillKept

LEMMA InitArtifacts ==
    ASSUME ArtifactsInit PROVE ArtifactInv
  <1>1. PICK term : rows = [r \in Requested |->
            [state |-> "queued", owner |-> Nil, attempts |-> 0, recovery |-> Nil,
             package |-> Nil, lifecycle |-> "active", class |-> term[r].class,
             hold |-> term[r].hold, created |-> 0]]
    BY DEF ArtifactsInit
  <1>2. work = [w \in Workers |-> Idle] /\ uploads = {}
    BY DEF ArtifactsInit
  <1>3. \A r \in Requested : rows[r].state = "queued"
    BY <1>1
  <1>4. \A w \in Workers : work[w] = Idle
    BY <1>2
  <1>5. Contents
    BY <1>2, <1>3, <1>4, IdleInWork DEF Contents, RowMade
  <1>6. Custody
    BY <1>4, IdleInWork DEF Custody
  <1>7. Kept
    BY <1>3, <1>4, IdleInWork DEF Kept, Counts, Uploaded, Recoverable, Packaged
  <1> QED BY <1>5, <1>6, <1>7, InitRetention DEF ArtifactInv

LEMMA NextArtifacts ==
    ASSUME ArtifactInv, [ArtifactsNext]_artifactVars
    PROVE  ArtifactInv'
  <1>1. Rows /\ Contents /\ Custody /\ Kept
    BY DEF ArtifactInv, RetentionInv
  <1>2. Contents' /\ Custody' /\ Kept'
    <2>1. CASE \E w \in Workers : WorkerStep(w)
      BY <1>1, <2>1, WorkersKeep
    <2>2. CASE UNCHANGED <<rows, work, uploads, bucket, spoiled>>
      <3>1. \A y : Counts(y) => Safe(y)'
        BY <1>1, <2>2, SafeStays
      <3> QED BY <1>1, <2>2, <3>1, StillKept
    <2>3. CASE DeleteObject
      BY <1>1, <2>3, DeletesKeep
    <2>4. CASE EndDeletion
      BY <1>1, <2>4, EndsKeep
    <2>5. \/ \E w \in Workers : WorkerStep(w)
          \/ UNCHANGED <<rows, work, uploads, bucket, spoiled>>
          \/ DeleteObject \/ EndDeletion
      BY DEF ArtifactsNext, artifactVars, Expire, Record, BeginDeletion, SweepDies, Tomorrow
    <2> QED BY <2>1, <2>2, <2>3, <2>4, <2>5
  <1>3. RetentionInv'
    BY NextRetention DEF ArtifactInv
  <1> QED BY <1>2, <1>3 DEF ArtifactInv

LEMMA ArtifactsHold == ArtifactsSpec => []ArtifactInv
  <1>1. ArtifactsInit => ArtifactInv
    BY InitArtifacts
  <1>2. ArtifactInv /\ [ArtifactsNext]_artifactVars => ArtifactInv'
    BY NextArtifacts
  <1> QED BY <1>1, <1>2, PTL DEF ArtifactsSpec

LEMMA PackagesAre ==
    ASSUME Contents, NEW p \in Packages
    PROVE  \E r \in Requested : rows[r].state = "finalized" /\ p = rows[r].package /\ Packed(r, p)
  BY DEF Packages, Contents, RowMade

\* Whatever two workers upload under one key are the same bytes: the key tells the
\* request and the first recording, and what is cut of it is told by these two.
THEOREM KeysDetermineBytes == ArtifactsSpec => []KeyDeterminesBytes
  <1>1. ArtifactInv => KeyDeterminesBytes
    <2> SUFFICES ASSUME ArtifactInv, NEW u \in uploads, NEW v \in uploads, u[1] = v[1]
                 PROVE  u[2] = v[2]
      BY DEF KeyDeterminesBytes
    <2>1. PICK r, s, x : Made(r, s, x) /\ u = <<x.path, x.checksum>>
      BY DEF ArtifactInv, Contents, WasMade
    <2>2. PICK q, t, y : Made(q, t, y) /\ v = <<y.path, y.checksum>>
      BY DEF ArtifactInv, Contents, WasMade
    <2> QED BY <2>1, <2>2, KeysTellBytes
  <1> QED BY <1>1, ArtifactsHold, PTL

\* Evidence that retention still makes accessible has its bytes, whole, under the key
\* its package names, whatever failed, crashed, was taken over or deleted; unless a
\* put failed that storage refused to a worker without the row.
THEOREM PackagesHaveBytes == ArtifactsSpec => []AccessibleHasItsBytes
  <1>1. ArtifactInv => AccessibleHasItsBytes
    <2> SUFFICES ASSUME ArtifactInv, NEW r \in Requested, rows[r].state = "finalized",
                        NEW x, x = rows[r].package.extraction
                 PROVE  \/ Has(bucket, x.path) /\ bucket[x.path] = x.checksum
                        \/ x.path \in spoiled
      BY DEF AccessibleHasItsBytes
    <2>1. Counts(x)
      BY DEF Counts, Packaged
    <2>2. Safe(x)
      BY <2>1 DEF ArtifactInv, Kept
    <2> QED BY <2>2 DEF Safe
  <1> QED BY <1>1, ArtifactsHold, PTL

\* A package that says "success" holds every instant that was asked for, of a
\* recording in the scope of its request.
THEOREM SuccessIsComplete == ArtifactsSpec => []SuccessCoversRequest
  <1>1. ArtifactInv => SuccessCoversRequest
    <2> SUFFICES ASSUME ArtifactInv, NEW p \in Packages
                 PROVE  LET e == p.evidence
                            bytes == p.extraction.checksum
                            rec == CHOOSE q \in Recordings : q.asset = bytes.asset
                        IN  /\ e.asset \in {Nil, rec.asset} /\ e.camera \in {Nil, rec.camera}
                            /\ e.session \in {Nil, rec.session} /\ InScope(e, rec)
                            /\ p.extraction.status = "success" =>
                                 bytes.from <= Start(e) /\ bytes.to >= Stop(e)
      BY DEF SuccessCoversRequest
    <2>1. PICK r \in Requested : Packed(r, p)
      BY PackagesAre DEF ArtifactInv
    <2>2. PICK s, x : Made(r, s, x) /\ p = Package(Requests[r], s, x)
      BY <2>1 DEF Packed
    <2>3. p.evidence = Requests[r] /\ p.extraction = x
      BY <2>2 DEF Package
    <2>4. PICK rec \in Recordings :
            /\ Begins(rec, r, s) /\ x.checksum = BytesOf(Requests[r], rec)
            /\ x.status = IF IsPartial(s, BytesOf(Requests[r], rec)) THEN "partial"
                          ELSE "success"
      BY <2>2, MadeIs
    <2> DEFINE bytes == BytesOf(Requests[r], rec)
               e == Requests[r]
               other == CHOOSE q \in Recordings : q.asset = bytes.asset
    <2>5. bytes.asset = rec.asset /\ bytes.from = Earliest(e, rec) /\ bytes.to = Latest(e, rec)
      BY DEF BytesOf
    <2>6. other = rec
      <3>1. \A q \in Recordings : q.asset = bytes.asset => q = rec
        BY <2>5, RecordingsAssumption DEF RecordingsAssumption
      <3> HIDE DEF bytes
      <3> QED BY <2>5, <3>1
    <2>7. InScope(e, rec) /\ IdentityMatches(e, rec)
      BY <2>4 DEF Begins
    <2>8. x.status = "success" => bytes.from <= Start(e) /\ bytes.to >= Stop(e)
      <3> SUFFICES ASSUME x.status = "success"
                   PROVE  bytes.from <= Start(e) /\ bytes.to >= Stop(e)
        OBVIOUS
      <3>1. ~IsPartial(s, bytes)
        BY <2>4
      <3>2. /\ Wanted(s).from \in Int /\ Wanted(s).to \in Int
            /\ Earliest(e, rec) \in Int /\ Latest(e, rec) \in Int
        BY <2>4, CutIs
      <3>3. s.status # "partial_coverage" /\ s.from = Start(e) /\ s.to = Stop(e)
        BY <2>4, <3>1, ScopeIs DEF IsPartial
      <3>4. Wanted(s).from = Start(e) /\ Wanted(s).to = Stop(e)
        BY <3>3 DEF Wanted
      <3> HIDE DEF bytes, e
      <3> QED BY <2>5, <3>1, <3>2, <3>4 DEF IsPartial
    <2> HIDE DEF bytes, e, other
    <2>9. /\ e.asset \in {Nil, other.asset} /\ e.camera \in {Nil, other.camera}
          /\ e.session \in {Nil, other.session} /\ InScope(e, other)
      BY <2>6, <2>7 DEF IdentityMatches
    <2>10. p.evidence = e /\ p.extraction.checksum = bytes /\ p.extraction.status = x.status
      BY <2>3, <2>4 DEF e, bytes
    <2> QED BY <2>8, <2>9, <2>10 DEF other
  <1> QED BY <1>1, ArtifactsHold, PTL

-----------------------------------------------------------------------------
(* Provenance.                                                             *)

Passed == "verified"

LEMMA IdentityIs ==
    ASSUME NEW a, NEW b
    PROVE  Identity(a, b) = Passed <=> a # Nil /\ a = b
  BY DEF Identity, Passed

LEMMA ChecksAre ==
    ASSUME NEW v, NEW p
    PROVE  Verified(v, p) <=>
             LET e == p.evidence IN
             /\ Identity(v.event, e.event) = Passed
             /\ Scope(v.tenant, e.tenant) = Passed /\ Scope(v.venue, e.venue) = Passed
             /\ Source(p) = Passed
             /\ Identity(v.session, e.session) = Passed /\ OfCamera(v, p) = Passed
             /\ EventTime(v, p) = Passed /\ Carried(e.frames) = Passed
             /\ Carried(e.detector) = Passed /\ Carried(e.tracker) = Passed
             /\ Identity(v.config, e.config) = Passed
             /\ Identity(RuleOf(v), RuleOf(e)) = Passed
             /\ Needed(p, p.extraction.checksum) = Passed
             /\ Needed(p, p.extraction.path) = Passed
             /\ PackageIdentity(p) = Passed
  <1> DEFINE e == p.evidence
             x1 == Identity(v.event, e.event)
             x2 == Scope(v.tenant, e.tenant)
             x3 == Scope(v.venue, e.venue)
             x4 == Source(p)
             x5 == Identity(v.session, e.session)
             x6 == OfCamera(v, p)
             x7 == EventTime(v, p)
             x8 == Carried(e.frames)
             x9 == Carried(e.detector)
             x10 == Carried(e.tracker)
             x11 == Identity(v.config, e.config)
             x12 == Identity(RuleOf(v), RuleOf(e))
             x13 == Needed(p, p.extraction.checksum)
             x14 == Needed(p, p.extraction.path)
             x15 == PackageIdentity(p)
             c == [event |-> x1, tenant |-> x2, venue |-> x3, source |-> x4, session |-> x5,
                   camera |-> x6, event_time |-> x7, frame_range |-> x8, detector |-> x9,
                   tracker |-> x10, configuration |-> x11, rule |-> x12, checksum |-> x13,
                   stored |-> x14, package |-> x15]
  <1>1. Checks(v, p) = c
    BY DEF Checks
  <1> HIDE DEF x1, x2, x3, x4, x5, x6, x7, x8, x9, x10, x11, x12, x13, x14, x15
  <1>2. (\A link \in DOMAIN c : c[link] = "verified") <=>
          /\ x1 = Passed /\ x2 = Passed /\ x3 = Passed /\ x4 = Passed /\ x5 = Passed
          /\ x6 = Passed /\ x7 = Passed /\ x8 = Passed /\ x9 = Passed /\ x10 = Passed
          /\ x11 = Passed /\ x12 = Passed /\ x13 = Passed /\ x14 = Passed /\ x15 = Passed
    BY DEF Passed
  <1> HIDE DEF c
  <1>3. Verified(v, p) <=> \A link \in DOMAIN c : c[link] = "verified"
    BY <1>1 DEF Verified
  <1> QED BY <1>2, <1>3 DEF x1, x2, x3, x4, x5, x6, x7, x8, x9, x10, x11, x12, x13, x14, x15

LEMMA CompleteIs ==
    ASSUME NEW e
    PROVE  Complete(e) <=>
             /\ e.asset # Nil /\ e.camera # Nil /\ e.session # Nil /\ e.config # Nil
             /\ e.rule # Nil /\ e.frames # Nil /\ e.detector # Nil /\ e.tracker # Nil
  BY DEF Complete

LEMMA PackageVerifies ==
    ASSUME NEW r \in Requested, NEW q \in Requested, NEW p, Packed(r, p)
    PROVE  Verified(RuleEvent[q], p) <=> q = r /\ Complete(Requests[r])
  <1>1. PICK s, x : /\ Made(r, s, x) /\ ~Refused(Requests[r], s, x)
                    /\ p = Package(Requests[r], s, x)
    BY DEF Packed
  <1> DEFINE e == Requests[r]
             v == RuleEvent[q]
  <1>2. /\ p.evidence = e /\ p.resolved = s /\ p.extraction = x /\ p.created = Nil
    BY <1>1 DEF Package
  <1>3. PICK rec \in Recordings :
          /\ Begins(rec, r, s) /\ x.from = s.from /\ x.to = s.to
          /\ x.status \in Completed
    BY <1>1, MadeIs DEF Completed
  <1>4. /\ s.from = Start(e) /\ s.to = Stop(e) /\ s.parts # <<>>
        /\ s.parts[1].asset = rec.asset /\ e.asset \in {Nil, rec.asset}
    BY <1>3, OutcomeIs DEF Begins, IdentityMatches
  <1>5. Requests[q].event = v.event /\ e.event # Nil /\ (e.event = v.event => q = r)
    BY LinksAssumption DEF LinksAssumption
  <1>6. ASSUME q # r PROVE ~Verified(v, p)
    <2>1. Identity(v.event, e.event) # Passed
      BY <1>5, <1>6, IdentityIs
    <2> HIDE DEF v, e
    <2> QED BY <1>2, <2>1, ChecksAre
  <1>7. ASSUME q = r PROVE Verified(v, p) <=> Complete(e)
    <2>1. /\ e.event = v.event /\ e.event # Nil
          /\ e.tenant = v.tenant /\ e.venue = v.venue
          /\ e.session \in {Nil, v.session} /\ e.camera \in {Nil, v.camera}
          /\ e.config \in {Nil, v.config}
          /\ e.rule # Nil => RuleOf(e) = RuleOf(v) /\ RuleOf(e) # Nil
          /\ v.at \in Start(e) .. Stop(e)
      BY <1>7, LinksAssumption DEF LinksAssumption
    <2>2. Start(e) \in Int /\ Stop(e) \in Int
      BY Recorded, <1>3
    <2> HIDE DEF e, v
    <2>3. x.path # Nil /\ x.checksum # Nil
      BY <1>1, <1>3 DEF Refused
    <2>4. /\ Identity(v.event, e.event) = Passed
          /\ Scope(v.tenant, e.tenant) = Passed /\ Scope(v.venue, e.venue) = Passed
      BY <2>1, IdentityIs DEF Scope, Passed
    <2>5. Source(p) = Passed <=> e.asset # Nil
      BY <1>2, <1>4 DEF Source, Passed
    <2>6. Identity(v.session, e.session) = Passed <=> e.session # Nil
      BY <2>1, IdentityIs
    <2>7. OfCamera(v, p) = Passed <=> e.camera # Nil
      <3>1. Identity(v.camera, e.camera) = Passed <=> v.camera # Nil /\ v.camera = e.camera
        BY IdentityIs
      <3> QED BY <1>2, <2>1, <3>1 DEF OfCamera, Passed
    <2>8. Identity(v.config, e.config) = Passed <=> e.config # Nil
      BY <2>1, IdentityIs
    <2>9. Identity(RuleOf(v), RuleOf(e)) = Passed <=> e.rule # Nil
      <3>1. e.rule = Nil => RuleOf(e) = Nil
        BY DEF RuleOf
      <3> QED BY <2>1, <3>1, IdentityIs
    <2>10. EventTime(v, p) = Passed
      <3>1. p.extraction.from = Start(e) /\ p.extraction.to = Stop(e)
        BY <1>2, <1>3, <1>4 DEF e
      <3>2. p.extraction.from <= v.at /\ v.at <= p.extraction.to
        BY <2>1, <2>2, <3>1
      <3>3. ~(p.extraction.to < p.extraction.from)
        BY <2>1, <2>2, <3>1
      <3>4. EventTime(v, p) \notin {"inconsistent", "substituted"}
        BY <3>2, <3>3 DEF EventTime
      <3> QED BY <3>2, <3>3, <3>4 DEF EventTime, Passed
    <2>11. \A value : Carried(value) = Passed <=> value # Nil
      BY DEF Carried, Passed
    <2>12. Needed(p, p.extraction.checksum) = Passed /\ Needed(p, p.extraction.path) = Passed
      BY <1>2, <1>3, <2>3 DEF Needed, Passed
    <2>13. PackageIdentity(p) = Passed
      BY <1>2 DEF PackageIdentity, Passed
    <2>14. p.evidence = e
      BY <1>2 DEF e
    <2>15. Verified(v, p) <=>
             /\ Identity(v.event, e.event) = Passed
             /\ Scope(v.tenant, e.tenant) = Passed /\ Scope(v.venue, e.venue) = Passed
             /\ Source(p) = Passed
             /\ Identity(v.session, e.session) = Passed /\ OfCamera(v, p) = Passed
             /\ EventTime(v, p) = Passed /\ Carried(e.frames) = Passed
             /\ Carried(e.detector) = Passed /\ Carried(e.tracker) = Passed
             /\ Identity(v.config, e.config) = Passed
             /\ Identity(RuleOf(v), RuleOf(e)) = Passed
             /\ Needed(p, p.extraction.checksum) = Passed
             /\ Needed(p, p.extraction.path) = Passed
             /\ PackageIdentity(p) = Passed
      BY <2>14, ChecksAre
    <2> QED BY <2>4, <2>5, <2>6, <2>7, <2>8, <2>9, <2>10, <2>11, <2>12, <2>13, <2>15, CompleteIs
  <1> QED BY <1>6, <1>7

\* A package verifies for the rule event it was requested for and for no other, and
\* it does if and only if its request carries every link.
THEOREM ProvenanceIsExact == ArtifactsSpec => []VerifiesItsEventOnly
  <1>1. ArtifactInv => VerifiesItsEventOnly
    <2> SUFFICES ASSUME ArtifactInv, NEW r \in Requested, NEW q \in Requested,
                        rows[r].state = "finalized"
                 PROVE  Verified(RuleEvent[q], rows[r].package)
                          <=> q = r /\ Complete(Requests[r])
      BY DEF VerifiesItsEventOnly
    <2>1. Packed(r, rows[r].package)
      BY DEF ArtifactInv, Contents, RowMade
    <2> QED BY <2>1, PackageVerifies
  <1> QED BY <1>1, ArtifactsHold, PTL

=============================================================================
