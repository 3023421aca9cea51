---------------------------- MODULE MediaLifecycle -----------------------------
(***************************************************************************)
(* Media records, the bytes they stand for, and the worker that cleans up  *)
(* (media_upload.py, media_lifecycle.py, idempotency.py, media_cleanup.py).*)
(*                                                                         *)
(* PostgreSQL keeps a record per media, object storage keeps the bytes and *)
(* no transaction spans the two.  A request is one READ COMMITTED          *)
(* transaction: what it wrote shows when it commits, the row it updated is *)
(* locked until then, and a request that raises is rolled back, whatever   *)
(* it did to the storage.  The worker commits every transition on its own. *)
(* "validating" is therefore never committed, and nothing sets "expired".  *)
(***************************************************************************)
EXTENDS Naturals, Sequences, FiniteSetsExt

CONSTANTS
    Media,           \* media, numbered in the order of their object keys
    Requests, Workers,
    Keys,            \* idempotency keys of requests that register a media
    Held,            \* media under a preservation hold
    Temporary,       \* media whose object key is in the temporary/ namespace
    BatchSize,       \* records a sweep handles
    MaxCrashes,      \* bound: crashes of workers
    OrphanDeletion,  \* media_orphan_object_deletion_enabled
    None

ASSUME MediaAssumption == /\ BatchSize \in Nat \ {0}
                          /\ MaxCrashes \in Nat
                          /\ Media \subseteq Nat
                          /\ Held \subseteq Media /\ Temporary \subseteq Media
                          /\ Cardinality(Keys) <= Cardinality(Media)
                          /\ OrphanDeletion \in BOOLEAN
                          /\ None \notin Media \cup Keys

VARIABLES
    media,    \* media[m]: its committed record
    order,    \* the records by updated_at: <<n, m>> when n is older than m
    bytes,    \* bytes[m]: what the object storage has under its key
    claims,   \* claims[k]: the media the committed idempotency record of k is about
    txn,      \* txn[r]: the transaction of request r
    worker,   \* worker[w]: the cycle of worker w
    crashes

mediaVars == <<media, order, bytes, claims, txn, worker, crashes>>

States == {"none", "uploading", "uploaded", "available", "failed",
           "deletion_pending", "deleted"}

Record == [state   : States,
           key     : Keys \cup {None},  \* of the request that registered it
           settled : BOOLEAN,           \* the upload timeout, or the grace, is over
           expired : BOOLEAN]           \* expires_at has passed

NoRecord == [state |-> "none", key |-> None, settled |-> FALSE, expired |-> FALSE]

Contents == {"none", "bad", "good"}

Ops == {"none", "initiate", "complete", "abort", "verify", "delete"}

Txn == [op      : Ops,
        pc      : {"idle", "claim", "register", "head", "mark", "storage", "finish"},
        media   : Media \cup {None},
        key     : Keys \cup {None},
        seen    : States]              \* the state it read and compares

Idle == [op |-> "none", pc |-> "idle", media |-> None, key |-> None, seen |-> "none"]

Sweeps == <<"expired", "stale", "missing", "orphan">>

Items == Media \X States

Cycle == [sweep : 0 .. Len(Sweeps),        \* 0 between two cycles
          todo  : SUBSET Items,            \* records listed, with the state they had
          item  : Items \cup {None},
          step  : {"next", "storage", "finish"}]

Resting == [sweep |-> 0, todo |-> {}, item |-> None, step |-> "next"]

Init == /\ media = [m \in Media |-> NoRecord]
        /\ order = {}
        /\ bytes = [m \in Media |-> "none"]
        /\ claims = [k \in Keys |-> None]
        /\ txn = [r \in Requests |-> Idle]
        /\ worker = [w \in Workers |-> Resting]
        /\ crashes = 0

-----------------------------------------------------------------------------
State(m) == media[m].state

\* An UPDATE of this transaction has the row until it ends.
HoldsRow(q, m) ==
    /\ txn[q].media = m
    /\ txn[q].pc \in {"storage", "finish"}
    /\ txn[q].op \in {"abort", "verify", "delete"}
    /\ txn[q].seen # "deletion_pending"

RowFree(m) == \A q \in Requests : ~HoldsRow(q, m)
RowFreeFor(r, m) == \A q \in Requests \ {r} : ~HoldsRow(q, m)

Registered == {m \in Media : State(m) # "none"}

\* All others are older now.
Touched(m) == {p \in order : p[1] # m} \cup ((Registered \ {m}) \X {m})

\* A committed transition; the grace starts anew.
Becomes(m, s) ==
    /\ media' = [media EXCEPT ![m].state = s, ![m].settled = FALSE,
                              ![m].expired = @ /\ s \in {"available", "deletion_pending"}]
    /\ order' = Touched(m)

Goto(r, pc) == txn' = [txn EXCEPT ![r].pc = pc]
End(r) == txn' = [txn EXCEPT ![r] = Idle]

\* It answers with a conflict, raises, or has nothing to do.
Leave(r) == End(r) /\ UNCHANGED <<media, order, bytes, claims>>

Begin(r, t) == /\ txn[r].pc = "idle"
               /\ txn' = [txn EXCEPT ![r] = t]
               /\ UNCHANGED <<media, order, bytes, claims, worker, crashes>>

BeginOn(r, op, m, pc) ==
    Begin(r, [Idle EXCEPT !.op = op, !.pc = pc, !.media = m, !.seen = State(m)])

At(r, op, pc) == txn[r].op = op /\ txn[r].pc = pc

-----------------------------------------------------------------------------
(* Registration, at most once per idempotency key.  The key is unique: a   *)
(* second request waits for the first to end, and then reads its answer.   *)
(* A request that sends no key has one to itself.                          *)
BeginInitiate(r, k) ==
    Begin(r, [Idle EXCEPT !.op = "initiate", !.key = k, !.pc = "claim"])

\* Mutant of KeyFree: the key is looked up and not claimed.
KeyUnclaimed(r) == claims[txn[r].key] = None

KeyFree(r) ==
    \A q \in Requests \ {r} : At(q, "initiate", "register") => txn[q].key # txn[r].key

\* A committed record is replayed, or conflicts with another payload.
ClaimKey(r) ==
    /\ At(r, "initiate", "claim")
    /\ KeyFree(r)
    /\ IF claims[txn[r].key] # None
         THEN Leave(r)
         ELSE Goto(r, "register") /\ UNCHANGED <<media, order, bytes, claims>>

\* Media row and idempotency record are committed together.
Register(r) ==
    LET k == txn[r].key IN
    /\ At(r, "initiate", "register")
    /\ \E m \in Media :
         /\ State(m) = "none"
         /\ media' = [media EXCEPT ![m] = [NoRecord EXCEPT !.state = "uploading", !.key = k]]
         /\ order' = Touched(m)
         /\ claims' = [claims EXCEPT ![k] = m]
    /\ End(r) /\ UNCHANGED bytes

-----------------------------------------------------------------------------
(* Completion: look at the object, then "uploading" to "uploaded".         *)
BeginComplete(r, m) == State(m) = "uploading" /\ BeginOn(r, "complete", m, "head")

\* A multipart upload is assembled here, an upload by PUT is there already.
\* A wrong size raises, and with it goes the transition to "failed".
HeadObject(r) ==
    LET m == txn[r].media IN
    /\ At(r, "complete", "head")
    /\ \E b \in IF bytes[m] = "none" /\ State(m) = "uploading" THEN Contents ELSE {bytes[m]} :
         /\ bytes' = [bytes EXCEPT ![m] = b]
         /\ \/ b # "good" /\ End(r)
            \/ b # "none" /\ Goto(r, "finish")
    /\ UNCHANGED <<media, order, claims>>

\* Whoever finds it no longer "uploading" answers without a change.
FinishUpload(r) ==
    LET m == txn[r].media IN
    /\ At(r, "complete", "finish")
    /\ RowFree(m)
    /\ IF State(m) = "uploading"
         THEN Becomes(m, "uploaded") /\ End(r) /\ UNCHANGED <<bytes, claims>>
         ELSE Leave(r)

-----------------------------------------------------------------------------
(* Abort, verification and deletion take the row first: the UPDATE waits   *)
(* for the row and compares the state that was read.                       *)
BeginAbort(r, m) == State(m) = "uploading" /\ BeginOn(r, "abort", m, "mark")

BeginVerify(r, m) == State(m) = "uploaded" /\ BeginOn(r, "verify", m, "mark")

\* A record the worker is deleting is only helped along.
BeginDelete(r, m) ==
    /\ State(m) \notin {"none", "deleted"}
    /\ m \notin Held
    /\ BeginOn(r, "delete", m, IF State(m) = "deletion_pending" THEN "storage" ELSE "mark")

Mark(r) ==
    LET m == txn[r].media IN
    /\ txn[r].pc = "mark"
    /\ RowFreeFor(r, m)
    /\ IF State(m) = txn[r].seen
         THEN /\ txn' = [txn EXCEPT ![r].pc = "storage", ![r].seen = "none"]
              /\ UNCHANGED <<media, order, bytes, claims>>
         ELSE Leave(r)

\* Best effort, and only now that the record is terminal.
Cleanup(r) ==
    /\ At(r, "abort", "storage")
    /\ bytes' \in {bytes, [bytes EXCEPT ![txn[r].media] = "none"]}
    /\ Goto(r, "finish")
    /\ UNCHANGED <<media, order, claims>>

\* The object is streamed and compared.
Inspect(r) ==
    /\ At(r, "verify", "storage")
    /\ bytes[txn[r].media] = "good"
    /\ Goto(r, "finish")
    /\ UNCHANGED <<media, order, bytes, claims>>

\* It is missing or not what it should be.
Reject(r) ==
    /\ At(r, "verify", "storage")
    /\ bytes[txn[r].media] # "good"
    /\ Leave(r)

Erase(r) ==
    /\ At(r, "delete", "storage")
    /\ bytes' = [bytes EXCEPT ![txn[r].media] = "none"]
    /\ Goto(r, "finish")
    /\ UNCHANGED <<media, order, claims>>

Outcome(op) == CASE op = "abort"  -> "failed"
                 [] op = "verify" -> "available"
                 [] OTHER         -> "deleted"

\* The second transition and the commit that shows both.
Finish(r) ==
    LET m == txn[r].media IN
    /\ txn[r].op \in {"abort", "verify", "delete"} /\ txn[r].pc = "finish"
    /\ RowFreeFor(r, m)
    /\ IF HoldsRow(r, m) \/ State(m) = "deletion_pending"
         THEN Becomes(m, Outcome(txn[r].op)) /\ End(r) /\ UNCHANGED <<bytes, claims>>
         ELSE Leave(r)

\* The storage or the database fails, the client goes away, the process dies.
Abandon(r) == txn[r].pc # "idle" /\ Leave(r)

-----------------------------------------------------------------------------
(* The worker: one bounded sweep after the other.  Storage is called       *)
(* outside of transactions, so nothing is locked between two steps.        *)
Current(w) == Sweeps[worker[w].sweep]
Now(w, step) == worker[w].step = step
Item(w) == worker[w].item[1]
Was(w) == worker[w].item[2]

\* A listing of objects says nothing about records.
Listed(n, S) == {<<m, IF Sweeps[n] = "orphan" THEN "none" ELSE State(m)>> : m \in S}

\* The batches a query may return: any, where it sorts by expires_at or created_at,
\* which are not modelled; the oldest by updated_at; the first by object key.
Batches(S) == {B \in SUBSET S : Cardinality(B) = Min({BatchSize, Cardinality(S)})}
Oldest(S) == {{m \in S : Cardinality({n \in S : <<n, m>> \in order}) < BatchSize}}
FirstKeys(S) == {{m \in S : Cardinality({n \in S : n < m}) < BatchSize}}

\* Mutant of Due: only what is still available.
DueOnce(m) == State(m) = "available" /\ media[m].expired

\* A deletion that failed is due again.
Due(m) == State(m) \in {"available", "deletion_pending"} /\ media[m].expired

Reconcilable == {"uploaded", "available", "deletion_pending"}

Candidates(sweep) ==
    CASE sweep = "expired" ->
           Batches({m \in Media : Due(m)})
      [] sweep = "stale"   ->
           Batches({m \in Media : State(m) = "uploading" /\ media[m].settled})
      [] sweep = "missing" ->
           Oldest({m \in Media : State(m) \in Reconcilable /\ media[m].settled})
      [] OTHER             ->   \* objects in temporary/, whoever they belong to
           FirstKeys({m \in Temporary : bytes[m] # "none"})

Work(w, t) == worker' = [worker EXCEPT ![w] = t]
WorkStep(w, step) == Work(w, [worker[w] EXCEPT !.step = step])

\* On with the next record.
Drop(w) == Work(w, [worker[w] EXCEPT !.item = None, !.step = "next"])

\* The poll interval is over, or the sweep before is done: a batch is listed.
\* Stopped or failing, a worker ends the cycle instead.
Sweep(w, n) ==
    /\ worker[w].sweep = n - 1 /\ worker[w].todo = {} /\ worker[w].item = None
    /\ \E B \in Candidates(Sweeps[n]) :
         Work(w, [Resting EXCEPT !.sweep = n, !.todo = Listed(n, B)])
    /\ UNCHANGED <<media, order, bytes>>

Rest(w) == /\ worker[w].sweep = Len(Sweeps) /\ worker[w].todo = {} /\ worker[w].item = None
           /\ Work(w, Resting)
           /\ UNCHANGED <<media, order, bytes>>

\* Mutant of Orphan: what is in temporary/ is taken for left over.
OrphanByKey(m) == OrphanDeletion

\* An object is an orphan when its record is terminal by now.
Orphan(m) == OrphanDeletion /\ State(m) \in {"none", "failed", "deleted"}

\* An expired record is first marked, in a transaction of its own; one that
\* is on hold, or changed in the meantime, is left alone.
Take(w) ==
    /\ Now(w, "next")
    /\ \E i \in worker[w].todo :
         LET m == i[1]
             rest == [worker[w] EXCEPT !.todo = @ \ {i}]
             onward == Work(w, [rest EXCEPT !.item = i, !.step = "storage"])
             skip == Work(w, rest)
             marks == Current(w) = "expired" /\ i[2] = "available"
         IN \/ /\ marks /\ m \notin Held /\ RowFree(m) /\ State(m) = "available"
               /\ Becomes(m, "deletion_pending") /\ onward
            \/ /\ \/ marks /\ (m \in Held \/ State(m) # "available")
                  \/ Current(w) = "expired" /\ m \in Held
                  \/ Current(w) = "orphan" /\ ~Orphan(m)
               /\ skip /\ UNCHANGED <<media, order>>
            \/ /\ ~marks
               /\ Current(w) = "expired" => m \notin Held
               /\ Current(w) = "orphan" => Orphan(m)
               /\ onward /\ UNCHANGED <<media, order>>
    /\ UNCHANGED bytes

\* DELETE of the object, or the HEAD that looks for it.  An orphan is erased when
\* its object is older than the grace, and left alone when it is younger.
Store(w) ==
    LET m == Item(w)
        gone == bytes' = [bytes EXCEPT ![m] = "none"]
    IN /\ Now(w, "storage")
       /\ CASE Current(w) = "expired" -> gone /\ WorkStep(w, "finish")
            [] Current(w) = "stale"   -> (gone \/ UNCHANGED bytes) /\ WorkStep(w, "finish")
            [] Current(w) = "missing" -> /\ UNCHANGED bytes
                                         /\ IF bytes[m] = "none" THEN WorkStep(w, "finish")
                                                                 ELSE Drop(w)
            [] OTHER                  -> (gone \/ UNCHANGED bytes) /\ Drop(w)
       /\ UNCHANGED <<media, order>>

\* The provider fails: the record is left for the next cycle.
StoreFails(w) == /\ Now(w, "storage")
                 /\ Current(w) # "stale"
                 /\ Drop(w)
                 /\ UNCHANGED <<media, order, bytes>>

Resolution(w) ==
    CASE Current(w) = "expired" -> <<"deletion_pending", "deleted">>
      [] Current(w) = "stale"   -> <<"uploading", "failed">>
      [] Current(w) = "missing" /\ Was(w) = "deletion_pending" ->
           <<"deletion_pending", "deleted">>
      [] OTHER -> <<Was(w), "failed">>

\* Mutant of Resolve: the record is written back as it was listed.
ResolveStale(w) ==
    /\ Now(w, "finish")
    /\ RowFree(Item(w))
    /\ Becomes(Item(w), Resolution(w)[2])
    /\ Drop(w) /\ UNCHANGED bytes

\* The guarded transition at the end of an item.
Resolve(w) ==
    LET m == Item(w) IN
    /\ Now(w, "finish")
    /\ RowFree(m)
    /\ IF State(m) = Resolution(w)[1]
         THEN Becomes(m, Resolution(w)[2])
         ELSE UNCHANGED <<media, order>>
    /\ Drop(w) /\ UNCHANGED bytes

Cleans(w) == \/ \E n \in DOMAIN Sweeps : Sweep(w, n)
             \/ Rest(w) \/ Take(w) \/ Store(w) \/ Resolve(w)

Crash(w) == /\ worker[w].sweep # 0
            /\ crashes < MaxCrashes
            /\ crashes' = crashes + 1
            /\ Work(w, Resting)
            /\ UNCHANGED <<media, order, bytes>>

-----------------------------------------------------------------------------
\* Clients upload until they complete, or a slow PUT arrives when all is over;
\* a PUT that repeats what is there changes nothing.
Put(m) ==
    /\ State(m) \in {"uploading", "failed", "deleted"}
    /\ \E b \in Contents \ {"none"} : bytes' = [bytes EXCEPT ![m] = b]
    /\ UNCHANGED <<media, order, claims, txn, worker, crashes>>

Completed == {"uploaded", "available", "deletion_pending"}

\* The timeout of an upload, or the grace since updated_at, is over.
Settle(m) ==
    /\ State(m) \in {"uploading"} \cup Completed
    /\ ~media[m].settled
    /\ State(m) # "uploading" =>
         \A n \in Media :
           (State(n) \in Completed /\ ~media[n].settled) => <<n, m>> \notin order
    /\ media' = [media EXCEPT ![m].settled = TRUE]
    /\ UNCHANGED <<order, bytes, claims, txn, worker, crashes>>

Expire(m) ==
    /\ State(m) \in Completed /\ ~media[m].expired
    /\ media' = [media EXCEPT ![m].expired = TRUE]
    /\ UNCHANGED <<order, bytes, claims, txn, worker, crashes>>

-----------------------------------------------------------------------------
Arrive(r) == \/ \E k \in Keys : BeginInitiate(r, k)
             \/ \E m \in Media : \/ BeginComplete(r, m) \/ BeginAbort(r, m)
                                 \/ BeginVerify(r, m) \/ BeginDelete(r, m)

\* Statements that may wait for another transaction.
Contend(r) == ClaimKey(r) \/ FinishUpload(r) \/ Mark(r) \/ Finish(r)

Proceed(r) == Register(r) \/ HeadObject(r) \/ Cleanup(r) \/ Inspect(r) \/ Reject(r) \/ Erase(r)

Request(r) == /\ Contend(r) \/ Proceed(r) \/ Abandon(r)
              /\ UNCHANGED <<worker, crashes>>

Maintain(w) == /\ \/ (Cleans(w) \/ StoreFails(w)) /\ UNCHANGED crashes
                  \/ Crash(w)
               /\ UNCHANGED <<claims, txn>>

Passes(m) == Put(m) \/ Settle(m) \/ Expire(m)

Next == \/ \E r \in Requests : Arrive(r) \/ Request(r)
        \/ \E w \in Workers : Maintain(w)
        \/ \E m \in Media : Passes(m)

Served(r) == (Proceed(r) \/ Contend(r)) /\ UNCHANGED <<worker, crashes>>
Cleaned(w) == Cleans(w) /\ UNCHANGED <<claims, txn, crashes>>
Stored(w, s) == worker[w].sweep = s /\ Store(w) /\ UNCHANGED <<claims, txn, crashes>>
Erased(w) == Stored(w, 4) /\ bytes'[Item(w)] = "none"

\* Requests are carried out and row locks granted in order of arrival, the
\* worker polls for ever, the storage does not fail for ever, time passes; a
\* presigned PUT runs out, so an object left over grows older than its grace.
Fairness == /\ \A r \in Requests : SF_mediaVars(Served(r))
            /\ \A w \in Workers : /\ SF_mediaVars(Cleaned(w))
                                   /\ \A s \in {1, 3} : SF_mediaVars(Stored(w, s))
                                   /\ SF_mediaVars(Erased(w))
            /\ \A m \in Media : WF_mediaVars(Settle(m))

Spec == Init /\ [][Next]_mediaVars /\ Fairness

-----------------------------------------------------------------------------
\* Every variable has its type; a request and a worker at rest keep nothing;
\* the records are ordered once each.
MediaTypeOK ==
    /\ media \in [Media -> Record]
    /\ bytes \in [Media -> Contents]
    /\ claims \in [Keys -> Media \cup {None}]
    /\ txn \in [Requests -> Txn]
    /\ worker \in [Workers -> Cycle]
    /\ crashes \in 0 .. MaxCrashes
    /\ order \subseteq Registered \X Registered
    /\ \A m, n \in Registered :
         /\ m # n => (<<m, n>> \in order <=> <<n, m>> \notin order)
         /\ <<m, m>> \notin order
    /\ \A r \in Requests : txn[r].pc = "idle" => txn[r] = Idle
    /\ \A w \in Workers : worker[w].sweep = 0 => worker[w] = Resting

\* However requests with one idempotency key overlap, fail and are repeated,
\* one of them at a time registers a media, none when that is done, and later
\* answers are about that media (idempotency.py:161-166, routes/media.py:70-72).
OneMediaPerKey ==
    /\ \A r \in Requests : At(r, "initiate", "register") =>
         /\ claims[txn[r].key] = None
         /\ \A q \in Requests \ {r} : At(q, "initiate", "register") => txn[q].key # txn[r].key
    /\ \A m \in Media : State(m) # "none" => claims[media[m].key] = m

AvailableWasVerified == \A m \in Media : State(m) = "available" => bytes[m] # "bad"

\* The committed states of a record follow the lifecycle, and speak true of its
\* bytes whatever is uploaded, erased or swept at the same time: available means
\* found good (media_lifecycle.py:20-21); one that was uploaded fails only when
\* its bytes are missing, and is deleted only when they are gone, so neither a
\* deletion that fails half way nor one that two actors carry out is
\* acknowledged too early (media_lifecycle.py:827-830).
FollowsMediaLifecycle ==
    [][/\ AvailableWasVerified'
       /\ \A m \in Media :
            LET was == State(m)
                is == media'[m].state
            IN is # was =>
                 /\ <<was, is>> \in
                      {<<"none", "uploading">>, <<"uploading", "uploaded">>,
                       <<"uploaded", "available">>, <<"available", "deletion_pending">>}
                      \cup ({"uploading", "uploaded", "available"} \X {"failed"})
                      \cup ((States \ {"none", "deleted"}) \X {"deleted"})
                 /\ (was \in Completed /\ is \in {"failed", "deleted"}) => bytes'[m] = "none"
      ]_mediaVars

\* Bytes are erased only for a record that is terminal, or is due and not on hold;
\* or under an abort or a deletion that has the row, so that nobody can complete
\* or verify it meanwhile.  The exception is the stale sweep: it deletes the object
\* before its guarded transition (media_cleanup.py:236-246), also of a record that
\* was completed since it was listed.
BytesAreKept ==
    [][\A m \in Media :
         bytes[m] # "none" /\ bytes'[m] = "none" =>
           \/ State(m) \in {"failed", "deleted"}
           \/ State(m) = "deletion_pending" /\ m \notin Held
           \/ \E r \in Requests : /\ HoldsRow(r, m)
                                  /\ \/ txn[r].op = "abort" /\ State(m) = "uploading"
                                     \/ txn[r].op = "delete" /\ m \notin Held
           \/ \E w \in Workers : /\ worker[w].sweep = 2 /\ Now(w, "storage")
                                 /\ Item(w) = m
      ]_mediaVars

Older(m) == {n \in Media : <<n, m>> \in order /\ State(n) \in Reconcilable}

\* What the worker owes a record, as far as the batches of its sweeps reach: the end
\* of its upload; of a deletion that has begun, unless records on hold can fill a
\* batch (list_expired); a verdict on bytes that are missing, if fewer than a batch
\* of records are older, for the healthy ones among them are listed for ever
\* (list_for_reconciliation); and the removal of what is left of a terminal record
\* where the orphan sweep may and does look: in temporary/, among the first keys.
\* The leftovers of recordings and of every other category stay for good
\* (media_cleanup.py:20-23, 357-359).
Owed(m) ==
    \/ State(m) = "uploading"
    \/ State(m) = "deletion_pending" /\ Cardinality(Held) < BatchSize
    \/ /\ State(m) \in {"uploaded", "available"} /\ bytes[m] = "none"
       /\ Cardinality(Older(m)) < BatchSize
    \/ /\ State(m) \in {"failed", "deleted"} /\ bytes[m] # "none"
       /\ OrphanDeletion /\ m \in Temporary
       /\ Cardinality({n \in Temporary : n < m}) < BatchSize

\* Nothing that is owed to a record is left half way, whatever fails, crashes and
\* overlaps: the moment comes when nothing is.
EverythingIsSettled == \A m \in Media : Owed(m) ~> ~Owed(m)
=============================================================================
