------------------------- MODULE ConfigurationLifecycle -------------------------
(***************************************************************************)
(* The versions of one venue's configuration: draft, validate, publish     *)
(* (domain/configuration/service.py, repositories/configuration.py and     *)
(* the routes that commit).                                                *)
(*                                                                         *)
(* A request is one READ COMMITTED transaction and a step of it is one     *)
(* statement, or several that nothing can come between.  A version's       *)
(* content is kept in several tables that are read one after the other.    *)
(* Everything a transaction has written is in its record until it commits. *)
(* A request that is refused or raises is rolled back.                     *)
(***************************************************************************)
EXTENDS Naturals, FiniteSets

CONSTANTS
    Requests,     \* requests that can be under way at the same time
    MaxVersions,  \* bound: number of versions
    Entities,     \* profile ids of the cameras, zones, tables, ...
    NumTables,    \* entity tables, read in this order
    TableOf,      \* TableOf[e]: the table that keeps e
    Acceptable,   \* the contents the validation engine has no errors for
    NoResult,     \* no validation result is stored
    ResultStored  \* FALSE: the statement that stores a result raises

ASSUME ConfigurationAssumption ==
    /\ MaxVersions \in Nat \ {0}
    /\ NumTables \in Nat \ {0}
    /\ TableOf \in [Entities -> 1 .. NumTables]
    /\ Acceptable \subseteq SUBSET Entities
    /\ NoResult \notin SUBSET Entities
    /\ ResultStored \in BOOLEAN

VARIABLES
    version,    \* version[n]: the committed row with number n and its entities
    current,    \* current_published_version_id, 0 when null
    announced,  \* announced[n]: configuration.published rows in the outbox
    txn         \* txn[r]: the open transaction of request r

configVars == <<version, current, announced, txn>>

Numbers == 1 .. MaxVersions
Contents == SUBSET Entities

\* "validating" is never committed: one request starts and runs validation.
Version == [status   : {"none", "draft", "validated", "published"},
            content  : Contents,
            result   : Contents \cup {NoResult},  \* the revision it is about
            replaced : 0 .. MaxVersions]

NoVersion == [status |-> "none", content |-> {}, result |-> NoResult, replaced |-> 0]

Ops == {"none", "create", "clone", "edit", "validate", "publish"}

Txn == [op       : Ops,
        pc       : {"idle", "hydrate", "number", "insert", "commit", "compose", "reset",
                    "delete", "deleting", "replace", "mark", "decide", "check", "lock", "update"},
        number   : 0 .. MaxVersions,          \* the version it is about
        source   : 0 .. MaxVersions,          \* the version it clones
        table    : 1 .. NumTables,            \* the table it reads next
        content  : Contents,                  \* read so far, or to be written
        result   : Contents \cup {NoResult},  \* the result its row had
        doomed   : Contents,                  \* rows it deletes
        previous : 0 .. MaxVersions]          \* the pointer it read

Idle == [op |-> "none", pc |-> "idle", number |-> 0, source |-> 0, table |-> 1,
         content |-> {}, result |-> NoResult, doomed |-> {}, previous |-> 0]

Init == /\ version = [n \in Numbers |-> NoVersion]
        /\ current = 0
        /\ announced = [n \in Numbers |-> 0]
        /\ txn = [r \in Requests |-> Idle]

-----------------------------------------------------------------------------
Status(n) == version[n].status
Created == {n \in Numbers : Status(n) # "none"}
Published == {n \in Numbers : Status(n) = "published"}

\* What the state machine asks before an operation begins.
CanEdit(n) == Status(n) = "draft"
CanValidate(n) == Status(n) = "draft"
CanPublish(n) == Status(n) = "validated"

\* n is the highest number of S, or 0 when S is empty.
IsLatest(n, S) == IF S = {} THEN n = 0 ELSE n \in S /\ \A m \in S : m <= n

At(r, op, pc) == txn[r].op = op /\ txn[r].pc = pc

\* The row lock an UPDATE of version n takes and holds until it ends.
HoldsRow(q, n) ==
    /\ txn[q].number = n
    /\ \/ txn[q].op = "validate" /\ txn[q].pc \in {"hydrate", "decide"}
       \/ txn[q].op = "edit" /\ txn[q].result # NoResult
            /\ txn[q].pc \in {"delete", "deleting", "replace", "commit"}

RowFree(r, n) == \A q \in Requests \ {r} : ~HoldsRow(q, n)


Goto(r, pc) == txn' = [txn EXCEPT ![r].pc = pc]
End(r) == txn' = [txn EXCEPT ![r] = Idle]

\* A conflict, or a constraint of the database: the transaction rolls back.
Refuse(r) == End(r) /\ UNCHANGED <<version, current, announced>>

Begin(r, t) == /\ txn[r].pc = "idle"
               /\ txn' = [txn EXCEPT ![r] = t]
               /\ UNCHANGED <<version, current, announced>>

\* One table of the version's content.
Hydrate(r) ==
    LET t == txn[r]
        n == IF t.op = "clone" THEN t.source ELSE t.number
        after == CASE t.op = "clone"    -> "number"
                   [] t.op = "edit"     -> "compose"
                   [] t.op = "validate" -> "decide"
                   [] OTHER             -> "check"
        read == t.content \cup {e \in version[n].content : TableOf[e] = t.table}
    IN /\ t.pc = "hydrate"
       /\ txn' = [txn EXCEPT ![r] =
                    IF t.table < NumTables
                      THEN [t EXCEPT !.content = read, !.table = t.table + 1]
                      ELSE [t EXCEPT !.content = read, !.table = 1, !.pc = after]]
       /\ UNCHANGED <<version, current, announced>>

-----------------------------------------------------------------------------
(* Drafts.  The number is read without a lock; the unique key on it, and   *)
(* on the venue for the first draft, decides between two creators.         *)
NextNumber(k) == /\ k \in Numbers
                 /\ \E m \in 0 .. MaxVersions : IsLatest(m, Created) /\ k = m + 1

BeginCreate(r) ==
    \E k \in Numbers :
        /\ NextNumber(k)
        /\ Begin(r, [Idle EXCEPT !.op = "create", !.pc = "insert", !.number = k])

BeginClone(r, n) ==
    /\ n \in Created
    /\ Begin(r, [Idle EXCEPT !.op = "clone", !.pc = "hydrate", !.source = n])

\* Past the bound MaxVersions the clone is not followed any further.
Number(r) ==
    /\ At(r, "clone", "number")
    /\ IF MaxVersions \in Created
         THEN Refuse(r)
         ELSE /\ \E k \in Numbers :
                    /\ NextNumber(k)
                    /\ txn' = [txn EXCEPT ![r].pc = "insert", ![r].number = k]
              /\ UNCHANGED <<version, current, announced>>

Creating(q) == txn[q].op \in {"create", "clone"}

\* The foreign key of a new version shares the configuration row.
SharesConfiguration(q) == Creating(q) /\ txn[q].pc = "commit"

InsertVersion(r) ==
    LET n == txn[r].number IN
    /\ Creating(r) /\ txn[r].pc = "insert"
    /\ \A q \in Requests \ {r} : /\ SharesConfiguration(q) => txn[q].number # n
                                 /\ txn[q].pc # "update"
    /\ IF n \in Created
         THEN Refuse(r)
         ELSE Goto(r, "commit") /\ UNCHANGED <<version, current, announced>>

CommitVersion(r) ==
    /\ Creating(r) /\ txn[r].pc = "commit"
    /\ version' = [version EXCEPT ![txn[r].number] =
                     [NoVersion EXCEPT !.status = "draft", !.content = txn[r].content]]
    /\ End(r)
    /\ UNCHANGED <<current, announced>>

\* SELECT ... FOR UPDATE of the configuration row.
ConfigurationFree(r) ==
    \A q \in Requests \ {r} : txn[q].pc # "update" /\ ~SharesConfiguration(q)

-----------------------------------------------------------------------------
(* Edits.  The status is looked at once, on a row nobody locks.            *)
BeginEdit(r, n) ==
    /\ CanEdit(n)
    /\ Begin(r, [Idle EXCEPT !.op = "edit", !.pc = "hydrate", !.number = n,
                             !.result = version[n].result])

\* The request replaces some tables; a stored result is dropped.
Compose(r) ==
    /\ At(r, "edit", "compose")
    /\ \E t \in 1 .. NumTables, S \in Contents :
         /\ \A e \in S : TableOf[e] = t
         /\ txn' = [txn EXCEPT
                      ![r].content = {e \in txn[r].content : TableOf[e] # t} \cup S,
                      ![r].pc = IF txn[r].result # NoResult THEN "reset" ELSE "delete"]
    /\ UNCHANGED <<version, current, announced>>

\* The flush of validation_result = None: an UPDATE by key alone.
Reset(r) ==
    /\ At(r, "edit", "reset")
    /\ RowFree(r, txn[r].number)
    /\ Goto(r, "delete")
    /\ UNCHANGED <<version, current, announced>>

\* The DELETEs see the rows committed when they start ...
Delete(r) ==
    /\ At(r, "edit", "delete")
    /\ txn' = [txn EXCEPT ![r].pc = "deleting", ![r].doomed = version[txn[r].number].content]
    /\ UNCHANGED <<version, current, announced>>

EditsBeside(r) == {q \in Requests \ {r} : txn[q].op = "edit" /\ txn[q].number = txn[r].number}

\* ... and wait for whoever deletes the same rows.
Deleted(r) ==
    /\ At(r, "edit", "deleting")
    /\ \A q \in EditsBeside(r) :
         txn[q].pc \in {"replace", "commit"} => txn[q].doomed \cap txn[r].doomed = {}
    /\ Goto(r, "replace")
    /\ UNCHANGED <<version, current, announced>>

\* The INSERTs: a profile id is unique within a version.
Replace(r) ==
    LET t == txn[r] IN
    /\ At(r, "edit", "replace")
    /\ \A q \in EditsBeside(r) :
         /\ txn[q].pc = "commit" => txn[q].content \cap t.content = {}
         /\ txn[q].pc \in {"replace", "commit"} => txn[q].doomed \cap t.content = {}
    /\ IF t.content \cap (version[t.number].content \ t.doomed) # {}
         THEN Refuse(r)
         ELSE Goto(r, "commit") /\ UNCHANGED <<version, current, announced>>

\* Whoever waited for a deleted row finds it gone.
CommitEdit(r) ==
    LET t == txn[r]
        n == t.number
    IN /\ At(r, "edit", "commit")
       /\ version' = [version EXCEPT
                        ![n].content = (@ \ t.doomed) \cup t.content,
                        ![n].result = IF t.result # NoResult THEN NoResult ELSE @]
       /\ txn' = [q \in Requests |->
                    IF q = r THEN Idle
                    ELSE IF q \in EditsBeside(r) /\ txn[q].pc = "deleting"
                           THEN [txn[q] EXCEPT !.doomed = @ \ t.doomed]
                           ELSE txn[q]]
       /\ UNCHANGED <<current, announced>>

-----------------------------------------------------------------------------
(* Validation: draft to validating to validated or back, in one request.   *)
BeginValidate(r, n) ==
    /\ CanValidate(n)
    /\ Begin(r, [Idle EXCEPT !.op = "validate", !.pc = "mark", !.number = n])

\* Mutant of Mark: the UPDATE goes by key, trusting the status read before.
MarkByKey(r) ==
    /\ At(r, "validate", "mark")
    /\ RowFree(r, txn[r].number)
    /\ Goto(r, "hydrate")
    /\ UNCHANGED <<version, current, announced>>

\* Mutant of Mark: a validation that comes too late tries again.
MarkWhenDraft(r) == MarkByKey(r) /\ Status(txn[r].number) = "draft"

\* UPDATE ... WHERE status = 'draft' waits for the row, then looks again.
Mark(r) ==
    /\ At(r, "validate", "mark")
    /\ RowFree(r, txn[r].number)
    /\ IF Status(txn[r].number) = "draft"
         THEN Goto(r, "hydrate") /\ UNCHANGED <<version, current, announced>>
         ELSE Refuse(r)

\* values(validation_errors = ...) names a column the table does not have: as
\* long as that is so the statement raises and the validation is rolled back.
Decide(r) ==
    LET t == txn[r] IN
    /\ At(r, "validate", "decide")
    /\ version' = IF ResultStored
                    THEN [version EXCEPT
                            ![t.number].status =
                                IF t.content \in Acceptable THEN "validated" ELSE "draft",
                            ![t.number].result = t.content]
                    ELSE version
    /\ End(r)
    /\ UNCHANGED <<current, announced>>

-----------------------------------------------------------------------------
(* Publication.  A published version is answered without a change.         *)
BeginPublish(r, n) ==
    /\ CanPublish(n)
    /\ Begin(r, [Idle EXCEPT !.op = "publish", !.pc = "hydrate", !.number = n,
                             !.result = version[n].result])

\* The stored result is about what was just read, and has no errors.
Check(r) ==
    /\ At(r, "publish", "check")
    /\ IF txn[r].result = txn[r].content /\ txn[r].result \in Acceptable
         THEN Goto(r, "lock") /\ UNCHANGED <<version, current, announced>>
         ELSE Refuse(r)

\* Mutant of LockConfiguration: no look at newer publications.
LockOnly(r) ==
    /\ At(r, "publish", "lock")
    /\ ConfigurationFree(r)
    /\ txn' = [txn EXCEPT ![r].pc = "update", ![r].previous = current]
    /\ UNCHANGED <<version, current, announced>>

\* Under the lock the pointer is read and newer publications are looked for.
LockConfiguration(r) ==
    /\ At(r, "publish", "lock")
    /\ ConfigurationFree(r)
    /\ IF \E m \in Published : m > txn[r].number
         THEN Refuse(r)
         ELSE /\ txn' = [txn EXCEPT ![r].pc = "update", ![r].previous = current]
              /\ UNCHANGED <<version, current, announced>>

\* Version, pointer and outbox row, and the commit that shows them.
Publish(r) ==
    LET n == txn[r].number IN
    /\ At(r, "publish", "update")
    /\ RowFree(r, n)
    /\ IF Status(n) # "validated"
         THEN Refuse(r)
         ELSE /\ version' = [version EXCEPT ![n].status = "published",
                                            ![n].replaced = txn[r].previous]
              /\ current' = n
              /\ announced' = [announced EXCEPT ![n] = @ + 1]
              /\ End(r)
          
-----------------------------------------------------------------------------
\* The request is cancelled, the process dies or the connection breaks.
Abort(r) == txn[r].pc # "idle" /\ Refuse(r)

Arrive(r) == \/ BeginCreate(r)
             \/ \E n \in Numbers : \/ BeginClone(r, n)
                                   \/ BeginEdit(r, n)
                                   \/ BeginValidate(r, n)
                                   \/ BeginPublish(r, n)

\* Statements that may wait for another transaction.
Contend(r) == \/ InsertVersion(r) \/ Reset(r) \/ Deleted(r) \/ Replace(r)
              \/ Mark(r) \/ LockConfiguration(r) \/ Publish(r)

Proceed(r) == \/ Hydrate(r) \/ Number(r) \/ CommitVersion(r)
              \/ Compose(r) \/ Delete(r) \/ CommitEdit(r)
              \/ Decide(r) \/ Check(r)

Next == \E r \in Requests : Arrive(r) \/ Contend(r) \/ Proceed(r) \/ Abort(r)

\* Statements are carried out; the database serves a lock in order of arrival.
Fairness == \A r \in Requests : /\ WF_configVars(Proceed(r))
                                /\ SF_configVars(Contend(r))

Spec == Init /\ [][Next]_configVars /\ Fairness

-----------------------------------------------------------------------------
\* Every variable has its type, an idle request keeps nothing, and a version
\* that was validated or published once had a result that could be stored.
CfgTypeOK ==
    /\ version \in [Numbers -> Version]
    /\ current \in 0 .. MaxVersions
    /\ announced \in [Numbers -> Nat]
    /\ txn \in [Requests -> Txn]
    /\ \A r \in Requests : txn[r].pc = "idle" => txn[r] = Idle

\* The venue's pointer names the highest published version.
PointerIsLatest == IsLatest(current, Published)

\* The versions a publication replaced form one chain.
ReplacementChain ==
    \A n \in Published : IsLatest(version[n].replaced, {m \in Published : m < n})

\* A version is announced when it is published, once.
PublishedOnce == \A n \in Numbers : announced[n] = IF n \in Published THEN 1 ELSE 0

\* However publications of one version or of several overlap, they come out as if
\* one had followed the other: the pointer, the chain of replacements and what the
\* outbox announces agree (the lock and the guards at service.py:540-598).
PublicationsAreSerial == PointerIsLatest /\ ReplacementChain /\ PublishedOnce

\* A committed version moves from draft to validated to published and never
\* back, numbers are given out in sequence and never again, and only drafts
\* get a new validation result (state_machine.py, STATE-02, 05, 07, 14, 18).
FollowsLifecycle ==
    [][\A n \in Numbers :
         /\ version'[n].status # Status(n) =>
              <<Status(n), version'[n].status>> \in
                  {<<"none", "draft">>, <<"draft", "validated">>, <<"validated", "published">>}
         /\ (n \notin Created /\ n > 1 /\ version'[n].status # "none") => n - 1 \in Created
         /\ Status(n) = "published" => version'[n].replaced = version[n].replaced
         /\ version'[n].result \notin {version[n].result, NoResult} => Status(n) = "draft"
      ]_configVars

\* No request waits for a lock for ever (two edits, an edit and a validation,
\* a publication and a creation all wait for one another's rows).
EveryRequestEnds == \A r \in Requests : txn[r].pc # "idle" ~> txn[r].pc = "idle"
=============================================================================
