--------------------------- MODULE EvidenceArtifacts ---------------------------
(***************************************************************************)
(* What becomes of the bytes: evidence workers resolve a request, extract  *)
(* and upload an artifact, checkpoint it and finalize its package          *)
(* (workers/evidence.py), recordings come and go meanwhile, and retention  *)
(* deletes what is due (application/services/evidence_retention.py).       *)
(*                                                                         *)
(* Leases and backoff are the subject of module EvidenceWork: here a lease *)
(* is over when its owner is gone or, as a fault, at any moment, and a     *)
(* retry is due at once.  As there, the store keeps the protocol.          *)
(***************************************************************************)
EXTENDS EvidencePackages

CONSTANTS
    Workers,      \* evidence workers
    Requests,     \* the evidence request of each ref
    RuleEvent,    \* the rule event of each ref
    Recordings,   \* recordings that may be registered: asset, scope, interval, and
                  \* as a bound what may become of it (fate)
    Terms,        \* retention terms the rows may be under: class named and hold of each
    Actors,       \* who may ask for a deletion
    MaxTries,     \* EVIDENCE_WORKER_MAX_ATTEMPTS
    MaxDays,      \* bound: days
    MaxSetbacks   \* bound: crashes, overrun leases, storage and database errors

Requested == DOMAIN Requests

ASSUME ArtifactsAssumption ==
    /\ MaxTries \in Nat \ {0} /\ {MaxDays, MaxSetbacks} \subseteq Nat
    /\ DOMAIN RuleEvent = Requested /\ Nil \notin Workers \cup Requested
    /\ \A r \in Requested : Requests[r].ref = r
    /\ Duration \in [DOMAIN Duration -> Nat] /\ DefaultClass \in DOMAIN Duration
    /\ Held \notin DOMAIN Duration

\* An asset is one recording.
ASSUME RecordingsAssumption ==
    /\ IsFiniteSet(Recordings)
    /\ \A rec \in Recordings : {rec.asset, rec.from, rec.to} \subseteq Int
    /\ \A rec, other \in Recordings : rec.asset = other.asset => rec = other
    /\ \A r \in Requested : {Start(Requests[r]), Stop(Requests[r])} \subseteq Int

\* An event has one request (link), with the links of the event or without, and
\* for a window the event lies in (link_event, with the scope of the envelope).
ASSUME LinksAssumption ==
    /\ \A r \in Requested :
         LET e == Requests[r]
             v == RuleEvent[r]
         IN  /\ e.event = v.event /\ e.event # Nil
             /\ e.tenant = v.tenant /\ e.venue = v.venue
             /\ e.session \in {Nil, v.session} /\ e.camera \in {Nil, v.camera}
             /\ e.config \in {Nil, v.config}
             /\ e.rule # Nil => RuleOf(e) = RuleOf(v) /\ RuleOf(e) # Nil
             /\ v.at \in Start(e) .. Stop(e)
    /\ \A r, q \in Requested : Requests[r].event = Requests[q].event => r = q

VARIABLES
    media,    \* how each recording is registered and stored
    bucket,   \* the evidence objects
    rows,     \* the rows of evidence_refs
    work,     \* what each worker has in hand
    sweep,    \* the deletion under way: its row, and whether the object is gone
    uploads,  \* history: what was written under which key
    spoiled,  \* history: keys at which a put of a worker that lost its row failed
    today,
    setbacks  \* setbacks so far, for the bound only

artifactVars == <<media, bucket, rows, work, sweep, uploads, spoiled, today, setbacks>>

Idle == [pc |-> "idle", ref |-> Nil, segment |-> Nil, artifact |-> Nil]

NoSweep == [ref |-> Nil, gone |-> FALSE]

ArtifactsInit ==
    /\ media = [rec \in Recordings |-> "absent"]
    /\ bucket = << >>
    /\ \E term \in Terms :
         rows = [r \in Requested |-> [state |-> "queued", owner |-> Nil, attempts |-> 0,
                                recovery |-> Nil, package |-> Nil, lifecycle |-> "active",
                                class |-> term[r].class, hold |-> term[r].hold, created |-> 0]]
    /\ work = [w \in Workers |-> Idle]
    /\ sweep = NoSweep
    /\ uploads = {} /\ spoiled = {}
    /\ today = 0 /\ setbacks = 0

Setback == setbacks < MaxSetbacks /\ setbacks' = setbacks + 1

-----------------------------------------------------------------------------
(* Recordings, from outside: registered sound or not, erased from the      *)
(* bucket, then marked as such.                                            *)

Record(rec, how) ==
    /\ media[rec] = "absent" /\ how \in rec.fate
    /\ media' = [media EXCEPT ![rec] = how]
    /\ UNCHANGED <<bucket, rows, work, sweep, uploads, spoiled, today, setbacks>>

Expire(rec) ==
    /\ media[rec] \in {"sound", "erased"} /\ "expired" \in rec.fate
    /\ media' = [media EXCEPT ![rec] = IF @ = "sound" THEN "erased" ELSE "expired"]
    /\ UNCHANGED <<bucket, rows, work, sweep, uploads, spoiled, today, setbacks>>

\* A candidate as the provider, a port, describes it.
Candidate(rec) ==
    [asset |-> rec.asset, tenant |-> rec.tenant, venue |-> rec.venue,
     camera |-> rec.camera, session |-> rec.session, from |-> rec.from, to |-> rec.to,
     available |-> media[rec] # "expired",
     stored |-> media[rec] \in {"sound", "corrupt"}, sound |-> media[rec] # "corrupt"]

Registered == {Candidate(rec) : rec \in {q \in Recordings : media[q] # "absent"}}

-----------------------------------------------------------------------------
(* One row through a worker.                                               *)

Owned(w, r, state) == rows[r].state = state /\ rows[r].owner = w

\* A guarded write that finds the row in other hands changes nothing.
Write(w, r, state, new) ==
    rows' = IF Owned(w, r, state) THEN [rows EXCEPT ![r] = new] ELSE rows

Drop(w) == work' = [work EXCEPT ![w] = Idle]

Bury(w, r, state) == Write(w, r, state, [rows[r] EXCEPT !.state = "terminal_failure"])

\* The retry is due at once; the last attempt is not retried.
Retry(w, r) ==
    IF rows[r].attempts >= MaxTries THEN Bury(w, r, "extracting")
    ELSE Write(w, r, "extracting", [rows[r] EXCEPT !.state = "queued"])

Claim(w, r) ==
    /\ work[w] = Idle
    /\ rows[r].state = "queued"
    /\ rows' = [rows EXCEPT ![r].state = "extracting", ![r].owner = w, ![r].attempts = @ + 1]
    /\ work' = [work EXCEPT ![w] = [@ EXCEPT !.pc = "resolve", !.ref = r]]
    /\ UNCHANGED <<media, bucket, sweep, uploads, spoiled, today, setbacks>>

\* The provider scopes its candidates, or does not.
ResolveSource(w) ==
    LET r == work[w].ref IN
    /\ work[w].pc = "resolve"
    /\ \E recs \in {Registered, {rec \in Registered : InScope(Requests[r], rec)}} :
         LET s == Resolve(Requests[r], recs)
         IN  IF s.status \in {"authorization_failure", "source_not_found"}
             THEN Bury(w, r, "extracting") /\ Drop(w)
             ELSE /\ work' = [work EXCEPT ![w].pc = "extract", ![w].segment = s]
                  /\ UNCHANGED rows
    /\ UNCHANGED <<media, bucket, sweep, uploads, spoiled, today, setbacks>>

ExtractArtifact(w) ==
    LET r == work[w].ref
        s == work[w].segment
        outcome == Reading(s, Registered)
        rec == CHOOSE q \in Recordings : q.asset = s.parts[1].asset
    IN  /\ work[w].pc = "extract"
        /\ CASE outcome \in {"source_not_found", "corrupt_source"} ->
                  Bury(w, r, "extracting") /\ Drop(w)
             [] outcome = "empty" -> Retry(w, r) /\ Drop(w)
             [] OTHER -> /\ work' = [work EXCEPT ![w].pc = "put",
                                       ![w].artifact = Extracted(s, Cut(rec, Wanted(s)))]
                         /\ UNCHANGED rows
        /\ UNCHANGED <<media, bucket, sweep, uploads, spoiled, today, setbacks>>

\* The upload: what storage did not confirm is retried, with whatever it left.
Put(w) ==
    LET r == work[w].ref
        x == work[w].artifact
    IN  /\ work[w].pc = "put"
        /\ uploads' = uploads \cup {<<x.path, x.checksum>>}
        /\ \E answer \in PutReplies(bucket, x.path, x.checksum) :
            /\ bucket' = answer.bucket
            /\ IF answer.reply = "stored"
               THEN /\ work' = [work EXCEPT ![w].pc = "checkpoint"]
                    /\ UNCHANGED <<rows, spoiled, setbacks>>
               ELSE /\ Setback /\ Retry(w, r) /\ Drop(w)
                    /\ spoiled' = IF Owned(w, r, "extracting") THEN spoiled
                                  ELSE spoiled \cup {x.path}
        /\ UNCHANGED <<media, sweep, today>>

\* EXTRACTING to UPLOADING, with the recovery record.
CheckpointArtifact(w) ==
    LET r == work[w].ref IN
    /\ work[w].pc = "checkpoint"
    /\ Write(w, r, "extracting",
             [rows[r] EXCEPT !.state = "uploading",
                             !.recovery = [segment |-> work[w].segment,
                                           artifact |-> work[w].artifact]])
    /\ IF Owned(w, r, "extracting") THEN work' = [work EXCEPT ![w].pc = "finalize"] ELSE Drop(w)
    /\ UNCHANGED <<media, bucket, sweep, uploads, spoiled, today, setbacks>>

\* A package that contradicts itself is refused for good.
Finalized(w, r, s, x) ==
    IF Refused(Requests[r], s, x)
    THEN [rows[r] EXCEPT !.owner = w, !.state = "terminal_failure"]
    ELSE [rows[r] EXCEPT !.owner = w, !.state = "finalized",
                         !.package = Package(Requests[r], s, x)]

FinalizeArtifact(w) ==
    LET r == work[w].ref IN
    /\ work[w].pc = "finalize"
    /\ Write(w, r, "uploading", Finalized(w, r, work[w].segment, work[w].artifact))
    /\ Drop(w)
    /\ UNCHANGED <<media, bucket, sweep, uploads, spoiled, today, setbacks>>

-----------------------------------------------------------------------------
(* What goes wrong.                                                        *)

\* A failing lookup, read or transaction: a retry, or the row is left to its
\* lease.
Fails(w) ==
    /\ work[w].pc # "idle" /\ Setback
    /\ \/ work[w].pc \in {"resolve", "extract"} /\ Retry(w, work[w].ref)
       \/ UNCHANGED rows
    /\ Drop(w)
    /\ UNCHANGED <<media, bucket, sweep, uploads, spoiled, today>>

\* Another worker takes over: an extraction starts again, an upload is finalized
\* from its checkpoint.  Its owner at work, the lease has run out on it.
TakeOver(w, r) ==
    /\ work[w] = Idle
    /\ rows[r].state \in {"extracting", "uploading"}
    /\ IF work[rows[r].owner].ref = r THEN Setback ELSE UNCHANGED setbacks
    /\ rows' = [rows EXCEPT ![r] =
                  IF @.state = "extracting" THEN [@ EXCEPT !.state = "queued", !.owner = w]
                  ELSE Finalized(w, r, @.recovery.segment, @.recovery.artifact)]
    /\ UNCHANGED <<media, bucket, work, sweep, uploads, spoiled, today>>

-----------------------------------------------------------------------------
(* Retention.  Its caller, which src does not have, is taken to pass rows  *)
(* at rest, and commits what the service has written on the row.           *)

\* What is deleted is the uri of the request: it names no object of the layout.
RefUri(r) == ObjectKey(Requests[r].tenant, Requests[r].session, "rule", Requests[r].rule, Nil)

BeginDeletion(r) ==
    /\ sweep = NoSweep
    /\ rows[r].state \in {"finalized", "terminal_failure"}
    /\ \E actor \in Actors : Entitled(actor, "delete", Requests[r])
    /\ Evaluate(rows[r], today) = "expired"
    /\ sweep' = [ref |-> r, gone |-> FALSE]
    /\ UNCHANGED <<media, bucket, rows, work, uploads, spoiled, today, setbacks>>

DeleteObject ==
    /\ sweep.ref # Nil /\ ~sweep.gone
    /\ bucket' = Deleted(bucket, RefUri(sweep.ref))
    /\ sweep' = [sweep EXCEPT !.gone = TRUE]
    /\ UNCHANGED <<media, rows, work, uploads, spoiled, today, setbacks>>

\* The commit of the caller: deleted, or still pending after a storage error.
EndDeletion ==
    /\ sweep.ref # Nil
    /\ IF sweep.gone THEN UNCHANGED setbacks ELSE Setback
    /\ rows' = [rows EXCEPT ![sweep.ref].lifecycle =
                  IF sweep.gone THEN "deleted" ELSE "deletion_pending"]
    /\ sweep' = NoSweep
    /\ UNCHANGED <<media, bucket, work, uploads, spoiled, today>>

\* The process dies before the commit.
SweepDies ==
    /\ sweep.ref # Nil /\ Setback
    /\ sweep' = NoSweep
    /\ UNCHANGED <<media, bucket, rows, work, uploads, spoiled, today>>

\* A day is long for a worker: rows are at rest when it ends.
Tomorrow ==
    /\ today < MaxDays
    /\ \A r \in Requested : rows[r].state \in {"finalized", "terminal_failure"}
    /\ \A w \in Workers : work[w] = Idle
    /\ today' = today + 1
    /\ UNCHANGED <<media, bucket, rows, work, sweep, uploads, spoiled, setbacks>>

-----------------------------------------------------------------------------
WorkerStep(w) ==
    \/ \E r \in Requested : Claim(w, r) \/ TakeOver(w, r)
    \/ ResolveSource(w) \/ ExtractArtifact(w) \/ Put(w) \/ CheckpointArtifact(w) \/ FinalizeArtifact(w) \/ Fails(w)

ArtifactsNext ==
    \/ \E rec \in Recordings : Expire(rec) \/ \E how \in {"sound", "corrupt"} : Record(rec, how)
    \/ \E w \in Workers : WorkerStep(w)
    \/ \E r \in Requested : BeginDeletion(r)
    \/ DeleteObject \/ EndDeletion \/ SweepDies \/ Tomorrow

ArtifactsSpec == ArtifactsInit /\ [][ArtifactsNext]_artifactVars

-----------------------------------------------------------------------------
(* Properties.                                                             *)

\* Two uploads under one key carry the same bytes, whichever attempt, worker and
\* recordings they came from: a late upload of a worker that has lost its row
\* cannot replace the artifact of a package by another (deterministic_extraction_id,
\* build_evidence_key).
KeyDeterminesBytes ==
    \A u, v \in uploads : u[1] = v[1] => u[2] = v[2]

Packages == {rows[r].package : r \in {q \in Requested : rows[q].state = "finalized"}}

\* A package that says "success" holds every instant that was asked for, of a
\* recording in the scope of the request and with every identity it names, also
\* when the interval is covered by several recordings and only one was cut.
SuccessCoversRequest ==
    \A p \in Packages :
        LET e == p.evidence
            bytes == p.extraction.checksum
            rec == CHOOSE q \in Recordings : q.asset = bytes.asset
        IN  /\ e.asset \in {Nil, rec.asset} /\ e.camera \in {Nil, rec.camera}
            /\ e.session \in {Nil, rec.session} /\ InScope(e, rec)
            /\ p.extraction.status = "success" =>
                 bytes.from <= Start(e) /\ bytes.to >= Stop(e)

\* Evidence that retention still makes accessible (assert_signed_url_allowed) has its
\* bytes, whole, under the key its package names, after crashes, failed puts and
\* takeovers and whatever other rows the retention has deleted.  Nothing is asked of
\* a row whose retention is over: its bytes may be there or gone.  Only a put of a
\* worker that no longer owned the row, and that storage refused, can take away
\* bytes that are still accessible.
AccessibleHasItsBytes ==
    \A r \in Requested :
        rows[r].state = "finalized" /\ AccessAllowed(rows[r], today) =>
            LET x == rows[r].package.extraction
            IN  \/ Has(bucket, x.path) /\ bucket[x.path] = x.checksum
                \/ x.path \in spoiled

\* Optional links a request may lack: without one its package never verifies.
Complete(e) == Nil \notin {e[f] : f \in {"asset", "camera", "session", "config", "rule",
                                         "frames", "detector", "tracker"}}

\* A package verifies for the rule event it was requested for, and for no other
\* event; and it does if and only if the request carries every link.
VerifiesItsEventOnly ==
    \A r, q \in Requested :
        rows[r].state = "finalized" =>
            (Verified(RuleEvent[q], rows[r].package) <=> q = r /\ Complete(Requests[r]))

\* Whatever a deletion was begun for is past its deadline, was never on hold and
\* is no longer accessible, whatever class name the row carries and however often
\* storage failed in between (EvidenceRetentionPolicy.evaluate).
DeletionIsDue ==
    \A r \in Requested :
        sweep.ref = r \/ rows[r].lifecycle # "active" =>
            /\ rows[r].class # Held /\ ~rows[r].hold
            /\ today >= rows[r].created + Duration[ResolveClass(rows[r].class)]
            /\ ~AccessAllowed(rows[r], today)
=============================================================================
