---------------------------- MODULE EvidenceSources ----------------------------
(***************************************************************************)
(* Which recordings an evidence request is about (domain/evidence          *)
(* /resolution.py) and what one extraction makes of them (extraction.py,   *)
(* infrastructure/evidence/object_storage_extractor.py).                   *)
(*                                                                         *)
(* A recording has an asset, which is a number in the order of asset ids,  *)
(* a scope, and the interval it covers; it is available for the resolver,  *)
(* stored in the bucket and sound, or not.  The bytes of an artifact are   *)
(* the recording they are cut from and the interval that was cut.          *)
(***************************************************************************)
EXTENDS Integers, Sequences, SequencesExt, ObjectStorage

CONSTANTS Nil,        \* None
          DayLength   \* instants of one day of the object layout

\* An instant is requested when the request has no interval.
Start(e) == IF e.from = Nil THEN e.at ELSE e.from
Stop(e)  == IF e.to = Nil THEN e.at ELSE e.to

\* Both limits are included.
Overlaps(rec, from, to) == Min({rec.to, to}) >= Max({rec.from, from})

-----------------------------------------------------------------------------
(* Resolution.                                                             *)

InScope(e, rec) == rec.tenant = e.tenant /\ rec.venue = e.venue

\* One recording of somebody else among the candidates ends the resolution.
Authorized(e, recs) ==
    /\ e.tenant # Nil /\ e.venue # Nil
    /\ \A rec \in recs : InScope(e, rec)

HasIdentity(e) == e.asset # Nil \/ e.camera # Nil \/ e.session # Nil

IdentityMatches(e, rec) ==
    /\ e.asset \in {Nil, rec.asset}
    /\ e.camera \in {Nil, rec.camera}
    /\ e.session \in {Nil, rec.session}

Clipped(rec, from, to) ==
    [rec EXCEPT !.from = Max({@, from}), !.to = Min({@, to})]

Earlier(a, b) == a.from < b.from \/ (a.from = b.from /\ a.asset < b.asset)

\* A part that ends where the coverage already does adds nothing, unless it is
\* the first: then it counts, however short it is.
Extend(cover, rec) ==
    IF rec.to <= cover.cursor /\ cover.parts # <<>> THEN cover
    ELSE [parts  |-> Append(cover.parts, [asset |-> rec.asset, camera |-> rec.camera,
                                          from |-> Max({rec.from, cover.cursor}),
                                          to |-> rec.to]),
          cursor |-> Max({cover.cursor, rec.to})]

\* The recordings one after the other.
Chronicle(recs) ==
    CHOOSE list \in [1 .. Cardinality(recs) -> recs] :
        \A i, j \in DOMAIN list : i < j => Earlier(list[i], list[j])

Cover(recs, from, to) ==
    LET clipped == {Clipped(rec, from, to) : rec \in {q \in recs : Overlaps(q, from, to)}}
    IN  FoldLeft(Extend, [parts |-> <<>>, cursor |-> from], Chronicle(clipped)).parts

Full(parts, from, to) ==
    /\ parts[1].from <= from /\ parts[Len(parts)].to >= to
    /\ \A i \in 2..Len(parts) : parts[i].from <= parts[i - 1].to

\* The camera of the first recording stands in for a request without one.
Outcome(e, status, parts) ==
    [status |-> status, ref |-> e.ref, event |-> e.event, tenant |-> e.tenant,
     venue |-> e.venue, session |-> e.session, config |-> e.config, rule |-> e.rule,
     version |-> e.version, from |-> Start(e), to |-> Stop(e), parts |-> parts,
     camera |-> IF e.camera = Nil /\ parts # <<>> THEN parts[1].camera ELSE e.camera]

Resolve(e, recs) ==
    LET matching == {rec \in recs : IdentityMatches(e, rec) /\ rec.available}
        parts == Cover(matching, Start(e), Stop(e))
    IN  CASE ~Authorized(e, recs) -> Outcome(e, "authorization_failure", <<>>)
          [] Authorized(e, recs) /\ (~HasIdentity(e) \/ parts = <<>>) ->
               Outcome(e, "source_not_found", <<>>)
          [] OTHER ->
               IF Full(parts, Start(e), Stop(e)) THEN Outcome(e, "resolved", parts)
               ELSE IF Start(e) = Stop(e) THEN Outcome(e, "source_not_found", <<>>)
               ELSE Outcome(e, "partial_coverage", parts)

-----------------------------------------------------------------------------
(* Extraction: only the first recording is opened.                         *)

\* Mutant of ExtractionId: a retry keeps the identity of the first attempt.
ExtractionIdOfRequest(s) == <<"extraction", s.ref, Nil, s.from, s.to>>

\* The identity of an artifact: the request, the first asset, the interval asked
\* for; not what was cut in the end.
ExtractionId(s) ==
    <<"extraction", s.ref, IF s.parts = <<>> THEN Nil ELSE s.parts[1].asset, s.from, s.to>>

Wanted(s) ==
    IF s.status = "partial_coverage"
    THEN [from |-> s.parts[1].from, to |-> s.parts[Len(s.parts)].to]
    ELSE [from |-> s.from, to |-> s.to]

\* The media processor, a port: it cuts what the recording has of the interval.
Cut(rec, wanted) ==
    [asset |-> rec.asset, whole |-> TRUE,
     from |-> Max({rec.from, wanted.from}), to |-> Min({rec.to, wanted.to})]

Day(t) == t \div DayLength

EvidenceKey(s, bytes) ==
    ObjectKey(s.tenant, s.venue, "evidence", ExtractionId(s), Day(bytes.from))

\* Mutant of IsPartial: what was cut is not compared with what was asked for.
IsPartialByCoverage(s, bytes) == s.status = "partial_coverage"

IsPartial(s, bytes) ==
    \/ s.status = "partial_coverage"
    \/ bytes.from > Wanted(s).from \/ bytes.to < Wanted(s).to

\* The end of an extraction, with the scope of what was resolved.
Result(s, status, key, bytes) ==
    [id |-> ExtractionId(s), status |-> status, ref |-> s.ref, event |-> s.event,
     tenant |-> s.tenant, venue |-> s.venue, session |-> s.session,
     camera |-> s.camera, config |-> s.config, rule |-> s.rule, version |-> s.version,
     from |-> s.from, to |-> s.to, path |-> key, checksum |-> bytes]

Extracted(s, bytes) ==
    Result(s, IF IsPartial(s, bytes) THEN "partial" ELSE "success",
           EvidenceKey(s, bytes), bytes)

\* What reading the first recording comes to.  The locator and the processor are
\* ports: a recording is readable when its object is still in the bucket.
Reading(s, recs) ==
    LET found == {rec \in recs : s.parts # <<>> /\ rec.asset = s.parts[1].asset /\ rec.stored}
    IN  IF found = {} THEN "source_not_found"
        ELSE LET rec == CHOOSE q \in found : TRUE
                 cut == Cut(rec, Wanted(s))
             IN  CASE ~rec.sound -> "corrupt_source"
                   [] rec.sound /\ s.from # s.to /\ cut.from >= cut.to -> "empty"
                   [] OTHER -> "ok"
=============================================================================
