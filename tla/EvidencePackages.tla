--------------------------- MODULE EvidencePackages ----------------------------
(***************************************************************************)
(* The package that ties an artifact to its request (domain/evidence       *)
(* /package.py), the verification of its provenance against the rule event *)
(* (provenance.py), and the retention of the evidence (retention.py,       *)
(* domain/media/retention.py).                                             *)
(***************************************************************************)
EXTENDS EvidenceSources

CONSTANT Duration   \* days each retention class is kept; legal_hold has no end

-----------------------------------------------------------------------------
(* The package.                                                            *)

MustAgree == {"ref", "event", "from", "to"}
AgreeWherePresent == {"tenant", "venue", "session", "camera", "config", "rule", "version"}

\* A request speaks of its effective interval.
Asked(e) == [e EXCEPT !.from = Start(e), !.to = Stop(e)]

Completed == {"success", "partial"}

Refused(e, s, x) ==
    LET values(f) == {Asked(e)[f], s[f], x[f]}
    IN  \/ \E f \in MustAgree : Cardinality(values(f)) > 1
        \/ \E f \in AgreeWherePresent : Cardinality(values(f) \ {Nil}) > 1
        \/ x.status \in Completed /\ (x.path = Nil \/ x.checksum = Nil)

Package(e, s, x) ==
    [id |-> <<"package", e.ref, x.id, x.status>>,
     evidence |-> e, resolved |-> s, extraction |-> x, created |-> Nil]

-----------------------------------------------------------------------------
(* Provenance.                                                             *)

Identity(expected, actual) ==
    CASE expected = Nil \/ actual = Nil -> "missing"
      [] expected # Nil /\ actual # Nil /\ actual # expected -> "substituted"
      [] OTHER -> "verified"

\* An absent scope is spelled out and compared like any other.
Scope(expected, actual) == IF actual = expected THEN "verified" ELSE "substituted"

\* The asset of the request against the first recording that was resolved.
Source(p) ==
    LET parts == p.resolved.parts
        asset == p.evidence.asset
    IN  CASE asset = Nil -> IF parts = <<>> THEN "not_applicable" ELSE "missing"
          [] asset # Nil /\ parts # <<>> /\ asset # parts[1].asset -> "substituted"
          [] OTHER -> "verified"

\* An event without a camera cannot tell whose camera it was.
OfCamera(v, p) ==
    IF v.camera = Nil THEN "not_applicable" ELSE Identity(v.camera, p.evidence.camera)

EventTime(v, p) ==
    CASE p.extraction.to < p.extraction.from -> "inconsistent"
      [] p.extraction.to >= p.extraction.from
         /\ ~(p.extraction.from <= v.at /\ v.at <= p.extraction.to) -> "substituted"
      [] OTHER -> "verified"

\* Frame range and component versions: carried or not, but never compared with
\* anything but themselves.
Carried(value) == IF value = Nil THEN "not_applicable" ELSE "verified"

\* What a completed extraction has to have.
Needed(p, value) ==
    CASE p.extraction.status \notin Completed -> "not_applicable"
      [] p.extraction.status \in Completed /\ value = Nil -> "missing"
      [] OTHER -> "verified"

PackageIdentity(p) == IF p.created = Nil THEN "verified" ELSE "inconsistent"

RuleOf(r) == IF r.rule = Nil THEN Nil ELSE <<r.rule, r.version>>

Checks(v, p) ==
    LET e == p.evidence IN
    [event         |-> Identity(v.event, e.event),
     tenant        |-> Scope(v.tenant, e.tenant),
     venue         |-> Scope(v.venue, e.venue),
     source        |-> Source(p),
     session       |-> Identity(v.session, e.session),
     camera        |-> OfCamera(v, p),
     event_time    |-> EventTime(v, p),
     frame_range   |-> Carried(e.frames),
     detector      |-> Carried(e.detector),
     tracker       |-> Carried(e.tracker),
     configuration |-> Identity(v.config, e.config),
     rule          |-> Identity(RuleOf(v), RuleOf(e)),
     checksum      |-> Needed(p, p.extraction.checksum),
     stored        |-> Needed(p, p.extraction.path),
     package       |-> PackageIdentity(p)]

\* Mutant of Verified: only what is missing fails.
VerifiedUnlessMissing(v, p) ==
    \A link \in DOMAIN Checks(v, p) : Checks(v, p)[link] # "missing"

\* A link that does not apply does not pass either.
Verified(v, p) == \A link \in DOMAIN Checks(v, p) : Checks(v, p)[link] = "verified"

-----------------------------------------------------------------------------
(* Retention.                                                              *)

Held == "legal_hold"

DefaultClass == "evidence_365_days"

\* A class nobody knows is the default of evidence.
ResolveClass(class) == IF class \in DOMAIN Duration \cup {Held} THEN class ELSE DefaultClass

\* Mutant of IsProtected: the hold flag of the record is not looked at.
IsProtectedByClass(row) == ResolveClass(row.class) = Held

IsProtected(row) == ResolveClass(row.class) = Held \/ row.hold

Deadline(row) == row.created + Duration[ResolveClass(row.class)]

\* The deadline speaks louder than a deletion that was begun: it is due again.
Evaluate(row, now) ==
    CASE row.lifecycle = "deleted" -> "deleted"
      [] row.lifecycle # "deleted" /\ IsProtected(row) -> "preserved"
      [] OTHER -> IF now >= Deadline(row) THEN "expired"
                  ELSE IF row.lifecycle = "deletion_pending" THEN "deletion_pending"
                  ELSE "active"

AccessAllowed(row, now) == Evaluate(row, now) \in {"active", "preserved"}
-----------------------------------------------------------------------------
(* Authorization, against the scope of the row.                            *)

NeededPermission(operation) ==
    IF operation \in {"delete", "retention"} THEN "evidence_manage" ELSE "evidence_read"

InActorsScope(actor, e) ==
    /\ actor.tenant = e.tenant
    /\ actor.venues = {} \/ e.venue \in actor.venues

Entitled(actor, operation, e) ==
    actor.active /\ InActorsScope(actor, e) /\ NeededPermission(operation) \in actor.permissions
=============================================================================
