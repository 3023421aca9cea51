------------------------------ MODULE RuleEngine ------------------------------
(***************************************************************************)
(* The rule registry, the evaluation engine and the evidence request       *)
(* builder (registry.py, evaluator.py, engine.py, bootstrap.py,            *)
(* evidence_request.py).  The registry is the set of definitions; what     *)
(* raises a RuleError answers an error in its place.                       *)
(***************************************************************************)
EXTENDS RuleEvaluators

-----------------------------------------------------------------------------
(* The registry.                                                           *)

Registered(registry, id, version) ==
    {r \in registry : r.id = id /\ r.version = version}

\* What the registry accepts: no second definition of an identity, and none
\* that an unknown evaluator or another engine would interpret.
Registrable(registry, r, evaluators) ==
    /\ r.facts # {}
    /\ r.deterministic = EngineVersion
    /\ r.evaluator \in evaluators
    /\ Registered(registry, r.id, r.version) = {}

Resolve(registry, id, version) ==
    IF Registered(registry, id, version) # {}
    THEN [error |-> None, rule |-> CHOOSE r \in Registered(registry, id, version) : TRUE]
    ELSE [error |-> IF \E r \in registry : r.id = id
                    THEN "unsupported_version" ELSE "unknown_rule", rule |-> None]

\* An error of the input is not the absence of one.
ASSUME InputErrorAssumption ==
    None \notin {"version_mismatch", "missing_configuration", "unsupported_fact", "mixed_scope"}

\* What an input is rejected for, None when for nothing.
InputError(rule, inp) ==
    IF inp.version # rule.version THEN "version_mismatch"
    ELSE IF ~(rule.requires \subseteq DOMAIN inp.configuration) THEN "missing_configuration"
    ELSE IF \E i \in DOMAIN inp.facts : inp.facts[i].type \notin rule.facts
         THEN "unsupported_fact"
    ELSE IF \E i \in DOMAIN inp.facts : inp.facts[i].key.session # inp.facts[1].key.session
         THEN "mixed_scope"
    ELSE None

\* The evaluators and definitions of build_operational_registries.
OperationalRules ==
    {OccupancySessionRule("v1"), DwellThresholdRule("v1"), QueueCandidateRule("v1"),
     QueueCandidateRule2, ServiceGapRule("v1"), TurnoverDelayRule("v1"),
     DataQualityRule("v1")}

OperationalEvaluators == {r.evaluator : r \in OperationalRules}

-----------------------------------------------------------------------------
(* The engine.                                                             *)

\* A result that is passed on: a match has the event the input determines.
ValidResult(rule, inp, result) ==
    IF result.status # "match" THEN result.event = None
    ELSE /\ result.event.type = rule.type
         /\ result.event.id = EventId(rule, inp)
         /\ result.event.time = inp.time

\* A rule that requires evidence gets a request when its evaluator made none.
ApplyEvidencePolicy(rule, inp, result) ==
    IF result.status = "match" /\ rule.evidence = "required" /\ result.evidence = {}
    THEN [result EXCEPT !.evidence =
            {EvidenceId(result.event.id, inp.facts[1].key.session)}]
    ELSE result

Error(error) == [status |-> "error", event |-> None, evidence |-> {}, error |-> error]

EngineEvaluate(registry, id, version, inp) ==
    LET found == Resolve(registry, id, version)
        rule  == found.rule
    IN  IF found.error # None THEN Error(found.error)
        ELSE IF InputError(rule, inp) # None THEN Error(InputError(rule, inp))
        ELSE IF ~ValidResult(rule, inp, Evaluate(rule, inp)) THEN Error("invalid_evaluation")
        ELSE ApplyEvidencePolicy(rule, inp, Evaluate(rule, inp))

-----------------------------------------------------------------------------
(* Evidence requests, built from the event alone.                          *)

Params(session, camera) ==
    [session |-> session, camera |-> camera, asset |-> None, start |-> None, end |-> None]

ScopeFromEnvelope(event) == Params(event.key.session, event.key.camera)

\* The payloads that begin some time before the event carry when.
IntervalStart(event) == IF event.rule = "data_quality" THEN event.time ELSE event.from

Or(x, y) == IF x # None THEN x ELSE y

\* Mutant of BuildRequest: an id of the source, not of the session.
BuildRequestOfSource(event, params) ==
    LET start  == Or(params.start, IntervalStart(event))
        end    == Or(params.end, event.time)
        camera == Or(params.camera, event.key.camera)
    IN  {[id |-> EvidenceId(event.id, event.rule), event |-> event.id, start |-> start,
          end |-> end, camera |-> camera, session |-> event.key.session]}

\* The request, and none when it is rejected: for another scope, a window that
\* ends before it starts, or neither a camera nor an asset to take the clip from.
BuildRequest(event, params) ==
    LET start  == Or(params.start, IntervalStart(event))
        end    == Or(params.end, event.time)
        camera == Or(params.camera, event.key.camera)
    IN  IF \/ params.session # event.key.session
           \/ params.camera # None /\ event.key.camera # None /\ params.camera # event.key.camera
           \/ end < start
           \/ camera = None /\ params.asset = None
        THEN {}
        ELSE {[id |-> EvidenceId(event.id, event.key.session), event |-> event.id,
               start |-> start, end |-> end, camera |-> camera,
               session |-> event.key.session]}

\* link_event of the linkage service.
LinkEvent(event) == BuildRequest(event, ScopeFromEnvelope(event))
=============================================================================
