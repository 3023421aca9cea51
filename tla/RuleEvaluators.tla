---------------------------- MODULE RuleEvaluators ----------------------------
(***************************************************************************)
(* The rules of intelligence/rules: their definitions and evaluators.  An  *)
(* evaluator is a function of a definition and an input, the primary fact  *)
(* of which is the first; it answers invalid, no_match, or a match with    *)
(* one event.  A configuration maps keys to numbers or to sets of context  *)
(* ids; what is neither is Bad.                                            *)
(***************************************************************************)
EXTENDS TemporalIntervals, SequencesExt

CONSTANT Bad    \* a configuration value of no use

-----------------------------------------------------------------------------
(* Definitions.                                                            *)

Definition(id, version, facts, requires, evidence, cooldown) ==
    [id |-> id, version |-> version, facts |-> facts, requires |-> requires,
     evaluator |-> <<id, version>>, type |-> id, evidence |-> evidence,
     cooldown |-> cooldown, deterministic |-> EngineVersion]

OccupancySessionRule(v) ==
    Definition("occupancy_session", v, {"occupancy_snapshot"}, {}, "required", 0)

DwellThresholdRule(v) ==
    Definition("dwell_threshold", v, {"dwell_interval"},
               {"dwell_threshold_seconds"}, "required", 0)

QueueCandidateRule(v) ==
    Definition("queue_candidate", v, {"waiting_interval"},
               {"waiting_qualification_seconds", "queue_area_ids"}, "required", 60)

QueueCandidateRule2 ==
    Definition("queue_candidate", "v2", {"waiting_interval", "occupancy_snapshot"},
               {"waiting_qualification_seconds", "queue_area_ids", "queue_max_length"},
               "required", 120)

ServiceGapRule(v) ==
    Definition("service_gap_candidate", v, {"waiting_interval"},
               {"service_gap_grace_seconds", "service_area_ids"}, "required", 0)

TurnoverDelayRule(v) ==
    Definition("turnover_delay", v, {"dwell_interval", "occupancy_snapshot"},
               {"turnover_delay_seconds", "service_window_seconds"}, "required", 300)

FactTypes == {"temporal_transition", "dwell_interval", "occupancy_snapshot",
              "movement_measurement", "movement_classification_transition",
              "waiting_interval"}

DataQualityRule(v) ==
    Definition("data_quality", v, FactTypes, {"known_spatial_contexts"}, "optional", 0)

-----------------------------------------------------------------------------
(* Inputs, results and events.                                             *)

Input(facts, configuration, cfg, version, t, processed) ==
    [facts |-> facts, configuration |-> configuration, cfg |-> cfg,
     version |-> version, time |-> t, processed |-> processed]

Invalid == [status |-> "invalid", event |-> None, evidence |-> {}]
NoMatch == [status |-> "no_match", event |-> None, evidence |-> {}]

\* Mutants of EventId: one with the processing time, one without the version.
EventIdProcessed(rule, inp) ==
    LET key == inp.facts[1].key
    IN  <<key.session, key.camera, key.track, key.context,
          rule.id, rule.version, rule.type, inp.time, inp.cfg, inp.processed>>
EventIdUnversioned(rule, inp) ==
    LET key == inp.facts[1].key
    IN  <<key.session, key.camera, key.track, key.context,
          rule.id, rule.type, inp.time, inp.cfg>>

\* deterministic_event_id: the scope of the primary fact, the rule and the time.
EventId(rule, inp) ==
    LET key == inp.facts[1].key
    IN  <<key.session, key.camera, key.track, key.context,
          rule.id, rule.version, rule.type, inp.time, inp.cfg>>

\* deterministic_evidence_ref, which the EvidenceRequestBuilder derives again.
EvidenceId(event, session) == <<"rule_evidence", event, session>>

\* The EventEnvelope: body is what is special to the payload of a rule.
Event(rule, inp, from, body) ==
    [id |-> EventId(rule, inp), type |-> rule.type, rule |-> rule.id,
     version |-> rule.version, time |-> inp.time,
     produced |-> IF inp.processed = None THEN inp.time ELSE inp.processed,
     key |-> inp.facts[1].key, cfg |-> inp.cfg, from |-> from, body |-> body]

Match(event) == [status |-> "match", event |-> event, evidence |-> {}]

\* A number of seconds that must be positive, None when it is not.  The mutant
\* takes a zero for one.
PositiveOrZero(inp, name) ==
    IF name \in DOMAIN inp.configuration /\ inp.configuration[name] # Bad
       /\ inp.configuration[name] >= 0
    THEN inp.configuration[name] ELSE None

Positive(inp, name) ==
    IF name \in DOMAIN inp.configuration /\ inp.configuration[name] # Bad
       /\ inp.configuration[name] > 0
    THEN inp.configuration[name] ELSE None

NonNegative(inp, name) ==
    IF name \in DOMAIN inp.configuration /\ inp.configuration[name] # Bad
       /\ inp.configuration[name] >= 0
    THEN inp.configuration[name] ELSE None

\* A list of area ids that must not be empty, {} when it is of no use.
AreaIds(inp, name) ==
    IF name \in DOMAIN inp.configuration /\ inp.configuration[name] # Bad
    THEN inp.configuration[name] ELSE {}

\* The fact must be of the rule's kind and be as of the event time.
Fits(f, type, kind, seen, inp) == f.type = type /\ f.key.kind = kind /\ seen = inp.time

IsDwell(f, inp) == f.type = "dwell_interval" /\ Fits(f, "dwell_interval", "dwell", f.last, inp)
IsWait(f, inp) == f.type = "waiting_interval" /\ Fits(f, "waiting_interval", "waiting", f.last, inp)

\* Whether an interval lasts as long as a threshold asks for.
ByDuration(f, threshold, event) ==
    CASE threshold = None \/ f.duration < 0 -> Invalid
      [] threshold # None /\ f.duration >= 0 /\ f.duration < threshold -> NoMatch
      [] OTHER -> Match(event)

\* What the payloads of intervals have in common, and what is special to one.
Outlasts(threshold, f) == [threshold |-> threshold, lasted |-> f.duration]

TurnoverBody(total, win, f) == [threshold |-> total, lasted |-> f.duration, window |-> win]

OccupancyBody(f) ==
    [phase |-> IF f.previous = 0 /\ f.count > 0 THEN "started" ELSE "ended",
     tracks |-> f.tracks]

-----------------------------------------------------------------------------
(* Evaluators.                                                             *)

EvaluateOccupancySession(rule, inp) ==
    LET f == inp.facts[1]
    IN  IF f.type # "occupancy_snapshot" THEN Invalid
        ELSE IF ~Fits(f, "occupancy_snapshot", "occupancy", f.time, inp) THEN Invalid
        ELSE IF (f.previous = 0) = (f.count = 0) THEN NoMatch
        ELSE Match(Event(rule, inp, f.time, OccupancyBody(f)))

EvaluateDwellThreshold(rule, inp) ==
    LET f         == inp.facts[1]
        threshold == Positive(inp, "dwell_threshold_seconds")
    IN  IF ~IsDwell(f, inp) THEN Invalid
        ELSE ByDuration(f, threshold, Event(rule, inp, f.start, Outlasts(threshold, f)))

\* Version 2 asks for a queue_max_length besides.
ExtraConfigurationValid(rule, inp) ==
    rule.version = "v2" => Positive(inp, "queue_max_length") # None

EvaluateQueueCandidate(rule, inp) ==
    LET f         == inp.facts[1]
        areas     == AreaIds(inp, "queue_area_ids")
        threshold == Positive(inp, "waiting_qualification_seconds")
    IN  IF ~IsWait(f, inp) \/ f.key.context = None \/ areas = {} THEN Invalid
        ELSE IF f.key.context \notin areas THEN NoMatch
        ELSE IF ~ExtraConfigurationValid(rule, inp) THEN Invalid
        ELSE ByDuration(f, threshold, Event(rule, inp, f.start, Outlasts(threshold, f)))

\* Mutant of EvaluateServiceGap: a wait that has ended still counts.
EvaluateServiceGapEnded(rule, inp) ==
    LET f         == inp.facts[1]
        areas     == AreaIds(inp, "service_area_ids")
        threshold == Positive(inp, "service_gap_grace_seconds")
    IN  IF ~IsWait(f, inp) \/ f.key.context = None \/ areas = {} THEN Invalid
        ELSE IF f.key.context \notin areas THEN NoMatch
        ELSE ByDuration(f, threshold, Event(rule, inp, f.start, Outlasts(threshold, f)))

\* A wait that has ended is no service gap, whatever the areas are.
EvaluateServiceGap(rule, inp) ==
    LET f         == inp.facts[1]
        areas     == AreaIds(inp, "service_area_ids")
        threshold == Positive(inp, "service_gap_grace_seconds")
    IN  IF ~IsWait(f, inp) THEN Invalid
        ELSE IF f.reason # None THEN NoMatch
        ELSE IF f.key.context = None \/ areas = {} THEN Invalid
        ELSE IF f.key.context \notin areas THEN NoMatch
        ELSE ByDuration(f, threshold, Event(rule, inp, f.start, Outlasts(threshold, f)))

\* The first snapshot among the facts has the say; without one the open dwell does.
SpaceOccupied(inp) ==
    LET snapshots == {i \in DOMAIN inp.facts : inp.facts[i].type = "occupancy_snapshot"}
    IN  snapshots = {} \/ inp.facts[CHOOSE i \in snapshots : \A j \in snapshots : i <= j].count > 0

EvaluateTurnoverDelay(rule, inp) ==
    LET f     == inp.facts[1]
        win   == NonNegative(inp, "service_window_seconds")
        delay == Positive(inp, "turnover_delay_seconds")
        total == IF win = None \/ delay = None THEN None ELSE win + delay
    IN  IF ~IsDwell(f, inp) THEN Invalid
        ELSE IF f.reason # None THEN NoMatch
        ELSE IF f.key.context = None THEN Invalid
        ELSE IF ~SpaceOccupied(inp) THEN NoMatch
        ELSE ByDuration(f, total, Event(rule, inp, f.start, TurnoverBody(total, win, f)))

-----------------------------------------------------------------------------
(* Data quality: a registry of checks, each on some types of facts.        *)

\* In the order of their codes, in which they are run and reported.
QualityChecks == <<"DATA_CONFIGURATION_MISMATCH", "DATA_INVALID_EVENT_TIME",
    "DATA_INVALID_PROVENANCE", "DATA_MISSING_REQUIRED_IDENTITY", "DATA_NEGATIVE_DURATION",
    "DATA_NON_MONOTONIC_EVENT_TIME", "DATA_TEMPORAL_INCONSISTENCY",
    "DATA_UNKNOWN_SPATIAL_REFERENCE">>

Severity(check) ==
    CASE check = "DATA_CONFIGURATION_MISMATCH" -> "critical"
      [] check \in {"DATA_INVALID_PROVENANCE", "DATA_UNKNOWN_SPATIAL_REFERENCE"} -> "warning"
      [] OTHER -> "error"

IsInterval(f) == f.type \in {"dwell_interval", "waiting_interval"}
IsMeasurement(f) == f.type = "movement_measurement"

MissingIdentity(f) == f.key.camera = None \/ f.key.track = None

InvalidEventTime(f) == IF IsInterval(f) THEN f.last = None ELSE f.time = None

NonMonotonic(f) ==
    \/ IsInterval(f) /\ (f.last < f.start \/ (f.end # None /\ f.end < f.start))
    \/ IsMeasurement(f) /\ f.time < f.previous

NegativeDuration(f) ==
    \/ IsInterval(f) /\ f.duration < 0
    \/ IsMeasurement(f) /\ f.delta < 0

TemporalInconsistency(f) ==
    \/ IsInterval(f) /\ f.qualified /\ f.duration < f.minimum
    \/ f.type = "occupancy_snapshot" /\ f.previous + f.delta # f.count

InvalidProvenance(f) == f.provenance # Provenance \/ f.key.cfg = None

UnknownSpatialReference(f, known) == f.key.context # None /\ f.key.context \notin known

ConfigurationMismatch(f, cfg) == f.key.cfg # None /\ f.key.cfg # cfg

Fires(check, f, known, cfg) ==
    CASE check = "DATA_CONFIGURATION_MISMATCH"    -> ConfigurationMismatch(f, cfg)
      [] check = "DATA_INVALID_EVENT_TIME"        -> InvalidEventTime(f)
      [] check = "DATA_INVALID_PROVENANCE"        -> InvalidProvenance(f)
      [] check = "DATA_MISSING_REQUIRED_IDENTITY" -> MissingIdentity(f)
      [] check = "DATA_NEGATIVE_DURATION"         -> NegativeDuration(f)
      [] check = "DATA_NON_MONOTONIC_EVENT_TIME"  -> NonMonotonic(f)
      [] check = "DATA_TEMPORAL_INCONSISTENCY"    -> TemporalInconsistency(f)
      [] check = "DATA_UNKNOWN_SPATIAL_REFERENCE" -> UnknownSpatialReference(f, known)

\* The checks that fire; they are reported in their order.
Findings(f, known, cfg) ==
    {check \in Range(QualityChecks) : Fires(check, f, known, cfg)}

Headline(findings) ==
    QualityChecks[Min({i \in DOMAIN QualityChecks : QualityChecks[i] \in findings})]

QualityBody(f, findings) ==
    [findings |-> findings, severity |-> Severity(Headline(findings)), fact |-> f.id,
     of |-> f.type]

\* One event reports all findings, the first of which is its headline.
EvaluateDataQuality(rule, inp) ==
    LET f        == inp.facts[1]
        known    == inp.configuration["known_spatial_contexts"]
        findings == Findings(f, known, inp.cfg)
        event    == Event(rule, inp, inp.time, QualityBody(f, findings))
    IN  IF f.type \notin FactTypes \/ f.key.session = None \/ known = Bad THEN Invalid
        ELSE IF findings = {} THEN NoMatch
        ELSE [Match(event) EXCEPT !.evidence = {EvidenceId(EventId(rule, inp), f.key.session)}]

-----------------------------------------------------------------------------
Evaluate(rule, inp) ==
    CASE rule.id = "occupancy_session"     -> EvaluateOccupancySession(rule, inp)
      [] rule.id = "dwell_threshold"       -> EvaluateDwellThreshold(rule, inp)
      [] rule.id = "queue_candidate"       -> EvaluateQueueCandidate(rule, inp)
      [] rule.id = "service_gap_candidate" -> EvaluateServiceGap(rule, inp)
      [] rule.id = "turnover_delay"        -> EvaluateTurnoverDelay(rule, inp)
      [] rule.id = "data_quality"          -> EvaluateDataQuality(rule, inp)
=============================================================================
