------------------------------ MODULE RuleEvents ------------------------------
(***************************************************************************)
(* From observations to events: a process applies the observations of one  *)
(* session to the temporal machines, evaluates every operational rule on   *)
(* every fact they emit, and stores the events that match, one per id.  It *)
(* saves checkpoints; after a crash it restores the last and applies again *)
(* what came since.                                                        *)
(***************************************************************************)
EXTENDS RuleEngine

CONSTANTS
    Session, Cfg, Zone,      \* the scope of all keys, and its zone
    Configurations,          \* configurations a session may be pinned to
    MaxTime, MaxLog,         \* bounds: of the time, of the observations
    MaxCrashes               \* bound

\* A session is one, and so are its configuration and its tracks, and what ended an
\* interval is said.
ASSUME RuleEventsAssumption ==
    /\ {MaxTime, MaxLog, MaxCrashes} \subseteq Nat
    /\ None \notin {Session, Cfg, Aggregate, "ended"} \cup Tracks \cup Lost

VARIABLES
    pinned,     \* the configuration of the session
    machines,   \* states of all machines
    saved,      \* the last checkpoint
    upto,       \* how many observations the checkpoint covers,
    log,        \* those that came since,
    done,       \* how many are applied in all
    lap,        \* how often the process has been restarted
    stored,     \* events, each with the requests of the evaluation that stored it
    signals     \* history: every match, as the event would be without `produced'

ruleVars == <<pinned, machines, saved, log, upto, done, lap, stored, signals>>

NewMachines == [presence |-> [k \in Tracks |-> NewPresence],
                timed |-> [k \in Timed |-> NewTimed], zone |-> NewZone(Tracks)]

Init == /\ pinned \in Configurations
        /\ machines = NewMachines
        /\ saved = Checkpoint(NewMachines)
        /\ log = <<>> /\ upto = 0 /\ done = 0 /\ lap = 0
        /\ stored = {} /\ signals = {}

-----------------------------------------------------------------------------
(* What an observation does to the machines, and the facts that come of it.*)

Result(m, o) == ApplyPresence(m.presence[o.track], o.kind, o.time)

Stepped(m, o) ==
    LET result == Result(m, o)
        event  == EventOf(result.reason)
    IN  IF result.reason = "late" THEN m
        ELSE [presence |-> [m.presence EXCEPT ![o.track] = result.state],
              timed |-> [k \in Timed |->
                  IF k = o.track THEN Follow(m.timed[k], event, o.dist, o.time)
                  ELSE m.timed[k]],
              zone |-> ApplyZone(m.zone, o.track, event, o.time)]

KeyOf(k, kind) == Key(Session, Cfg, k, Zone, kind)

PresenceFacts(m, o) ==
    {TransitionFact(KeyOf(o.track, "presence"), m.presence[o.track].st,
                    Result(m, o).state.st, Result(m, o).reason, o.time)}

\* The interval a machine was in and has left, and the one it is in.
DwellFacts(m, n, o) ==
    LET before == m.timed[o.track].dwell
        after  == n.timed[o.track].dwell
        key    == KeyOf(o.track, "dwell")
    IN  (IF after.st = "dwelling" THEN {OpenDwell(key, after)} ELSE {})
        \cup (IF before.st = "dwelling" /\ after.st = "idle"
              THEN {ClosedDwell(key, before.since, o.time, Result(m, o).reason)} ELSE {})

WaitFacts(m, n, o) ==
    LET before == m.timed[o.track].waiting
        after  == n.timed[o.track].waiting
        key    == KeyOf(o.track, "waiting")
    IN  (IF after.st = "waiting" THEN {OpenWait(key, after)} ELSE {})
        \cup (IF before.st = "waiting" /\ after.st # "waiting"
              THEN {ClosedWait(key, before.start, o.time, "ended")} ELSE {})

MovementFacts(m, n, o) ==
    LET before == m.timed[o.track]
        after  == n.timed[o.track]
    IN  (IF Measures(before.movement, o.time)
         THEN {MeasurementFact(KeyOf(o.track, "movement"), before.movement.wm, o.time, o.dist)}
         ELSE {})
        \cup (IF before.class.st # after.class.st
              THEN {ClassFact(KeyOf(o.track, "movement_classification"), before.class.st,
                              after.class.st, o.time, before.class.started)}
              ELSE {})

ZoneFacts(m, n, o) ==
    IF m.zone.occupied = n.zone.occupied THEN {}
    ELSE {SnapshotFact(OccupancyScopeKey(KeyOf(o.track, "presence")),
                       Cardinality(m.zone.occupied), n.zone.occupied, o.time, o.track)}

Facts(m, n, o) ==
    IF Result(m, o).reason = "late" THEN {}
    ELSE PresenceFacts(m, o) \cup ZoneFacts(m, n, o)
         \cup (IF o.track \in Timed
               THEN DwellFacts(m, n, o) \cup WaitFacts(m, n, o) \cup MovementFacts(m, n, o)
               ELSE {})

\* The facts of an evaluation: one, or one with the snapshot of the same time.
FactLists(facts) ==
    {<<f>> : f \in facts}
    \cup {<<f, s>> : f \in {x \in facts : IsInterval(x)},
                     s \in {x \in facts : x.type = "occupancy_snapshot"}}

AsOf(f) == IF IsInterval(f) THEN f.last ELSE f.time

\* The matches of all rules on all facts.  What a rule does not declare, the
\* engine rejects.
Matches(facts) ==
    {result \in
        {EngineEvaluate(OperationalRules, r.id, r.version,
             Input(list, pinned, Cfg, r.version, AsOf(list[1]), MaxTime + lap)) :
             r \in OperationalRules, list \in FactLists(facts)} :
     result.status = "match"}

-----------------------------------------------------------------------------
(* Steps.                                                                  *)

\* The event store keeps the first event of an id.
Store(results) ==
    LET known == {s.event.id : s \in stored}
        fresh == {r.event.id : r \in results} \ known
    IN  stored' = stored \cup
            {[event |-> r.event, evidence |-> r.evidence] :
                r \in {CHOOSE r \in results : r.event.id = i : i \in fresh}}

\* An observation of this track is one for all its machines.
KeysFit(k) ==
    LET observed == KeyOf(k, "presence")
        zone     == OccupancyScopeKey(observed)
    IN  /\ ValidPresenceInput(observed, observed, observed)
        /\ ValidDwellInput(KeyOf(k, "dwell"), KeyOf(k, "dwell"), observed)
        /\ ValidMovementInput(KeyOf(k, "movement"), KeyOf(k, "movement"), observed)
        /\ ValidClassInput(KeyOf(k, "movement_classification"),
                           KeyOf(k, "movement_classification"), KeyOf(k, "movement"))
        /\ ValidWaitingInput(KeyOf(k, "waiting"), KeyOf(k, "waiting"), observed,
                             KeyOf(k, "movement_classification"))
        /\ ValidOccupancyInput(zone, zone, observed)

Apply(o) ==
    LET next    == Stepped(machines, o)
        results == Matches(Facts(machines, next, o))
    IN  /\ KeysFit(o.track)
        /\ machines' = next
        /\ Store(results)
        /\ signals' = signals \cup {[r.event EXCEPT !.produced = None] : r \in results}

Newest == IF machines.zone.wm = None THEN 0 ELSE machines.zone.wm

\* The observations that may come next: of any track, in the order of their times.
Upcoming ==
    {o \in [track : Tracks, kind : {"present", "absent"}, dist : Distances \cup {0},
            time : {Newest, Newest + 1}] :
        /\ o.time <= MaxTime
        /\ o.track \notin Timed \/ o.kind = "absent" => o.dist = 0}

\* How many observations there were.
Observed == upto + Len(log)

Observe ==
    /\ done = Observed /\ Observed < MaxLog
    /\ \E o \in Upcoming :
         /\ Apply(o)
         /\ log' = Append(log, o)
    /\ done' = done + 1
    /\ UNCHANGED <<pinned, saved, upto, lap>>

Replay ==
    /\ done < Observed
    /\ Apply(log[done - upto + 1])
    /\ done' = done + 1
    /\ UNCHANGED <<pinned, saved, log, upto, lap>>

Save ==
    /\ done = Observed /\ upto < done
    /\ saved' = Checkpoint(machines)
    /\ upto' = done /\ log' = <<>>
    /\ UNCHANGED <<pinned, machines, done, lap, stored, signals>>

Restart ==
    /\ lap < MaxCrashes
    /\ Restores(saved)
    /\ machines' = saved.state
    /\ done' = upto
    /\ lap' = lap + 1
    /\ UNCHANGED <<pinned, saved, log, upto, stored, signals>>

Next == Observe \/ Replay \/ Save \/ Restart

Spec == Init /\ [][Next]_ruleVars

-----------------------------------------------------------------------------
(* Properties.                                                             *)

\* What is applied again after a restart stores no second event for what was
\* stored before (evaluator.py: "Replaying the same evaluation reproduces the
\* same identity"), though it is processed at another time.
ReplayAddsNothing == [][done < Observed => stored' = stored]_ruleVars

\* No match on an interval is lost to another event with its id: neither to one
\* of an earlier visit of the track, nor to one of another rule or version.  Not
\* so for the occupancy of a zone, which may begin and end in an instant, and for
\* the quality of several facts of a track in an instant: they share an id.
EpisodesKeepTheirEvents ==
    \A s \in signals :
        s.rule \in {"occupancy_session", "data_quality"}
        \/ \E e \in stored : [e.event EXCEPT !.produced = None] = s

\* A gap in the service or a delay of a turnover is never reported as of the
\* instant at which it ended: whatever the track did then, the interval the event
\* is about was still open.
ReportedWhileOpen ==
    \A e \in stored, k \in Timed :
        LET w == machines.timed[k].waiting   d == machines.timed[k].dwell
        IN  e.event.key.track = k =>
              /\ e.event.rule = "service_gap_candidate" /\ e.event.time = w.wm =>
                    w.st = "waiting" /\ w.start = e.event.from
              /\ e.event.rule = "turnover_delay" /\ e.event.time = d.wm =>
                    d.st = "dwelling" /\ d.since = e.event.from

\* Every stored event can be linked from its envelope alone, to the very request
\* its evaluation made, and the clip asked for begins and ends with the episode
\* (evidence_request.py: "the pipeline request IS the engine-attached request").
LinkedToItsRequest ==
    \A e \in stored : \E ref \in LinkEvent(e.event) :
        /\ e.evidence = {ref.id}
        /\ ref.start <= ref.end /\ ref.end = e.event.time

\* What the machines emit passes the checks of data quality and the validators
\* of its contract, but for transitions (see CleanFactsAreQuiet).
MachinesEmitCleanFacts ==
    /\ \A s \in signals : s.rule = "data_quality" => s.body.of = "temporal_transition"
    /\ done = Observed /\ done < MaxLog =>
         \A o \in Upcoming : \A f \in Facts(machines, Stepped(machines, o), o) : WellFormed(f)

\* data_quality.py: "all applicable checks pass: NO_MATCH".  A transition has no
\* policy_revision, so the check of provenance reports every one of them.
CleanFactsAreQuiet == \A s \in signals : s.rule # "data_quality"
=============================================================================
