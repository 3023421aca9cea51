--------------------------- MODULE TemporalIntervals ---------------------------
(***************************************************************************)
(* The facts the temporal machines emit (contracts/temporal/models.py):    *)
(* transitions, dwell and waiting intervals, occupancy snapshots, movement *)
(* measurements and class changes, each under the key of its state; the    *)
(* checks of an input against the key; checkpoint and restore.             *)
(*                                                                         *)
(* An id is the tuple it is derived from.  A tenant has one venue here and *)
(* a session one camera, so a session stands for the scope of a key.       *)
(***************************************************************************)
EXTENDS TemporalEngines, Sequences

CONSTANTS
    EngineVersion,   \* TEMPORAL_ENGINE_VERSION
    Revision,        \* TemporalPolicy.revision of this process
    Aggregate,       \* OCCUPANCY_SCOPE_TRACK
    DwellMinimum     \* dwell_minimum_seconds, which qualifies a dwell

ASSUME IntervalsAssumption == DwellMinimum \in Nat

-----------------------------------------------------------------------------
(* Keys.                                                                   *)

Key(session, cfg, track, context, kind) ==
    [session |-> session, camera |-> session, cfg |-> cfg, track |-> track,
     context |-> context, kind |-> kind]

OccupancyScopeKey(presenceKey) ==
    [presenceKey EXCEPT !.kind = "occupancy", !.track = Aggregate]

\* Two keys of one entity: everything but the kind is the same.
SameEntity(k1, k2) == [k1 EXCEPT !.kind = ""] = [k2 EXCEPT !.kind = ""]

\* ... and of one zone: the track may differ too.
SameZone(k1, k2) == SameEntity([k1 EXCEPT !.track = ""], [k2 EXCEPT !.track = ""])

\* _validate of each machine: the input names the state, and what it is derived
\* from is of the right kind and has the same provenance.
ValidPresenceInput(key, inputKey, observed) ==
    key = inputKey /\ key.kind = "presence" /\ SameEntity(key, observed)

ValidDwellInput(key, inputKey, presenceKey) ==
    key = inputKey /\ key.kind = "dwell" /\ presenceKey.kind = "presence"
                   /\ SameEntity(key, presenceKey)

ValidMovementInput(key, inputKey, observed) ==
    key = inputKey /\ key.kind = "movement" /\ SameEntity(key, observed)

ValidClassInput(key, inputKey, measureKey) ==
    /\ key = inputKey /\ key.kind = "movement_classification"
    /\ measureKey # None => measureKey.kind = "movement" /\ SameEntity(key, measureKey)

ValidWaitingInput(key, inputKey, presenceKey, classKey) ==
    /\ key = inputKey /\ key.kind = "waiting"
    /\ presenceKey.kind = "presence" /\ SameEntity(key, presenceKey)
    /\ classKey.kind = "movement_classification" /\ SameEntity(key, classKey)

ValidOccupancyInput(key, inputKey, presenceKey) ==
    /\ key = inputKey /\ key.kind = "occupancy" /\ key.track = Aggregate
    /\ presenceKey.kind = "presence" /\ SameZone(key, presenceKey)

-----------------------------------------------------------------------------
(* Facts.                                                                  *)

TransitionFact(key, from, to, reason, t) ==
    [type |-> "temporal_transition", key |-> key, id |-> <<key, t, from, to, reason>>,
     time |-> t, provenance |-> {"fsm_version"}]

Provenance == {"fsm_version", "policy_revision"}

\* Mutant of IntervalFact: every interval is qualified.
IntervalFactQualified(type, key, start, end, last, minimum, reason) ==
    [type |-> type, key |-> key,
     id |-> IF end = None THEN <<key, "open", start>> ELSE <<key, "closed", start, end>>,
     start |-> start, end |-> end, last |-> last, duration |-> last - start,
     qualified |-> TRUE, minimum |-> minimum,
     reason |-> reason, provenance |-> Provenance]

\* An interval is open until it has an end and a reason: its id is then another.
IntervalFact(type, key, start, end, last, minimum, reason) ==
    [type |-> type, key |-> key,
     id |-> IF end = None THEN <<key, "open", start>> ELSE <<key, "closed", start, end>>,
     start |-> start, end |-> end, last |-> last, duration |-> last - start,
     qualified |-> last - start >= minimum, minimum |-> minimum,
     reason |-> reason, provenance |-> Provenance]

\* The dwell a machine is in, and the one it has just left.  What was applied
\* last was seen last.
OpenDwell(key, d) ==
    IntervalFact("dwell_interval", key, d.since, None, d.wm, DwellMinimum, None)

ClosedDwell(key, start, t, reason) ==
    IntervalFact("dwell_interval", key, start, t, t, DwellMinimum, reason)

OpenWait(key, w) ==
    IntervalFact("waiting_interval", key, w.start, None, w.wm, WaitQualification, None)

ClosedWait(key, start, t, reason) ==
    IntervalFact("waiting_interval", key, start, t, t, WaitQualification, reason)

SnapshotFact(key, before, occupied, t, source) ==
    LET count == Cardinality(occupied)
    IN  [type |-> "occupancy_snapshot", key |-> key, id |-> <<key, t, count, source>>,
         time |-> t, previous |-> before, delta |-> count - before, count |-> count,
         tracks |-> occupied, provenance |-> Provenance]

MeasurementFact(key, previous, t, dist) ==
    [type |-> "movement_measurement", key |-> key, id |-> <<key, previous, t>>,
     previous |-> previous, time |-> t, dist |-> dist, delta |-> t - previous,
     provenance |-> Provenance]

ClassFact(key, from, to, t, started) ==
    [type |-> "movement_classification_transition", key |-> key,
     id |-> <<key, from, to, t, started>>, time |-> t, provenance |-> Provenance]

\* The validators of the contracts of intervals, snapshots and measurements.
WellFormed(f) ==
    CASE f.type \in {"dwell_interval", "waiting_interval"} ->
           f.duration >= 0 /\ f.start <= f.last /\ (f.end # None => f.start <= f.end)
      [] f.type = "occupancy_snapshot"   -> f.count >= 0 /\ f.previous + f.delta = f.count
      [] f.type = "movement_measurement" -> f.previous <= f.time /\ f.delta >= 0
      [] OTHER -> TRUE

-----------------------------------------------------------------------------
(* Checkpoints.                                                            *)

Checkpoint(state) == [engine |-> EngineVersion, policy |-> Revision, state |-> state]

\* restore() of each machine rejects what another engine or policy has written.
Restores(checkpoint) ==
    checkpoint.engine = EngineVersion /\ checkpoint.policy = Revision
=============================================================================
