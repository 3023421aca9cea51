----------------------------- MODULE TemporalFacts -----------------------------
(***************************************************************************)
(* The temporal machines of the tracks one camera sees in one zone, wired  *)
(* as their modules document (dwell.py, waiting.py, occupancy.py): the     *)
(* transition of a track's presence machine drives its dwell and waiting   *)
(* machines and the zone's occupancy.  A machine that raises keeps its     *)
(* state, and keeps none of the others from taking the observation.        *)
(*                                                                         *)
(* Times are relative to the newest observation, which is at 0.            *)
(***************************************************************************)
EXTENDS TemporalEngines

CONSTANTS
    Horizon,      \* bound: what is older than this is all the same
    MaxAdvance    \* bound: how much newer than the newest an observation is

ASSUME FactsAssumption == {Horizon, MaxAdvance} \subseteq Nat \ {0}

VARIABLES
    presence,   \* presence[k]: TemporalState of track k
    timed,      \* timed[k]: the other machines of a timed track
    zone,       \* OccupancyState
    missed      \* history: tracks whose last confirmation the zone did not apply

temporalVars == <<presence, timed, zone, missed>>

TemporalInit ==
    /\ presence = [k \in Tracks |-> NewPresence]
    /\ timed = [k \in Timed |-> NewTimed]
    /\ zone = NewZone(Tracks)
    /\ missed = {}

-----------------------------------------------------------------------------
(* Time.  When an observation is newer than all others by a, every time    *)
(* there is moves a into the past.                                         *)

Aged(x, a) == IF x = None THEN None
              ELSE IF x - a < -Horizon THEN -Horizon ELSE x - a

AgedPresence(p, a) == [p EXCEPT !.since = Aged(@, a), !.lastPresent = Aged(@, a),
                                !.wm = Aged(@, a)]

AgedTimed(m, a) ==
    [dwell    |-> [m.dwell EXCEPT !.since = Aged(@, a), !.wm = Aged(@, a)],
     movement |-> [m.movement EXCEPT !.wm = Aged(@, a)],
     class    |-> [m.class EXCEPT !.started = Aged(@, a), !.wm = Aged(@, a)],
     waiting  |-> [m.waiting EXCEPT !.candidate = Aged(@, a), !.start = Aged(@, a),
                                    !.wm = Aged(@, a)]]

AgedZone(z, a) == [z EXCEPT !.wm = Aged(@, a),
                            !.positions = [k \in Tracks |-> Aged(@[k], a)]]

-----------------------------------------------------------------------------
(* Observations.                                                           *)

\* The zone misses a confirmation that comes to it out of order.  The next one
\* that comes in order makes up for it, be it with an InvalidTransitionError.
StillMissed(k, event, t) ==
    IF event = "stay" THEN missed
    ELSE IF ZoneOrder(zone, k, t) = "newer" THEN missed \ {k} ELSE missed \cup {k}

\* An observation of track k at t, dist away from where the track was seen last.
\* One that presence rejects with LateEventError reaches no other machine.
ObserveTrack(k, kind, dist, t) ==
    LET result == ApplyPresence(presence[k], kind, t)
        event  == EventOf(result.reason)
        newer  == IF t > 0 THEN t ELSE 0
    IN  /\ result.reason # "late"
        /\ presence' = [l \in Tracks |->
                AgedPresence(IF l = k THEN result.state ELSE presence[l], newer)]
        /\ timed' = [l \in Timed |->
                AgedTimed(IF l = k THEN Follow(timed[l], event, dist, t) ELSE timed[l], newer)]
        /\ zone' = AgedZone(ApplyZone(zone, k, event, t), newer)
        /\ missed' = StillMissed(k, event, t)

Displacements(k) == IF k \in Timed THEN Distances ELSE {0}

Times == (-Horizon)..MaxAdvance

TemporalNext ==
    \E k \in Tracks, kind \in Kinds, t \in Times :
        \E dist \in Displacements(k) : ObserveTrack(k, kind, dist, t)

TemporalSpec == TemporalInit /\ [][TemporalNext]_temporalVars

-----------------------------------------------------------------------------
(* Properties.                                                             *)

\* The event that an observation of track k is to its other machines.
EventAt(k, kind, t) == EventOf(ApplyPresence(presence[k], kind, t).reason)

\* The machines of a track agree though each keeps its own state: dwell and
\* waiting know of the same confirmed presence, and a wait is a stationary part
\* of the dwell it happens in.  Whatever is observed next, neither is asked for a
\* transition it does not have (waiting.py: "A confirmed entry is only legal from
\* NOT_WAITING (an in-order presence stream always confirms the exit first)").
MachinesAgree ==
    \A k \in Timed :
        LET d == timed[k].dwell   w == timed[k].waiting
        IN  /\ d.st = "dwelling" <=> Confirmed(presence[k])
            /\ w.confirmed <=> Confirmed(presence[k])
            /\ w.st # "not_waiting" => /\ w.confirmed
                                       /\ timed[k].class.st = "stationary"
                                       /\ d.since <= w.candidate
            /\ w.st = "waiting" => w.candidate <= w.start
            /\ \A kind \in Kinds, t \in Times :
                  ApplyPresence(presence[k], kind, t).reason # "late" =>
                    /\ ~DwellRaises(d, EventAt(k, kind, t), t)
                    /\ ~WaitingRaises(w, EventAt(k, kind, t), TRUE, t)

\* The zone counts exactly the tracks whose presence is confirmed, and rejects
\* no transition, except of a track whose last confirmation came to it out of
\* order and was not applied (occupancy.py, "accept-with-no-rewind"): the zone
\* is wrong about that track until its next confirmation, and no longer.
CountsWhoIsPresent ==
    \A k \in Tracks \ missed :
        /\ k \in zone.occupied <=> Confirmed(presence[k])
        /\ \A kind \in Kinds, t \in Times : ~ZoneRaises(zone, k, EventAt(k, kind, t), t)
=============================================================================
