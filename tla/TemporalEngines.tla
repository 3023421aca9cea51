---------------------------- MODULE TemporalEngines ----------------------------
(***************************************************************************)
(* The machines of intelligence/temporal as functions from a state and an  *)
(* observation to a state: presence (engine.py, presence.py), dwell,       *)
(* movement, movement classification, waiting and occupancy.               *)
(*                                                                         *)
(* A time is an integer or None.  The position of an observation, its      *)
(* event time and frame, is one integer: a camera has a frame per instant. *)
(* Times that are only reported (last_seen, missing_since, the state_since *)
(* of movement) and the history of transitions are left out.               *)
(***************************************************************************)
EXTENDS Integers, FiniteSets

CONSTANTS
    None,
    Tracks,
    Timed,        \* tracks whose dwell, movement and waiting are followed
    Distances,    \* displacements between two observations
    \* TemporalPolicy
    ReorderWindow, EntryConfirmation, ExitConfirmation, MinimumDwell, ExitGrace,
    OcclusionTolerance, MoveThreshold, MoveEnter, MoveExit, MoveQualification,
    WaitQualification,
    WaitingContext      \* the zone is one of waiting_contexts

ASSUME PolicyAssumption ==
    /\ {EntryConfirmation, ExitConfirmation} \subseteq Nat \ {0}
    /\ {ReorderWindow, MinimumDwell, ExitGrace, OcclusionTolerance, MoveThreshold,
        MoveEnter, MoveExit, MoveQualification, WaitQualification} \subseteq Nat
    /\ MoveExit <= MoveEnter
    /\ WaitingContext \in BOOLEAN
    /\ None \notin Int

ASSUME TracksAssumption == Timed \subseteq Tracks /\ Distances \subseteq Nat

-----------------------------------------------------------------------------
(* The order of observations.                                              *)

\* Where an observation at t stands to the watermark of a machine.
Order(wm, t) ==
    CASE wm = None \/ t > wm     -> "newer"
      [] wm # None /\ t = wm     -> "deduplicated"
      [] OTHER -> IF wm - t <= ReorderWindow THEN "reordered" ELSE "late"

\* The next state by a table of rules <<from, event, to>>, or "invalid" when
\* there is none and InvalidTransitionError is raised.
Transition(fsm, from, event) ==
    IF \E r \in fsm : r[1] = from /\ r[2] = event
    THEN (CHOOSE r \in fsm : r[1] = from /\ r[2] = event)[3]
    ELSE "invalid"

-----------------------------------------------------------------------------
(* Presence of a track in the zone.                                        *)

Kinds == {"present", "absent", "not_observed", "session_closed"}

NewPresence == [st |-> "absent", since |-> None, lastPresent |-> None,
                wm |-> None, entry |-> 0, exit |-> 0]

\* An Evaluation that changes nothing but the counters, which it resets.
Stays(st) == [st |-> st, reason |-> "observed_stay", seen |-> FALSE,
              since |-> None, entry |-> 0, exit |-> 0]

Turns(st, reason, t) == [Stays(st) EXCEPT !.reason = reason, !.since = t]

\* At least d of event time since x, and always when there is no x.
Elapsed(x, d, t) == x = None \/ t - x >= d

EvaluatePresent(p, t) ==
    LET count == IF p.st = "entering" THEN p.entry + 1 ELSE 1
        ev    == CASE p.st = "present" -> Stays("present")
                   [] p.st = "exiting" -> Turns("present", "observed_stay", t)
                   [] OTHER ->
                        IF count >= EntryConfirmation THEN Turns("present", "enter_confirmed", t)
                        ELSE [Stays("entering") EXCEPT
                                !.entry = count,
                                !.since = IF p.st = "absent" THEN t ELSE None]
    IN  [ev EXCEPT !.seen = TRUE]

\* The dwell and grace conditions of an exit, the dwell and tolerance of a loss.
MayLeave(p, kind, t) ==
    /\ Elapsed(p.since, MinimumDwell, t)
    /\ Elapsed(p.lastPresent,
               IF kind = "absent" THEN ExitGrace ELSE OcclusionTolerance, t)

EvaluateGone(p, kind, t) ==
    CASE p.st = "absent"   -> Stays("absent")
      [] p.st = "entering" -> Turns("absent", "observed_stay", t)
      [] p.st = "present" /\ ~MayLeave(p, kind, t) -> Stays("present")
      [] p.st = "present" /\ MayLeave(p, kind, t) /\ kind = "not_observed" ->
           Turns("absent", "missing_expired", t)
      [] OTHER ->
           LET count == IF p.st = "exiting" THEN p.exit + 1 ELSE 1
           IN  IF count >= ExitConfirmation THEN Turns("absent", "exit_confirmed", t)
               ELSE [Stays("exiting") EXCEPT
                       !.exit = count,
                       !.since = IF p.st = "present" THEN t ELSE None]

EvaluatePresence(p, kind, t) ==
    CASE kind = "present"        -> EvaluatePresent(p, t)
      [] kind = "session_closed" -> Turns("absent", "session_closed", t)
      [] OTHER                   -> EvaluateGone(p, kind, t)

\* What apply() returns: the state and the reason of the one transition, where
\* "late" is a LateEventError.
ApplyPresence(p, kind, t) ==
    LET order == Order(p.wm, t)
        ev    == EvaluatePresence(p, kind, t)
    IN  IF order # "newer" THEN [state |-> p, reason |-> order]
        ELSE [reason |-> ev.reason,
              state  |-> [st          |-> ev.st,
                          since       |-> IF ev.since = None THEN p.since ELSE ev.since,
                          lastPresent |-> IF ev.seen THEN t ELSE p.lastPresent,
                          wm          |-> t,
                          entry       |-> ev.entry,
                          exit        |-> ev.exit]]

Lost == {"exit_confirmed", "missing_expired", "session_closed"}

\* Mutant of EventOf: a loss by occlusion is not passed on.
EventOfSeen(reason) ==
    IF reason \in {"enter_confirmed", "exit_confirmed", "session_closed"} THEN reason ELSE "stay"

\* dwell_, occupancy_ and waiting_event_from_presence.
EventOf(reason) == IF reason \in Lost \cup {"enter_confirmed"} THEN reason ELSE "stay"

\* Confirmed presence, which EXITING does not end.
Confirmed(p) == p.st \in {"present", "exiting"}

-----------------------------------------------------------------------------
(* Dwell: the interval of a confirmed presence.                            *)

DwellFsm == { <<"idle", "enter_confirmed", "dwelling">>,
              <<"dwelling", "exit_confirmed", "idle">>,
              <<"dwelling", "missing_expired", "idle">>,
              <<"idle", "stay", "idle">>,
              <<"dwelling", "stay", "dwelling">>,
              <<"idle", "session_closed", "idle">>,
              <<"dwelling", "session_closed", "idle">> }

NewDwell == [st |-> "idle", since |-> None, wm |-> None]

DwellRaises(d, event, t) ==
    \/ Order(d.wm, t) = "late"
    \/ Order(d.wm, t) = "newer" /\ Transition(DwellFsm, d.st, event) = "invalid"

ApplyDwell(d, event, t) ==
    IF Order(d.wm, t) # "newer" \/ DwellRaises(d, event, t) THEN d
    ELSE [st    |-> Transition(DwellFsm, d.st, event),
          since |-> IF event = "stay" THEN d.since ELSE t,
          wm    |-> t]

-----------------------------------------------------------------------------
(* Movement: the displacement between two observations of a track, and its *)
(* classification with hysteresis and qualification.                       *)

NewMovement == [st |-> "unknown", wm |-> None]

\* The first observation is the anchor: there is no pair to measure.
Measures(m, t) == Order(m.wm, t) = "newer" /\ m.wm # None

ApplyMovement(m, dist, t) ==
    IF Order(m.wm, t) # "newer" THEN m
    ELSE [wm |-> t,
          st |-> CASE ~Measures(m, t)       -> m.st
                   [] dist > MoveThreshold  -> "moving"
                   [] OTHER                 -> "stationary"]

NewClass == [st |-> "unknown", pending |-> None, started |-> None, wm |-> None]

Evidence(dist) == CASE dist > MoveEnter -> "moving"
                    [] dist < MoveExit  -> "stationary"
                    [] OTHER            -> "band"

\* Evidence for the other class begins a run, or ends one that lasted.
Qualify(c, target, t) ==
    LET run == IF c.pending = target THEN c.started ELSE t
    IN  IF t - run >= MoveQualification
        THEN [st |-> target, pending |-> None, started |-> None, wm |-> t]
        ELSE [st |-> c.st, pending |-> target, started |-> run, wm |-> t]

Settled(st, t) == [st |-> st, pending |-> None, started |-> None, wm |-> t]

Classify(c, dist, t) ==
    LET seen == Evidence(dist)
    IN  CASE c.st = "unknown" -> Settled(IF seen = "moving" THEN "moving" ELSE "stationary", t)
          [] c.st # "unknown" /\ seen \in {"band", c.st} -> Settled(c.st, t)
          [] OTHER -> Qualify(c, seen, t)

ApplyClass(c, measured, dist, t) ==
    CASE Order(c.wm, t) # "newer" -> c
      [] Order(c.wm, t) = "newer" /\ ~measured -> [c EXCEPT !.wm = t]
      [] OTHER -> Classify(c, dist, t)

-----------------------------------------------------------------------------
(* Waiting: confirmed presence in a waiting context, stationary long enough*)

NewWaiting == [st |-> "not_waiting", confirmed |-> FALSE, candidate |-> None,
               start |-> None, wm |-> None]

Waits(st, candidate, start, t) ==
    [st |-> st, confirmed |-> TRUE, candidate |-> candidate, start |-> start, wm |-> t]

\* Presence has been confirmed, by this event or before.
NowConfirmed(w, event) == event = "enter_confirmed" \/ (event = "stay" /\ w.confirmed)

\* Mutant of EndsWaiting: movement does not end a wait, only a loss of presence.
EndsWaitingWhenLost(event, stationary) == event \in Lost

\* A confirmed loss ends the wait, and so does movement.
EndsWaiting(event, stationary) == event \in Lost \/ ~stationary

\* A second entry, or a wait outside of the waiting contexts.
WaitingRaises(w, event, stationary, t) ==
    \/ Order(w.wm, t) = "late"
    \/ /\ Order(w.wm, t) = "newer"
       /\ ~EndsWaiting(event, stationary) /\ NowConfirmed(w, event)
       /\ w.st # "not_waiting"
       /\ ~WaitingContext \/ event = "enter_confirmed"

EvaluateWaiting(w, event, stationary, t) ==
    CASE EndsWaiting(event, stationary) ->
           [NewWaiting EXCEPT !.confirmed = NowConfirmed(w, event), !.wm = t]
      [] ~EndsWaiting(event, stationary) /\ (~NowConfirmed(w, event) \/ ~WaitingContext) ->
           [NewWaiting EXCEPT !.st = w.st, !.confirmed = NowConfirmed(w, event), !.wm = t]
      [] OTHER ->
           LET since == IF w.st = "not_waiting" THEN t ELSE w.candidate
           IN  IF w.st = "waiting" THEN Waits("waiting", since, w.start, t)
               ELSE IF t - since >= WaitQualification THEN Waits("waiting", since, t, t)
               ELSE Waits("waiting_candidate", since, None, t)

ApplyWaiting(w, event, stationary, t) ==
    IF Order(w.wm, t) # "newer" \/ WaitingRaises(w, event, stationary, t) THEN w
    ELSE EvaluateWaiting(w, event, stationary, t)

-----------------------------------------------------------------------------
(* Occupancy of the zone: the tracks whose presence is confirmed.          *)

OccupancyFsm == { <<"idle", "enter_confirmed", "occupied">>,
                  <<"occupied", "exit_confirmed", "idle">>,
                  <<"occupied", "missing_expired", "idle">>,
                  <<"occupied", "session_closed", "idle">>,
                  <<"idle", "session_closed", "idle">>,
                  <<"idle", "stay", "idle">>,
                  <<"occupied", "stay", "occupied">> }

\* positions[k] is None for a track that entity_positions does not have.
NewZone(tracks) == [occupied |-> {}, positions |-> [k \in tracks |-> None], wm |-> None]

\* A track's last position is compared first, then the watermark of the zone.
ZoneOrder(z, k, t) ==
    IF z.positions[k] # None /\ t = z.positions[k] THEN "deduplicated"
    ELSE IF z.wm = None \/ t >= z.wm THEN "newer"
    ELSE IF z.wm - t <= ReorderWindow THEN "reordered" ELSE "late"

NextEntity(z, k, event) ==
    Transition(OccupancyFsm, IF k \in z.occupied THEN "occupied" ELSE "idle", event)

ZoneRaises(z, k, event, t) ==
    ZoneOrder(z, k, t) = "newer" /\ NextEntity(z, k, event) = "invalid"

ApplyZone(z, k, event, t) ==
    IF ZoneOrder(z, k, t) # "newer" \/ ZoneRaises(z, k, event, t) THEN z
    ELSE [occupied  |-> IF NextEntity(z, k, event) = "occupied"
                        THEN z.occupied \cup {k} ELSE z.occupied \ {k},
          positions |-> [z.positions EXCEPT ![k] = t],
          wm        |-> t]

-----------------------------------------------------------------------------
(* The machines of a track that follow its presence.                        *)

NewTimed == [dwell |-> NewDwell, movement |-> NewMovement,
             class |-> NewClass, waiting |-> NewWaiting]

\* The machines of a timed track after an observation: presence's transition
\* goes to dwell and waiting, the class that results from it to waiting.
Follow(m, event, dist, t) ==
    LET class == ApplyClass(m.class, Measures(m.movement, t), dist, t)
    IN  [dwell    |-> ApplyDwell(m.dwell, event, t),
         movement |-> ApplyMovement(m.movement, dist, t),
         class    |-> class,
         waiting  |-> ApplyWaiting(m.waiting, event, class.st = "stationary", t)]
=============================================================================
