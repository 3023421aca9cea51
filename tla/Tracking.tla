------------------------------- MODULE Tracking -------------------------------
(***************************************************************************)
(* What the ByteTrack adapter makes of the detections of a frame           *)
(* (intelligence/tracking).  The backend gives its tracks ids of its own   *)
(* and lists, for a frame, those it follows; the adapter links each with a *)
(* detection, remembers whom it has told of, and ends whoever is not       *)
(* listed any more.                                                        *)
(***************************************************************************)
EXTENDS Naturals, Sequences, FiniteSets, SequencesExt

CONSTANTS
    Untracked,         \* the class of an id the tracker does not know
    MaxTracks,         \* bound: ids the backend gives out
    AllowClassSwitch   \* allow_class_switch

ASSUME TrackingAssumption ==
    MaxTracks \in Nat \ {0} /\ AllowClassSwitch \in BOOLEAN

Ids == 1 .. MaxTracks

\* _track_classes, _seen_tracks and _last_detection have the same keys.
NewTracker == [last |-> <<>>, class |-> [i \in Ids |-> Untracked]]

Seen(tracker) == {i \in Ids : tracker.class[i] # Untracked}

-----------------------------------------------------------------------------
\* The frame comes after the last one and is not older.
Advances(last, frame) == frame.index > last.index /\ frame.time >= last.time

\* Frames of one session in their order.
ValidFrame(tracker, session, frame) ==
    /\ frame.session = session
    /\ tracker.last # <<>> => Advances(tracker.last[1], frame)

\* The frame counts as seen before anything is done with it.
Advanced(tracker, frame) == [tracker EXCEPT !.last = <<frame>>]

\* The targets of S in any order, some of them without a detection.
Listings(S) ==
    {[i \in 1 .. Cardinality(S) |-> [id |-> order[i], lost |-> order[i] \in L]] :
        order \in Injection(1 .. Cardinality(S), S), L \in SUBSET S}

\* The lists of targets a backend that follows `held' and has given out ids up to
\* `issued' may return: who is left out is dropped.
TargetLists(held, issued) ==
    UNION {Listings(S) : S \in {T \in SUBSET (held \cup {issued + 1}) : T \subseteq Ids}}

\* Boxes that overlap: each target takes the detection it overlaps most, if that
\* is not taken, so that no two have the same.  0 is none.
Associations(targets, detections) ==
    {m \in [DOMAIN targets -> 0 .. Len(detections)] :
        \A i, j \in DOMAIN targets : i # j /\ m[i] # 0 => m[i] # m[j]}

\* A target without a detection, now or earlier, cannot be told of, nor one whose
\* detection is of another class than the track.
Fails(tracker, id, class) ==
    \/ class = Untracked
    \/ /\ tracker.class[id] \notin {Untracked, class}
       /\ ~AllowClassSwitch

\* One target more, unless one before it has failed; what those before it did to
\* the tracker stays.
EmitTarget(target, class, done) ==
    IF done.failed \/ Fails(done.tracker, target.id, class)
      THEN [done EXCEPT !.failed = TRUE]
      ELSE [done EXCEPT !.tracker.class[target.id] = class,
                        !.told[target.id] = IF target.lost THEN "lost" ELSE "active"]

\* Mutant of EmitTerminated: the tracks that ended are not forgotten.
EmitTerminatedRemembered(done, present) ==
    LET gone == Seen(done.tracker) \ present IN
    [done EXCEPT !.told = [i \in Ids |-> IF i \in gone THEN "terminated" ELSE @[i]]]

\* Who is not listed has ended and is forgotten.
EmitTerminated(done, present) ==
    LET gone == Seen(done.tracker) \ present IN
    [done EXCEPT !.told = [i \in Ids |-> IF i \in gone THEN "terminated" ELSE @[i]],
                 !.tracker.class = [i \in Ids |-> IF i \in gone THEN Untracked ELSE @[i]]]

\* All targets in their order, then whoever is missing.
Translate(tracker, targets, detections, matched) ==
    LET Class(i) == IF matched[i] # 0 THEN detections[matched[i]]
                    ELSE tracker.class[targets[i].id]
        start    == [tracker |-> tracker, failed |-> FALSE, told |-> [i \in Ids |-> "nothing"]]
        done     == FoldLeftDomain(LAMBDA d, i : EmitTarget(targets[i], Class(i), d),
                                   start, targets)
    IN IF done.failed THEN done
       ELSE EmitTerminated(done, {targets[i].id : i \in DOMAIN targets})
=============================================================================
