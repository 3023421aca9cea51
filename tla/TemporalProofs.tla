---------------------------- MODULE TemporalProofs ----------------------------
(***************************************************************************)
(* Theorems about the temporal machines and the rules on their facts, for  *)
(* any tracks, distances, bounds, policy and configuration: the machines   *)
(* of a track agree, and the zone counts who is present, but for what it   *)
(* did not apply; what a rule reports is linked, not lost, not reported    *)
(* twice after a crash, and open where the rule says so; and the facts of  *)
(* the machines, but for transitions, are without fault.                   *)
(***************************************************************************)
EXTENDS TemporalFacts, RuleEvents, FiniteSetTheorems, TLAPS

Time == Int \cup {None}

PresenceStates == {"absent", "entering", "present", "exiting"}

Presence == [st : PresenceStates, since : Time, lastPresent : Time, wm : Time,
             entry : Nat, exit : Nat]

Dwell == [st : {"idle", "dwelling"}, since : Time, wm : Time]

Movement == [st : {"unknown", "moving", "stationary"}, wm : Time]

Class == [st : {"unknown", "moving", "stationary"},
          pending : {"moving", "stationary", None}, started : Time, wm : Time]

Waiting == [st : {"not_waiting", "waiting_candidate", "waiting"}, confirmed : BOOLEAN,
            candidate : Time, start : Time, wm : Time]

Followers == [dwell : Dwell, movement : Movement, class : Class, waiting : Waiting]

ZoneType == [occupied : SUBSET Tracks, positions : [Tracks -> Time], wm : Time]

\* The numbers of the policy and the bounds.
LEMMA Numbers ==
    /\ EntryConfirmation \in Nat /\ ExitConfirmation \in Nat
    /\ MoveQualification \in Nat /\ WaitQualification \in Nat
    /\ Horizon \in Nat /\ MaxAdvance \in Nat
    /\ None \notin Int /\ WaitingContext \in BOOLEAN
    /\ Timed \subseteq Tracks
  BY PolicyAssumption, TracksAssumption, FactsAssumption
     DEF PolicyAssumption, TracksAssumption, FactsAssumption

-----------------------------------------------------------------------------
(* Presence: what the event of a transition says of confirmed presence.    *)

\* An event tells those who follow what became of the confirmed presence.
Tells(event, before, after) ==
    /\ event \in {"enter_confirmed", "exit_confirmed", "missing_expired",
                  "session_closed", "stay"}
    /\ event = "enter_confirmed" => ~Confirmed(before) /\ Confirmed(after)
    /\ event \in {"exit_confirmed", "missing_expired"} => Confirmed(before)
    /\ event \in Lost => ~Confirmed(after)
    /\ event = "stay" => (Confirmed(before) <=> Confirmed(after))

Evaluation == [st : PresenceStates, reason : Lost \cup {"enter_confirmed", "observed_stay"},
               seen : BOOLEAN, since : Time, entry : Nat, exit : Nat]

\* An evaluation that stays or turns is one of a state and reason it is given.
LEMMA Evaluations ==
    ASSUME NEW st \in PresenceStates
    PROVE  /\ Stays(st) \in Evaluation
           /\ Stays(st).st = st /\ Stays(st).reason = "observed_stay"
           /\ \A t \in Int, reason \in Lost \cup {"enter_confirmed", "observed_stay"} :
                /\ Turns(st, reason, t) \in Evaluation
                /\ Turns(st, reason, t).st = st /\ Turns(st, reason, t).reason = reason
  <1> DEFINE s == Stays(st)
  <1>1. s = [st |-> st, reason |-> "observed_stay", seen |-> FALSE,
             since |-> None, entry |-> 0, exit |-> 0]
    BY DEF Stays
  <1>2. s \in Evaluation /\ s.st = st /\ s.reason = "observed_stay"
    BY <1>1 DEF Evaluation, Time
  <1>3. ASSUME NEW t \in Int, NEW reason \in Lost \cup {"enter_confirmed", "observed_stay"}
        PROVE  /\ Turns(st, reason, t) \in Evaluation
               /\ Turns(st, reason, t).st = st /\ Turns(st, reason, t).reason = reason
    <2> HIDE DEF s
    <2>1. Turns(st, reason, t) = [s EXCEPT !.reason = reason, !.since = t]
      BY DEF Turns, s
    <2> QED BY <1>2, <2>1 DEF Evaluation, Time
  <1> QED BY <1>2, <1>3

\* An evaluation that counts towards a confirmation only stays.
LEMMA Counted ==
    ASSUME NEW n \in Nat, NEW x \in Time
    PROVE  LET i == [Stays("entering") EXCEPT !.entry = n, !.since = x]
               o == [Stays("exiting") EXCEPT !.exit = n, !.since = x]
           IN  /\ i \in Evaluation /\ i.st = "entering" /\ i.reason = "observed_stay"
               /\ o \in Evaluation /\ o.st = "exiting" /\ o.reason = "observed_stay"
  <1> DEFINE a == Stays("entering")
             b == Stays("exiting")
  <1>1. /\ a \in Evaluation /\ a.st = "entering" /\ a.reason = "observed_stay"
        /\ b \in Evaluation /\ b.st = "exiting" /\ b.reason = "observed_stay"
    BY Evaluations DEF PresenceStates
  <1> HIDE DEF a, b
  <1>2. /\ [a EXCEPT !.entry = n, !.since = x] \in Evaluation
        /\ [b EXCEPT !.exit = n, !.since = x] \in Evaluation
    BY <1>1 DEF Evaluation
  <1>3. /\ [a EXCEPT !.entry = n, !.since = x].st = a.st
        /\ [a EXCEPT !.entry = n, !.since = x].reason = a.reason
        /\ [b EXCEPT !.exit = n, !.since = x].st = b.st
        /\ [b EXCEPT !.exit = n, !.since = x].reason = b.reason
    BY <1>1 DEF Evaluation
  <1> QED BY <1>1, <1>2, <1>3 DEF a, b

\* An evaluation whose reason is not passed on, and one that is.
Says(ev, p) ==
    /\ ev \in Evaluation
    /\ ev.reason = "enter_confirmed" => ~Confirmed(p) /\ ev.st = "present"
    /\ ev.reason \in {"exit_confirmed", "missing_expired"} => Confirmed(p)
    /\ ev.reason \in Lost => ev.st = "absent"
    /\ ev.reason = "observed_stay" =>
         (Confirmed(p) <=> ev.st \in {"present", "exiting"})

LEMMA StayingSays ==
    ASSUME NEW ev \in Evaluation, NEW p, ev.reason = "observed_stay",
           Confirmed(p) <=> ev.st \in {"present", "exiting"}
    PROVE  Says(ev, p)
  BY DEF Says, Lost

LEMMA TurningSays ==
    ASSUME NEW p, NEW t \in Int
    PROVE  /\ ~Confirmed(p) => Says(Turns("present", "enter_confirmed", t), p)
           /\ Confirmed(p) => Says(Turns("absent", "exit_confirmed", t), p)
           /\ Confirmed(p) => Says(Turns("absent", "missing_expired", t), p)
  BY Evaluations DEF Says, PresenceStates, Lost

\* A sighting confirms an entry, or leaves a confirmed presence confirmed.
LEMMA PresentSays ==
    ASSUME NEW p \in Presence, NEW t \in Int
    PROVE  Says(EvaluatePresent(p, t), p)
  <1> DEFINE count == IF p.st = "entering" THEN p.entry + 1 ELSE 1
             since == IF p.st = "absent" THEN t ELSE None
             counted == [Stays("entering") EXCEPT !.entry = count, !.since = since]
             ev == CASE p.st = "present" -> Stays("present")
                     [] p.st = "exiting" -> Turns("present", "observed_stay", t)
                     [] OTHER ->
                          IF count >= EntryConfirmation
                          THEN Turns("present", "enter_confirmed", t)
                          ELSE counted
  <1>1. EvaluatePresent(p, t) = [ev EXCEPT !.seen = TRUE]
    BY DEF EvaluatePresent
  <1>2. p.st \in PresenceStates /\ count \in Nat /\ since \in Time
    BY DEF Presence, Time
  <1>3. Says(ev, p)
    <2>0. /\ counted \in Evaluation /\ counted.st = "entering"
          /\ counted.reason = "observed_stay"
      <3> HIDE DEF count, since
      <3> QED BY <1>2, Counted
    <2> HIDE DEF count, since, counted
    <2>1. CASE p.st = "present"
      BY <2>1, Evaluations DEF Says, Confirmed, PresenceStates, Lost
    <2>2. CASE p.st = "exiting"
      BY <2>2, Evaluations DEF Says, Confirmed, PresenceStates, Lost
    <2>3. CASE p.st \notin {"present", "exiting"} /\ count >= EntryConfirmation
      <3>1. ev = Turns("present", "enter_confirmed", t) /\ ~Confirmed(p)
        BY <2>3 DEF Confirmed
      <3> HIDE DEF ev
      <3> QED BY <3>1, TurningSays
    <2>4. CASE p.st \notin {"present", "exiting"} /\ ~(count >= EntryConfirmation)
      <3>1. ev = counted
        BY <2>4
      <3> HIDE DEF ev
      <3>2. ev \in Evaluation /\ ev.st = "entering" /\ ev.reason = "observed_stay"
        BY ONLY <2>0, <3>1
      <3>3. ~Confirmed(p) /\ ev.st \notin {"present", "exiting"}
        BY <2>4, <3>2 DEF Confirmed
      <3> QED BY ONLY <3>2, <3>3, StayingSays
    <2> DEFINE enough == count >= EntryConfirmation
    <2>5. /\ p.st \notin {"present", "exiting"} /\ enough => Says(ev, p)
          /\ p.st \notin {"present", "exiting"} /\ ~enough => Says(ev, p)
      BY ONLY <2>3, <2>4
    <2> HIDE DEF ev, enough
    <2> QED BY ONLY <2>1, <2>2, <2>5, ZenonT(40)
  <1> HIDE DEF ev
  <1>4. /\ [ev EXCEPT !.seen = TRUE] \in Evaluation
        /\ [ev EXCEPT !.seen = TRUE].st = ev.st
        /\ [ev EXCEPT !.seen = TRUE].reason = ev.reason
    BY <1>3 DEF Says, Evaluation
  <1> QED BY <1>1, <1>3, <1>4 DEF Says

\* What is not a sighting confirms a loss of a confirmed presence, or none.
LEMMA GoneSays ==
    ASSUME NEW p \in Presence, NEW kind, NEW t \in Int
    PROVE  Says(EvaluateGone(p, kind, t), p)
  <1> DEFINE may == MayLeave(p, kind, t)
             count == IF p.st = "exiting" THEN p.exit + 1 ELSE 1
             since == IF p.st = "present" THEN t ELSE None
             counted == [Stays("exiting") EXCEPT !.exit = count, !.since = since]
             ev == EvaluateGone(p, kind, t)
  <1>1. p.st \in PresenceStates /\ count \in Nat /\ since \in Time
    BY DEF Presence, Time
  <1>2. CASE p.st = "absent"
    BY <1>2, Evaluations DEF EvaluateGone, Says, Confirmed, PresenceStates, Lost
  <1>3. CASE p.st = "entering"
    BY <1>3, Evaluations DEF EvaluateGone, Says, Confirmed, PresenceStates, Lost
  <1>4. CASE p.st = "present" /\ ~may
    BY <1>4, Evaluations DEF EvaluateGone, Says, Confirmed, PresenceStates, Lost
  <1>5. CASE p.st = "present" /\ may /\ kind = "not_observed"
    BY <1>5, Evaluations DEF EvaluateGone, Says, Confirmed, PresenceStates, Lost
  <1>6. CASE \/ p.st = "exiting"
             \/ p.st = "present" /\ may /\ kind # "not_observed"
    <2> DEFINE exits == IF count >= ExitConfirmation THEN Turns("absent", "exit_confirmed", t)
                        ELSE counted
    <2>1. ev = exits
      <3>1. ev = CASE p.st = "absent"   -> Stays("absent")
                   [] p.st = "entering" -> Turns("absent", "observed_stay", t)
                   [] p.st = "present" /\ ~may -> Stays("present")
                   [] p.st = "present" /\ may /\ kind = "not_observed" ->
                        Turns("absent", "missing_expired", t)
                   [] OTHER -> exits
        BY DEF EvaluateGone
      <3>2. /\ p.st # "absent" /\ p.st # "entering"
            /\ ~(p.st = "present" /\ ~may)
            /\ ~(p.st = "present" /\ may /\ kind = "not_observed")
        BY ONLY <1>6, SMTT(30)
      <3> HIDE DEF ev, exits, may
      <3> QED BY ONLY <3>1, <3>2, Zenon
    <2>0. counted \in Evaluation /\ counted.st = "exiting" /\ counted.reason = "observed_stay"
      <3> HIDE DEF count, since
      <3> QED BY <1>1, Counted
    <2> SUFFICES Says(ev, p)
      OBVIOUS
    <2> HIDE DEF ev, count, since, counted
    <2>2. CASE count >= ExitConfirmation
      <3>1. ev = Turns("absent", "exit_confirmed", t) /\ Confirmed(p)
        BY <1>6, <2>1, <2>2 DEF Confirmed
      <3> QED BY <3>1, TurningSays
    <2>3. CASE ~(count >= ExitConfirmation)
      <3>1. ev = counted
        BY ONLY <2>1, <2>3
      <3>2. ev \in Evaluation /\ ev.st = "exiting" /\ ev.reason = "observed_stay"
        BY ONLY <2>0, <3>1
      <3>3. Confirmed(p) /\ ev.st \in {"present", "exiting"}
        BY <1>6, <3>2 DEF Confirmed
      <3> QED BY ONLY <3>2, <3>3, StayingSays
    <2> QED BY <2>2, <2>3
  <1> QED BY <1>1, <1>2, <1>3, <1>4, <1>5, <1>6 DEF PresenceStates

LEMMA EvaluationSays ==
    ASSUME NEW p \in Presence, NEW kind \in Kinds, NEW t \in Int
    PROVE  Says(EvaluatePresence(p, kind, t), p)
  <1>1. CASE kind = "present"
    BY <1>1, PresentSays DEF EvaluatePresence
  <1>2. CASE kind = "session_closed"
    BY <1>2, Evaluations DEF EvaluatePresence, Says, Lost, PresenceStates
  <1>3. CASE kind \notin {"present", "session_closed"}
    BY <1>3, GoneSays DEF EvaluatePresence
  <1> QED BY <1>1, <1>2, <1>3

\* An observation that is not newer changes nothing and is nothing to others; one
\* that is newer moves the watermark and tells of confirmed presence.
LEMMA PresenceStep ==
    ASSUME NEW p \in Presence, NEW kind \in Kinds, NEW t \in Int
    PROVE  LET r == ApplyPresence(p, kind, t)
           IN  /\ r.state \in Presence
               /\ Tells(EventOf(r.reason), p, r.state)
               /\ Order(p.wm, t) = "newer" => r.reason # "late" /\ r.state.wm = t
               /\ Order(p.wm, t) # "newer" =>
                    /\ r.reason = Order(p.wm, t) /\ r.state = p
                    /\ EventOf(r.reason) = "stay"
  <1> DEFINE r == ApplyPresence(p, kind, t)
             ev == EvaluatePresence(p, kind, t)
  <1>1. Order(p.wm, t) \in {"newer", "deduplicated", "reordered", "late"}
    BY DEF Order
  <1>2. CASE Order(p.wm, t) # "newer"
    <2>1. r = [state |-> p, reason |-> Order(p.wm, t)]
      BY <1>2 DEF ApplyPresence
    <2>2. EventOf(r.reason) = "stay"
      BY <1>1, <1>2, <2>1 DEF EventOf, Lost
    <2> QED BY <1>2, <2>1, <2>2 DEF Tells, Lost
  <1>3. CASE Order(p.wm, t) = "newer"
    <2>1. Says(ev, p)
      BY EvaluationSays
    <2> DEFINE state == [st          |-> ev.st,
                         since       |-> IF ev.since = None THEN p.since ELSE ev.since,
                         lastPresent |-> IF ev.seen THEN t ELSE p.lastPresent,
                         wm          |-> t,
                         entry       |-> ev.entry,
                         exit        |-> ev.exit]
    <2>2. r = [reason |-> ev.reason, state |-> state]
      BY <1>3 DEF ApplyPresence
    <2> HIDE DEF ev
    <2>3. state \in Presence /\ state.st = ev.st /\ state.wm = t
      BY <2>1 DEF Says, Evaluation, Presence, Time
    <2>4. /\ ev.reason \in Lost \cup {"enter_confirmed", "observed_stay"}
          /\ ev.reason # "late"
      BY <2>1 DEF Says, Evaluation, Lost
    <2> HIDE DEF state
    <2>5. Tells(EventOf(ev.reason), p, state)
      BY <2>1, <2>3, <2>4 DEF Says, Tells, EventOf, Lost, Confirmed
    <2> QED BY <1>3, <2>2, <2>3, <2>4, <2>5
  <1> QED BY <1>2, <1>3

-----------------------------------------------------------------------------
(* The machines that follow the presence of a track.                       *)

\* A table has one rule for a state and an event, or none.
LEMMA OneRule ==
    ASSUME NEW fsm, NEW from, NEW event, NEW to, <<from, event, to>> \in fsm,
           \A r \in fsm : r[1] = from /\ r[2] = event => r[3] = to
    PROVE  Transition(fsm, from, event) = to
  <1> DEFINE P(r) == r[1] = from /\ r[2] = event
  <1>1. \E r \in fsm : P(r)
    <2>1. P(<<from, event, to>>)
      OBVIOUS
    <2> QED BY <2>1
  <1> DEFINE c == CHOOSE r \in fsm : P(r)
  <1>2. c \in fsm /\ P(c)
    BY <1>1, Zenon
  <1>3. Transition(fsm, from, event) = c[3]
    BY <1>1 DEF Transition
  <1> QED BY <1>2, <1>3

LEMMA NoRule ==
    ASSUME NEW fsm, NEW from, NEW event,
           \A r \in fsm : ~(r[1] = from /\ r[2] = event)
    PROVE  Transition(fsm, from, event) = "invalid"
  BY DEF Transition

\* What dwell makes of an event that is legal for it.
LEMMA DwellRules ==
    /\ Transition(DwellFsm, "idle", "enter_confirmed") = "dwelling"
    /\ Transition(DwellFsm, "dwelling", "exit_confirmed") = "idle"
    /\ Transition(DwellFsm, "dwelling", "missing_expired") = "idle"
    /\ Transition(DwellFsm, "idle", "stay") = "idle"
    /\ Transition(DwellFsm, "dwelling", "stay") = "dwelling"
    /\ Transition(DwellFsm, "idle", "session_closed") = "idle"
    /\ Transition(DwellFsm, "dwelling", "session_closed") = "idle"
  <1>1. ASSUME NEW from, NEW event, NEW to, <<from, event, to>> \in DwellFsm
        PROVE  Transition(DwellFsm, from, event) = to
    <2>1. \A r \in DwellFsm : r[1] = from /\ r[2] = event => r[3] = to
      BY <1>1 DEF DwellFsm
    <2> QED BY <1>1, <2>1, OneRule
  <1>2. /\ <<"idle", "enter_confirmed", "dwelling">> \in DwellFsm
        /\ <<"dwelling", "exit_confirmed", "idle">> \in DwellFsm
        /\ <<"dwelling", "missing_expired", "idle">> \in DwellFsm
        /\ <<"idle", "stay", "idle">> \in DwellFsm
        /\ <<"dwelling", "stay", "dwelling">> \in DwellFsm
        /\ <<"idle", "session_closed", "idle">> \in DwellFsm
        /\ <<"dwelling", "session_closed", "idle">> \in DwellFsm
    BY DEF DwellFsm
  <1> QED BY <1>1, <1>2

\* A newer event that tells the truth is legal for dwell, which is dwelling
\* from then on as long as the presence stays confirmed.
LEMMA DwellStep ==
    ASSUME NEW d \in Dwell, NEW event, NEW t \in Int, NEW p, NEW q,
           Order(d.wm, t) = "newer", Tells(event, p, q),
           d.st = "dwelling" <=> Confirmed(p)
    PROVE  LET n == ApplyDwell(d, event, t)
           IN  /\ ~DwellRaises(d, event, t)
               /\ n \in Dwell /\ n.wm = t
               /\ n.since = IF event = "stay" THEN d.since ELSE t
               /\ n.st = "dwelling" <=> Confirmed(q)
  <1> DEFINE n == ApplyDwell(d, event, t)
             st == Transition(DwellFsm, d.st, event)
  <1>1. d.st \in {"idle", "dwelling"}
    BY DEF Dwell
  <1>2. st \in {"idle", "dwelling"} /\ (st = "dwelling" <=> Confirmed(q))
    <2>1. CASE event = "enter_confirmed"
      BY <1>1, <2>1, DwellRules DEF Tells
    <2>2. CASE event \in {"exit_confirmed", "missing_expired"}
      BY <1>1, <2>2, DwellRules DEF Tells, Lost
    <2>3. CASE event = "session_closed"
      BY <1>1, <2>3, DwellRules DEF Tells, Lost
    <2>4. CASE event = "stay"
      BY <1>1, <2>4, DwellRules DEF Tells
    <2> QED BY <2>1, <2>2, <2>3, <2>4 DEF Tells
  <1> HIDE DEF st
  <1>3. ~DwellRaises(d, event, t)
    BY <1>2 DEF DwellRaises, st
  <1>4. n = [st |-> st, since |-> IF event = "stay" THEN d.since ELSE t, wm |-> t]
    BY <1>3 DEF ApplyDwell, st
  <1>5. d.since \in Time
    BY DEF Dwell
  <1> HIDE DEF n
  <1>6. n \in Dwell /\ n.wm = t /\ n.st = st
          /\ n.since = IF event = "stay" THEN d.since ELSE t
    BY <1>2, <1>4, <1>5 DEF Dwell, Time
  <1> QED BY <1>2, <1>3, <1>6 DEF n

LEMMA MovementStep ==
    ASSUME NEW m \in Movement, NEW dist, NEW t \in Int, Order(m.wm, t) = "newer"
    PROVE  ApplyMovement(m, dist, t) \in Movement /\ ApplyMovement(m, dist, t).wm = t
  <1> DEFINE st == CASE ~Measures(m, t)       -> m.st
                     [] dist > MoveThreshold  -> "moving"
                     [] OTHER                 -> "stationary"
  <1>1. ApplyMovement(m, dist, t) = [wm |-> t, st |-> st]
    BY DEF ApplyMovement
  <1>2. st \in {"unknown", "moving", "stationary"}
    BY DEF Movement
  <1> HIDE DEF st
  <1> QED BY <1>1, <1>2 DEF Movement, Time

LEMMA ClassStep ==
    ASSUME NEW c \in Class, NEW measured, NEW dist, NEW t \in Int,
           Order(c.wm, t) = "newer"
    PROVE  ApplyClass(c, measured, dist, t) \in Class
             /\ ApplyClass(c, measured, dist, t).wm = t
  <1>1. CASE ~measured
    BY <1>1 DEF ApplyClass, Class, Time
  <1>2. CASE measured
    <2> DEFINE seen == Evidence(dist)
    <2>1. ApplyClass(c, measured, dist, t) = Classify(c, dist, t)
      BY <1>2 DEF ApplyClass
    <2>2. seen \in {"moving", "stationary", "band"}
      BY DEF Evidence
    <2>3. ASSUME NEW st \in {"moving", "stationary"}
          PROVE  Settled(st, t) \in Class /\ Settled(st, t).wm = t
      BY DEF Settled, Class, Time
    <2>4. ASSUME NEW target \in {"moving", "stationary"}
          PROVE  Qualify(c, target, t) \in Class /\ Qualify(c, target, t).wm = t
      <3> DEFINE run == IF c.pending = target THEN c.started ELSE t
      <3>1. run \in Time
        BY DEF Class, Time
      <3> HIDE DEF run
      <3>2. /\ [st |-> target, pending |-> None, started |-> None, wm |-> t] \in Class
            /\ [st |-> c.st, pending |-> target, started |-> run, wm |-> t] \in Class
        BY <3>1 DEF Class, Time
      <3> QED BY <3>2 DEF Qualify, run
    <2> HIDE DEF seen
    <2>5. CASE c.st = "unknown"
      <3>1. Classify(c, dist, t) = Settled(IF seen = "moving" THEN "moving" ELSE "stationary", t)
        BY <2>5 DEF Classify, seen
      <3> QED BY <2>1, <2>3, <3>1
    <2>6. CASE c.st # "unknown" /\ seen \in {"band", c.st}
      <3>1. Classify(c, dist, t) = Settled(c.st, t)
        BY <2>6 DEF Classify, seen
      <3> QED BY <2>1, <2>3, <2>6, <3>1 DEF Class
    <2>7. CASE c.st # "unknown" /\ seen \notin {"band", c.st}
      <3>1. Classify(c, dist, t) = Qualify(c, seen, t)
        BY <2>7 DEF Classify, seen
      <3> QED BY <2>1, <2>2, <2>4, <2>7, <3>1
    <2> QED BY <2>5, <2>6, <2>7
  <1> QED BY <1>1, <1>2

\* A candidate for a wait, or a wait, is one in a waiting context, and began no
\* later than it was told of.
Waited(w) ==
    /\ w.st # "not_waiting" => /\ WaitingContext
                               /\ w.candidate \in Int /\ w.wm \in Int
                               /\ w.candidate <= w.wm
    /\ w.st = "waiting" => w.start \in Int /\ w.candidate <= w.start /\ w.start <= w.wm

\* What becomes of w by a newer event at t, after which presence is q.
WaitsOn(w, n, event, stationary, t, q) ==
    /\ n \in Waiting /\ n.wm = t /\ Waited(n)
    /\ n.confirmed <=> Confirmed(q)
    /\ n.st # "not_waiting" =>
         /\ stationary /\ Confirmed(q)
         /\ w.st # "not_waiting" => event = "stay" /\ n.candidate = w.candidate
         /\ w.st = "not_waiting" => n.candidate = t

\* A newer event that tells the truth is legal for waiting.  A wait goes on, or
\* begins, only of a confirmed presence that is stationary.
LEMMA WaitingStep ==
    ASSUME NEW w \in Waiting, NEW event, NEW stationary \in BOOLEAN, NEW t \in Int,
           NEW p, NEW q, Order(w.wm, t) = "newer", Tells(event, p, q),
           w.confirmed <=> Confirmed(p), Waited(w),
           w.st # "not_waiting" => Confirmed(p)
    PROVE  /\ ~WaitingRaises(w, event, stationary, t)
           /\ WaitsOn(w, ApplyWaiting(w, event, stationary, t), event, stationary, t, q)
  <1> DEFINE n == ApplyWaiting(w, event, stationary, t)
             now == NowConfirmed(w, event)
  <1>1. now \in BOOLEAN /\ (now <=> Confirmed(q))
    BY DEF NowConfirmed, Tells, Lost, Waiting
  <1>2. ~WaitingRaises(w, event, stationary, t)
    BY DEF WaitingRaises, Waited, Tells
  <1>3. n = EvaluateWaiting(w, event, stationary, t)
    BY <1>2 DEF ApplyWaiting
  <1>4. /\ w.st \in {"not_waiting", "waiting_candidate", "waiting"}
        /\ w.candidate \in Time /\ w.start \in Time /\ w.wm \in Time
        /\ WaitQualification \in Nat /\ None \notin Int /\ WaitingContext \in BOOLEAN
    BY Numbers DEF Waiting
  <1>5. w.wm \in Int => w.wm < t
    BY <1>4 DEF Order, Time
  <1> HIDE DEF n
  <1> SUFFICES /\ n \in Waiting /\ n.wm = t /\ Waited(n) /\ n.confirmed = now
               /\ n.st # "not_waiting" =>
                    /\ stationary /\ now
                    /\ w.st # "not_waiting" => event = "stay" /\ n.candidate = w.candidate
                    /\ w.st = "not_waiting" => n.candidate = t
    <2>1. n.confirmed = now => (n.confirmed <=> Confirmed(q))
      BY <1>1, Zenon
    <2> QED BY <1>1, <1>2, <2>1 DEF n, WaitsOn
  <1>6. ASSUME NEW st \in {"not_waiting", "waiting_candidate", "waiting"}
        PROVE  LET e == [NewWaiting EXCEPT !.st = st, !.confirmed = now, !.wm = t]
               IN  e \in Waiting /\ e.st = st /\ e.confirmed = now /\ e.wm = t
    BY <1>1 DEF NewWaiting, Waiting, Time
  <1>7. CASE EndsWaiting(event, stationary)
    <2> HIDE DEF now
    <2>1. n = [NewWaiting EXCEPT !.confirmed = now, !.wm = t]
      BY <1>3, <1>7 DEF EvaluateWaiting, now
    <2>2. n \in Waiting /\ n.st = "not_waiting" /\ n.confirmed = now /\ n.wm = t
      BY <1>1, <2>1 DEF NewWaiting, Waiting, Time
    <2> QED BY <2>2 DEF Waited
  <1>8. CASE ~EndsWaiting(event, stationary) /\ (~now \/ ~WaitingContext)
    <2>1. w.st = "not_waiting"
      BY <1>1, <1>8 DEF EndsWaiting, Tells, Waited, NowConfirmed, Lost
    <2> HIDE DEF now
    <2>2. n = [NewWaiting EXCEPT !.st = "not_waiting", !.confirmed = now, !.wm = t]
      BY <1>3, <1>8, <2>1 DEF EvaluateWaiting, now
    <2>3. n \in Waiting /\ n.st = "not_waiting" /\ n.confirmed = now /\ n.wm = t
      BY <1>6, <2>2
    <2> QED BY <2>3 DEF Waited
  <1>9. CASE ~EndsWaiting(event, stationary) /\ now /\ WaitingContext
    <2> DEFINE since == IF w.st = "not_waiting" THEN t ELSE w.candidate
    <2>1. n = IF w.st = "waiting" THEN Waits("waiting", since, w.start, t)
              ELSE IF t - since >= WaitQualification THEN Waits("waiting", since, t, t)
              ELSE Waits("waiting_candidate", since, None, t)
      BY <1>3, <1>9 DEF EvaluateWaiting
    <2>2. stationary /\ (w.st # "not_waiting" => event = "stay")
      BY <1>9 DEF EndsWaiting, Tells, Waited, Lost
    <2>3. since \in Int /\ since <= t
      BY <1>4, <1>5 DEF Waited
    <2>4. IF w.st = "not_waiting" THEN since = t ELSE since = w.candidate
      OBVIOUS
    <2> HIDE DEF since, now
    <2>5. ASSUME NEW st \in {"waiting_candidate", "waiting"}, NEW start \in Time
          PROVE  LET e == Waits(st, since, start, t)
                 IN  /\ e \in Waiting /\ e.st = st /\ e.confirmed = now /\ e.wm = t
                     /\ e.candidate = since /\ e.start = start
      <3>1. Waits(st, since, start, t) =
              [st |-> st, confirmed |-> now, candidate |-> since, start |-> start, wm |-> t]
        BY <1>9, now = TRUE DEF Waits
      <3> QED BY <1>1, <2>3, <3>1 DEF Waiting, Time
    <2>6. CASE w.st = "waiting"
      <3>1. w.start \in Int /\ since <= w.start /\ w.start <= t
        BY <1>4, <1>5, <2>6 DEF Waited, since
      <3>2. n = Waits("waiting", since, w.start, t)
        BY <2>1, <2>6
      <3>3. n \in Waiting /\ n.st = "waiting" /\ n.confirmed = now /\ n.wm = t
              /\ n.candidate = since /\ n.start = w.start
        BY <1>4, <2>5, <3>2
      <3> QED BY <1>9, <2>2, <2>3, <2>4, <2>6, <3>1, <3>3 DEF Waited
    <2>7. CASE w.st # "waiting" /\ t - since >= WaitQualification
      <3>1. n = Waits("waiting", since, t, t)
        BY <2>1, <2>7
      <3>2. n \in Waiting /\ n.st = "waiting" /\ n.confirmed = now /\ n.wm = t
              /\ n.candidate = since /\ n.start = t
        BY <2>5, <3>1 DEF Time
      <3> QED BY <1>9, <2>2, <2>3, <2>4, <2>7, <3>2 DEF Waited
    <2>8. CASE w.st # "waiting" /\ ~(t - since >= WaitQualification)
      <3>1. n = Waits("waiting_candidate", since, None, t)
        BY <2>1, <2>8
      <3>2. n \in Waiting /\ n.st = "waiting_candidate" /\ n.confirmed = now /\ n.wm = t
              /\ n.candidate = since
        BY <2>5, <3>1 DEF Time
      <3> QED BY <1>9, <2>2, <2>3, <2>4, <2>8, <3>2 DEF Waited
    <2> QED BY <2>6, <2>7, <2>8
  <1> QED BY <1>1, <1>7, <1>8, <1>9

-----------------------------------------------------------------------------
(* The agreement of the machines of a track.                               *)

\* The machines are at the same observation; dwell and waiting know whether
\* presence is confirmed, and a wait is a stationary part of its dwell.
Agrees(p, m) ==
    /\ p \in Presence /\ m \in Followers
    /\ m.dwell.wm = p.wm /\ m.movement.wm = p.wm
    /\ m.class.wm = p.wm /\ m.waiting.wm = p.wm
    /\ m.dwell.st = "dwelling" <=> Confirmed(p)
    /\ m.dwell.st = "dwelling" => /\ m.dwell.since \in Int /\ m.dwell.wm \in Int
                                  /\ m.dwell.since <= m.dwell.wm
    /\ m.waiting.confirmed <=> Confirmed(p)
    /\ m.waiting.st # "not_waiting" => /\ Confirmed(p) /\ m.class.st = "stationary"
                                       /\ m.dwell.since <= m.waiting.candidate
    /\ Waited(m.waiting)

\* What machines that agree say of the times they keep.
LEMMA AgreesIs ==
    ASSUME NEW p, NEW m, Agrees(p, m)
    PROVE  /\ p \in Presence /\ m \in Followers
           /\ p.wm = m.dwell.wm /\ m.waiting.wm = m.dwell.wm
           /\ m.dwell.st = "dwelling" <=> Confirmed(p)
           /\ m.dwell.st = "dwelling" => /\ m.dwell.since \in Int /\ m.dwell.wm \in Int
                                         /\ m.dwell.since <= m.dwell.wm
           /\ m.waiting.st = "waiting" =>
                /\ m.waiting.start \in Int /\ m.waiting.wm \in Int
                /\ m.waiting.start <= m.waiting.wm
  BY DEF Agrees, Waited

\* New machines agree.
LEMMA NewAgree == Agrees(NewPresence, NewTimed)
  <1>1. NewPresence \in Presence
    BY DEF NewPresence, Presence, PresenceStates, Time
  <1>2. NewTimed \in Followers
    <2>1. NewDwell \in Dwell /\ NewMovement \in Movement /\ NewClass \in Class
      BY DEF NewDwell, Dwell, NewMovement, Movement, NewClass, Class, Time
    <2>2. NewWaiting \in Waiting
      BY DEF NewWaiting, Waiting, Time
    <2> QED BY <2>1, <2>2 DEF NewTimed, Followers
  <1>3. ~Confirmed(NewPresence) /\ NewPresence.wm = None
    BY DEF NewPresence, Confirmed
  <1>4. /\ NewTimed.dwell = NewDwell /\ NewTimed.movement = NewMovement
        /\ NewTimed.class = NewClass /\ NewTimed.waiting = NewWaiting
    BY DEF NewTimed
  <1>5. /\ NewDwell.st = "idle" /\ NewDwell.wm = None
        /\ NewMovement.wm = None /\ NewClass.wm = None
        /\ NewWaiting.st = "not_waiting" /\ NewWaiting.wm = None
    BY DEF NewDwell, NewMovement, NewClass, NewWaiting
  <1>6. ~NewWaiting.confirmed
    BY DEF NewWaiting
  <1> QED BY <1>1, <1>2, <1>3, <1>4, <1>5, <1>6 DEF Agrees, Waited

\* Machines that agree still do after an observation, and none rejects it.
LEMMA AgreeAfter ==
    ASSUME NEW p, NEW m, Agrees(p, m), NEW kind \in Kinds, NEW t \in Int, NEW dist
    PROVE  LET r == ApplyPresence(p, kind, t)
               event == EventOf(r.reason)
           IN  /\ r.reason # "late" =>
                    /\ ~DwellRaises(m.dwell, event, t)
                    /\ ~WaitingRaises(m.waiting, event, TRUE, t)
               /\ Agrees(r.state, Follow(m, event, dist, t))
  <1> DEFINE r == ApplyPresence(p, kind, t)
             event == EventOf(r.reason)
             class == ApplyClass(m.class, Measures(m.movement, t), dist, t)
             stationary == class.st = "stationary"
             dwell == ApplyDwell(m.dwell, event, t)
             movement == ApplyMovement(m.movement, dist, t)
             waiting == ApplyWaiting(m.waiting, event, stationary, t)
             n == Follow(m, event, dist, t)
  <1>1. n = [dwell |-> dwell, movement |-> movement, class |-> class, waiting |-> waiting]
    BY DEF Follow
  <1>2. /\ p \in Presence /\ m \in Followers
        /\ m.dwell \in Dwell /\ m.movement \in Movement
        /\ m.class \in Class /\ m.waiting \in Waiting
    BY DEF Agrees, Followers
  <1>3. /\ r.state \in Presence
        /\ Tells(event, p, r.state)
        /\ Order(p.wm, t) = "newer" => r.reason # "late" /\ r.state.wm = t
        /\ Order(p.wm, t) # "newer" =>
             /\ r.reason = Order(p.wm, t) /\ r.state = p /\ event = "stay"
    BY <1>2, PresenceStep
  <1>4. /\ Order(m.dwell.wm, t) = Order(p.wm, t)
        /\ Order(m.movement.wm, t) = Order(p.wm, t)
        /\ Order(m.class.wm, t) = Order(p.wm, t)
        /\ Order(m.waiting.wm, t) = Order(p.wm, t)
    BY DEF Agrees
  <1> HIDE DEF r, event, n
  <1>5. CASE Order(p.wm, t) # "newer"
    <2>1. dwell = m.dwell /\ movement = m.movement /\ class = m.class /\ waiting = m.waiting
      BY <1>4, <1>5 DEF ApplyDwell, ApplyMovement, ApplyClass, ApplyWaiting
    <2>2. n = m
      BY <1>1, <1>2, <2>1 DEF Followers
    <2>3. r.reason # "late" => ~DwellRaises(m.dwell, event, t)
                                 /\ ~WaitingRaises(m.waiting, event, TRUE, t)
      BY <1>3, <1>4, <1>5 DEF DwellRaises, WaitingRaises
    <2> QED BY <1>3, <1>5, <2>2, <2>3 DEF r, event, n
  <1>6. CASE Order(p.wm, t) = "newer"
    <2>1. /\ ~DwellRaises(m.dwell, event, t)
          /\ dwell \in Dwell /\ dwell.wm = t
          /\ dwell.since = (IF event = "stay" THEN m.dwell.since ELSE t)
          /\ dwell.st = "dwelling" <=> Confirmed(r.state)
      BY <1>2, <1>3, <1>4, <1>6, DwellStep DEF Agrees
    <2>2. movement \in Movement /\ movement.wm = t
      BY <1>2, <1>4, <1>6, MovementStep
    <2>3. class \in Class /\ class.wm = t
      BY <1>2, <1>4, <1>6, ClassStep
    <2> DEFINE w == m.waiting
    <2>4. /\ w \in Waiting /\ Waited(w) /\ Order(w.wm, t) = "newer"
          /\ w.confirmed <=> Confirmed(p)
          /\ w.st # "not_waiting" => Confirmed(p)
      BY <1>2, <1>4, <1>6 DEF Agrees
    <2> HIDE DEF w
    <2>5. ~WaitingRaises(w, event, TRUE, t)
      BY <1>3, <2>4, WaitingStep
    <2>6. WaitsOn(w, waiting, event, stationary, t, r.state)
      <3>1. waiting = ApplyWaiting(w, event, stationary, t)
        BY DEF w
      <3> HIDE DEF waiting
      <3>2. stationary \in BOOLEAN
        OBVIOUS
      <3> QED BY <1>3, <2>4, <3>1, <3>2, WaitingStep
    <2> HIDE DEF class, stationary, dwell, movement, waiting
    <2>7. dwell.st = "dwelling" => dwell.since \in Int /\ dwell.since <= t
      <3>1. CASE event = "stay"
        <4>1. Confirmed(r.state) => Confirmed(p)
          BY <1>3, <3>1 DEF Tells
        <4>2. m.dwell.wm \in Int => m.dwell.wm < t
          BY <1>4, <1>6, Numbers DEF Order
        <4> QED BY <2>1, <3>1, <4>1, <4>2 DEF Agrees
      <3>2. CASE event # "stay"
        BY <2>1, <3>2
      <3> QED BY <3>1, <3>2
    <2>8. waiting.st # "not_waiting" => dwell.since <= waiting.candidate
      <3>1. CASE m.waiting.st # "not_waiting"
        BY <2>1, <2>6, <3>1 DEF Agrees, WaitsOn, w
      <3>2. CASE m.waiting.st = "not_waiting"
        BY <2>1, <2>6, <2>7, <3>2 DEF WaitsOn, w
      <3> QED BY <3>1, <3>2
    <2>9. n \in Followers
      BY <1>1, <2>1, <2>2, <2>3, <2>6 DEF Followers, WaitsOn
    <2>10. n.dwell = dwell /\ n.movement = movement /\ n.class = class /\ n.waiting = waiting
      BY <1>1
    <2>11. Agrees(r.state, n)
      BY <1>3, <1>6, <2>1, <2>2, <2>3, <2>6, <2>7, <2>8, <2>9, <2>10
         DEF Agrees, WaitsOn, stationary
    <2> QED BY <2>1, <2>5, <2>11 DEF r, event, n, w
  <1> QED BY <1>5, <1>6

-----------------------------------------------------------------------------
(* Time.                                                                   *)

\* Time moves all times back, and keeps their order.
LEMMA AgedTime ==
    ASSUME NEW a \in Nat
    PROVE  /\ \A x \in Time : Aged(x, a) \in Time /\ (x \in Int <=> Aged(x, a) \in Int)
           /\ \A x, y \in Int : x <= y => Aged(x, a) <= Aged(y, a)
  BY Numbers DEF Aged, Time

LEMMA AgedPair ==
    ASSUME NEW a \in Nat, NEW x \in Int, NEW y \in Int, x <= y
    PROVE  Aged(x, a) \in Int /\ Aged(y, a) \in Int /\ Aged(x, a) <= Aged(y, a)
  BY Numbers DEF Aged

LEMMA AgedPresenceIs ==
    ASSUME NEW p \in Presence, NEW a \in Nat
    PROVE  LET q == AgedPresence(p, a)
           IN  q \in Presence /\ q.st = p.st /\ q.wm = Aged(p.wm, a)
  <1> DEFINE since == Aged(p.since, a)
             lastPresent == Aged(p.lastPresent, a)
             wm == Aged(p.wm, a)
  <1>1. since \in Time /\ lastPresent \in Time /\ wm \in Time
    BY AgedTime DEF Presence
  <1>2. AgedPresence(p, a) = [p EXCEPT !.since = since, !.lastPresent = lastPresent, !.wm = wm]
    BY DEF AgedPresence, Presence
  <1> HIDE DEF since, lastPresent, wm
  <1>3. AgedPresence(p, a) \in Presence /\ AgedPresence(p, a).st = p.st
          /\ AgedPresence(p, a).wm = wm
    BY <1>1, <1>2 DEF Presence
  <1> QED BY <1>3 DEF wm

\* Machines that agree do so as time passes.
LEMMA AgreeAged ==
    ASSUME NEW p, NEW m, Agrees(p, m), NEW a \in Nat
    PROVE  Agrees(AgedPresence(p, a), AgedTimed(m, a))
  <1> DEFINE q == AgedPresence(p, a)
             n == AgedTimed(m, a)
  <1>1. p \in Presence /\ m \in Followers
    BY DEF Agrees
  <1>2. q \in Presence /\ q.st = p.st /\ q.wm = Aged(p.wm, a)
    BY <1>1, AgedPresenceIs
  <1>3. /\ n.dwell \in Dwell /\ n.dwell.st = m.dwell.st
        /\ n.dwell.since = Aged(m.dwell.since, a) /\ n.dwell.wm = Aged(m.dwell.wm, a)
    BY <1>1, AgedTime DEF AgedTimed, Followers, Dwell
  <1>4. n.movement \in Movement /\ n.movement.wm = Aged(m.movement.wm, a)
    BY <1>1, AgedTime DEF AgedTimed, Followers, Movement
  <1>5. /\ n.class \in Class /\ n.class.st = m.class.st
        /\ n.class.wm = Aged(m.class.wm, a)
    BY <1>1, AgedTime DEF AgedTimed, Followers, Class
  <1>6. /\ n.waiting \in Waiting /\ n.waiting.st = m.waiting.st
        /\ n.waiting.confirmed = m.waiting.confirmed
        /\ n.waiting.candidate = Aged(m.waiting.candidate, a)
        /\ n.waiting.start = Aged(m.waiting.start, a)
        /\ n.waiting.wm = Aged(m.waiting.wm, a)
    BY <1>1, AgedTime DEF AgedTimed, Followers, Waiting
  <1>7. n \in Followers
    <2>1. n = [dwell |-> n.dwell, movement |-> n.movement, class |-> n.class,
               waiting |-> n.waiting]
      BY DEF AgedTimed
    <2> HIDE DEF n
    <2> QED BY <1>3, <1>4, <1>5, <1>6, <2>1 DEF Followers
  <1> HIDE DEF q, n
  <1>8. Confirmed(q) <=> Confirmed(p)
    BY <1>2 DEF Confirmed
  <1>9. n.waiting.confirmed <=> Confirmed(q)
    <2>1. m.waiting.confirmed <=> Confirmed(p)
      BY DEF Agrees
    <2> QED BY <1>6, <1>8, <2>1, Zenon
  <1>10. Waited(n.waiting)
    <2> DEFINE w == m.waiting
               v == n.waiting
    <2>1. Waited(w)
      BY DEF Agrees
    <2>2. /\ v.st = w.st /\ v.candidate = Aged(w.candidate, a)
          /\ v.start = Aged(w.start, a) /\ v.wm = Aged(w.wm, a)
      BY <1>6
    <2> HIDE DEF w, v
    <2>3. ASSUME w.st # "not_waiting"
          PROVE  /\ WaitingContext /\ v.candidate \in Int /\ v.wm \in Int
                 /\ v.candidate <= v.wm
      <3>1. WaitingContext /\ w.candidate \in Int /\ w.wm \in Int /\ w.candidate <= w.wm
        BY <2>1, <2>3 DEF Waited
      <3> QED BY ONLY a \in Nat, <2>2, <3>1, AgedPair
    <2>4. ASSUME w.st = "waiting"
          PROVE  v.start \in Int /\ v.candidate <= v.start /\ v.start <= v.wm
      <3>1. /\ w.candidate \in Int /\ w.wm \in Int /\ w.start \in Int
            /\ w.candidate <= w.start /\ w.start <= w.wm
        BY <2>1, <2>4 DEF Waited
      <3> QED BY ONLY a \in Nat, <2>2, <3>1, AgedPair
    <2>5. Waited(v)
      BY ONLY <2>2, <2>3, <2>4 DEF Waited
    <2> QED BY <2>5 DEF v
  <1>11. n.dwell.st = "dwelling" => /\ n.dwell.since \in Int /\ n.dwell.wm \in Int
                                    /\ n.dwell.since <= n.dwell.wm
    <2>1. m.dwell.st = "dwelling" =>
            /\ m.dwell.since \in Int /\ m.dwell.wm \in Int
            /\ m.dwell.since <= m.dwell.wm
      BY DEF Agrees
    <2>2. m.dwell.since \in Time /\ m.dwell.wm \in Time
      BY <1>1 DEF Followers, Dwell
    <2> QED BY <1>3, <2>1, <2>2, AgedTime
  <1>12. n.waiting.st # "not_waiting" => n.dwell.since <= n.waiting.candidate
    <2>1. m.waiting.st # "not_waiting" =>
            /\ m.dwell.since \in Int /\ m.waiting.candidate \in Int
            /\ m.dwell.since <= m.waiting.candidate
      BY DEF Agrees, Waited
    <2> QED BY <1>3, <1>6, <2>1, AgedTime
  <1>13. Agrees(q, n)
    BY <1>2, <1>3, <1>4, <1>5, <1>6, <1>7, <1>8, <1>9, <1>10, <1>11, <1>12 DEF Agrees
  <1> QED BY <1>13 DEF q, n

-----------------------------------------------------------------------------
(* Occupancy.                                                              *)

\* What the zone makes of an event: a second entry and an exit of a track that is
\* not there are the only ones it has no rule for.
LEMMA ZoneRules ==
    /\ Transition(OccupancyFsm, "idle", "enter_confirmed") = "occupied"
    /\ Transition(OccupancyFsm, "occupied", "exit_confirmed") = "idle"
    /\ Transition(OccupancyFsm, "occupied", "missing_expired") = "idle"
    /\ Transition(OccupancyFsm, "occupied", "session_closed") = "idle"
    /\ Transition(OccupancyFsm, "idle", "session_closed") = "idle"
    /\ Transition(OccupancyFsm, "idle", "stay") = "idle"
    /\ Transition(OccupancyFsm, "occupied", "stay") = "occupied"
    /\ Transition(OccupancyFsm, "occupied", "enter_confirmed") = "invalid"
    /\ Transition(OccupancyFsm, "idle", "exit_confirmed") = "invalid"
    /\ Transition(OccupancyFsm, "idle", "missing_expired") = "invalid"
  <1>1. ASSUME NEW from, NEW event, NEW to, <<from, event, to>> \in OccupancyFsm
        PROVE  Transition(OccupancyFsm, from, event) = to
    <2>1. \A r \in OccupancyFsm : r[1] = from /\ r[2] = event => r[3] = to
      BY <1>1 DEF OccupancyFsm
    <2> QED BY <1>1, <2>1, OneRule
  <1>2. /\ <<"idle", "enter_confirmed", "occupied">> \in OccupancyFsm
        /\ <<"occupied", "exit_confirmed", "idle">> \in OccupancyFsm
        /\ <<"occupied", "missing_expired", "idle">> \in OccupancyFsm
        /\ <<"occupied", "session_closed", "idle">> \in OccupancyFsm
        /\ <<"idle", "session_closed", "idle">> \in OccupancyFsm
        /\ <<"idle", "stay", "idle">> \in OccupancyFsm
        /\ <<"occupied", "stay", "occupied">> \in OccupancyFsm
    BY DEF OccupancyFsm
  <1>3. /\ \A r \in OccupancyFsm : ~(r[1] = "occupied" /\ r[2] = "enter_confirmed")
        /\ \A r \in OccupancyFsm : ~(r[1] = "idle" /\ r[2] = "exit_confirmed")
        /\ \A r \in OccupancyFsm : ~(r[1] = "idle" /\ r[2] = "missing_expired")
    BY DEF OccupancyFsm
  <1> QED BY <1>1, <1>2, <1>3, NoRule

\* A zone stays one, and changes its mind about the track of the event only.  An
\* event that comes in order and tells the truth leaves it right about that
\* track, whether it was before or not; one that is nothing leaves it as it was.
LEMMA ZoneStep ==
    ASSUME NEW z \in ZoneType, NEW k \in Tracks, NEW event, NEW t \in Int,
           NEW p, NEW q, Tells(event, p, q)
    PROVE  LET n == ApplyZone(z, k, event, t)
           IN  /\ n \in ZoneType
               /\ \A l \in Tracks \ {k} : l \in n.occupied <=> l \in z.occupied
               /\ event = "stay" => (k \in n.occupied <=> k \in z.occupied)
               /\ event # "stay" /\ ZoneOrder(z, k, t) = "newer" =>
                    (k \in n.occupied <=> Confirmed(q))
               /\ (k \in z.occupied <=> Confirmed(p)) => ~ZoneRaises(z, k, event, t)
  <1> DEFINE n == ApplyZone(z, k, event, t)
             next == NextEntity(z, k, event)
             occupied == IF next = "occupied" THEN z.occupied \cup {k} ELSE z.occupied \ {k}
             positions == [z.positions EXCEPT ![k] = t]
  <1>1. /\ k \in z.occupied => next = Transition(OccupancyFsm, "occupied", event)
        /\ k \notin z.occupied => next = Transition(OccupancyFsm, "idle", event)
    BY DEF NextEntity
  <1> HIDE DEF next
  <1>2. /\ event = "stay" => (next = "occupied" <=> k \in z.occupied) /\ next # "invalid"
        /\ next = "invalid" => (k \in z.occupied <=> Confirmed(q)) /\ event # "stay"
        /\ event # "stay" /\ next # "invalid" => (next = "occupied" <=> Confirmed(q))
    BY <1>1, ZoneRules DEF Tells, Lost
  <1>3. (k \in z.occupied <=> Confirmed(p)) => next # "invalid"
    BY <1>1, ZoneRules DEF Tells, Lost
  <1>4. CASE ZoneOrder(z, k, t) # "newer" \/ next = "invalid"
    <2>1. n = z
      BY <1>4 DEF ApplyZone, ZoneRaises, next
    <2> QED BY <1>2, <1>3, <1>4, <2>1 DEF ZoneRaises, next
  <1>5. CASE ZoneOrder(z, k, t) = "newer" /\ next # "invalid"
    <2>1. n = [occupied |-> occupied, positions |-> positions, wm |-> t]
      BY <1>5 DEF ApplyZone, ZoneRaises, next
    <2>2. positions \in [Tracks -> Time] /\ occupied \in SUBSET Tracks
      BY DEF ZoneType, Time
    <2>3. /\ \A l \in Tracks \ {k} : l \in occupied <=> l \in z.occupied
          /\ k \in occupied <=> next = "occupied"
      OBVIOUS
    <2> HIDE DEF occupied, positions
    <2>4. n \in ZoneType
      BY <2>1, <2>2 DEF ZoneType, Time
    <2>5. n.occupied = occupied
      BY <2>1
    <2>6. ~ZoneRaises(z, k, event, t)
      BY <1>5 DEF ZoneRaises, next
    <2> HIDE DEF n
    <2> SUFFICES /\ n \in ZoneType
                 /\ \A l \in Tracks \ {k} : l \in n.occupied <=> l \in z.occupied
                 /\ event = "stay" => (k \in n.occupied <=> k \in z.occupied)
                 /\ event # "stay" => (k \in n.occupied <=> Confirmed(q))
      BY <2>6 DEF n
    <2> QED BY <1>2, <1>5, <2>3, <2>4, <2>5
  <1> QED BY <1>4, <1>5

LEMMA AgedZoneIs ==
    ASSUME NEW z \in ZoneType, NEW a \in Nat
    PROVE  AgedZone(z, a) \in ZoneType /\ AgedZone(z, a).occupied = z.occupied
  <1> DEFINE positions == [k \in Tracks |-> Aged(z.positions[k], a)]
             wm == Aged(z.wm, a)
  <1>1. positions \in [Tracks -> Time] /\ wm \in Time
    BY AgedTime DEF ZoneType
  <1>2. AgedZone(z, a) = [z EXCEPT !.wm = wm, !.positions = positions]
    BY DEF AgedZone, ZoneType
  <1> HIDE DEF positions, wm
  <1> QED BY <1>1, <1>2 DEF ZoneType

-----------------------------------------------------------------------------
(* The theorems.                                                           *)

\* The machines of every timed track agree, and the zone is right about all
\* tracks but those it has missed a confirmation of.
TemporalInv ==
    /\ presence \in [Tracks -> Presence]
    /\ timed = [k \in Timed |-> timed[k]]
    /\ zone \in ZoneType
    /\ \A k \in Timed : Agrees(presence[k], timed[k])
    /\ \A k \in Tracks \ missed : k \in zone.occupied <=> Confirmed(presence[k])

LEMMA InitTemporal == TemporalInit => TemporalInv
  <1> SUFFICES ASSUME TemporalInit PROVE TemporalInv
    OBVIOUS
  <1>1. NewPresence \in Presence /\ ~Confirmed(NewPresence)
    BY NewAgree DEF Agrees, NewPresence, Confirmed
  <1>2. NewZone(Tracks) \in ZoneType /\ NewZone(Tracks).occupied = {}
    BY DEF NewZone, ZoneType, Time
  <1>3. \A k \in Timed : presence[k] = NewPresence /\ timed[k] = NewTimed
    BY Numbers DEF TemporalInit
  <1> QED BY <1>1, <1>2, <1>3, NewAgree DEF TemporalInit, TemporalInv

LEMMA ObserveTemporal ==
    ASSUME TemporalInv, NEW k \in Tracks, NEW kind \in Kinds, NEW t \in Times,
           NEW dist, ObserveTrack(k, kind, dist, t)
    PROVE  TemporalInv'
  <1> DEFINE r == ApplyPresence(presence[k], kind, t)
             event == EventOf(r.reason)
             newer == IF t > 0 THEN t ELSE 0
             p(l) == IF l = k THEN r.state ELSE presence[l]
             m(l) == IF l = k THEN Follow(timed[l], event, dist, t) ELSE timed[l]
             z == ApplyZone(zone, k, event, t)
  <1>1. t \in Int /\ newer \in Nat
    BY Numbers DEF Times
  <1>2. /\ presence' = [l \in Tracks |-> AgedPresence(p(l), newer)]
        /\ timed' = [l \in Timed |-> AgedTimed(m(l), newer)]
        /\ zone' = AgedZone(z, newer)
        /\ missed' = StillMissed(k, event, t)
    BY DEF ObserveTrack
  <1>3. r.state \in Presence /\ Tells(event, presence[k], r.state)
    BY <1>1, PresenceStep DEF TemporalInv
  <1>4. ASSUME NEW l \in Tracks
        PROVE  /\ p(l) \in Presence
               /\ AgedPresence(p(l), newer) \in Presence
               /\ Confirmed(AgedPresence(p(l), newer)) <=> Confirmed(p(l))
    <2>1. p(l) \in Presence
      BY <1>3 DEF TemporalInv
    <2> HIDE DEF newer, p
    <2> QED BY <1>1, <2>1, AgedPresenceIs DEF Confirmed
  <1>5. ASSUME NEW l \in Timed
        PROVE  Agrees(AgedPresence(p(l), newer), AgedTimed(m(l), newer))
    <2>1. Agrees(presence[l], timed[l])
      BY DEF TemporalInv
    <2>2. CASE l = k
      <3>1. Agrees(r.state, Follow(timed[k], event, dist, t))
        BY <1>1, <2>1, <2>2, AgreeAfter
      <3>2. p(l) = r.state /\ m(l) = Follow(timed[k], event, dist, t)
        BY <2>2
      <3> HIDE DEF r, event, newer, p, m
      <3> QED BY <1>1, <3>1, <3>2, AgreeAged
    <2>3. CASE l # k
      <3>1. p(l) = presence[l] /\ m(l) = timed[l]
        BY <2>3
      <3> HIDE DEF r, event, newer, p, m
      <3> QED BY <1>1, <2>1, <3>1, AgreeAged
    <2> QED BY <2>2, <2>3
  <1>6. /\ z \in ZoneType
        /\ \A l \in Tracks \ {k} : l \in z.occupied <=> l \in zone.occupied
        /\ event = "stay" => (k \in z.occupied <=> k \in zone.occupied)
        /\ event # "stay" /\ ZoneOrder(zone, k, t) = "newer" =>
             (k \in z.occupied <=> Confirmed(r.state))
    BY <1>1, <1>3, ZoneStep DEF TemporalInv
  <1> HIDE DEF r, event, newer, z
  <1>7. zone' \in ZoneType /\ zone'.occupied = z.occupied
    BY <1>1, <1>2, <1>6, AgedZoneIs
  <1>8. presence' \in [Tracks -> Presence]
    <2> HIDE DEF p
    <2> QED BY <1>2, <1>4
  <1>9. timed' = [l \in Timed |-> timed'[l]] /\ \A l \in Timed : Agrees(presence'[l], timed'[l])
    <2> HIDE DEF p, m
    <2>1. \A l \in Timed : presence'[l] = AgedPresence(p(l), newer)
      BY <1>2, Numbers
    <2>2. \A l \in Timed : timed'[l] = AgedTimed(m(l), newer)
      BY <1>2
    <2>3. timed' = [l \in Timed |-> timed'[l]]
      BY <1>2
    <2> QED BY <1>5, <2>1, <2>2, <2>3
  <1>10. ASSUME NEW l \in Tracks \ missed'
         PROVE  l \in zone'.occupied <=> Confirmed(presence'[l])
    <2>1. Confirmed(presence'[l]) <=> Confirmed(p(l))
      <3> HIDE DEF p
      <3> QED BY <1>2, <1>4
    <2>2. CASE l # k
      <3>1. l \notin missed
        BY <1>2, <2>2 DEF StillMissed
      <3> QED BY <1>6, <1>7, <2>1, <2>2, <3>1 DEF TemporalInv
    <2>3. CASE l = k /\ event = "stay"
      <3>1. l \notin missed
        BY <1>2, <2>3 DEF StillMissed
      <3> QED BY <1>3, <1>6, <1>7, <2>1, <2>3, <3>1 DEF TemporalInv, Tells
    <2>4. CASE l = k /\ event # "stay"
      <3>1. ZoneOrder(zone, k, t) = "newer"
        BY <1>2, <2>4 DEF StillMissed
      <3> QED BY <1>6, <1>7, <2>1, <2>4, <3>1
    <2> QED BY <2>2, <2>3, <2>4
  <1> QED BY <1>7, <1>8, <1>9, <1>10 DEF TemporalInv

LEMMA NextTemporal == TemporalInv /\ [TemporalNext]_temporalVars => TemporalInv'
  <1> SUFFICES ASSUME TemporalInv, [TemporalNext]_temporalVars PROVE TemporalInv'
    OBVIOUS
  <1>1. CASE TemporalNext
    BY <1>1, ObserveTemporal DEF TemporalNext
  <1>2. CASE UNCHANGED temporalVars
    BY <1>2 DEF temporalVars, TemporalInv
  <1> QED BY <1>1, <1>2

LEMMA AlwaysTemporal == TemporalSpec => []TemporalInv
  BY InitTemporal, NextTemporal, PTL DEF TemporalSpec

LEMMA TemporalAgree == TemporalInv => MachinesAgree
  <1> SUFFICES ASSUME TemporalInv, NEW k \in Timed
               PROVE  LET d == timed[k].dwell   w == timed[k].waiting
                      IN  /\ d.st = "dwelling" <=> Confirmed(presence[k])
                          /\ w.confirmed <=> Confirmed(presence[k])
                          /\ w.st # "not_waiting" => /\ w.confirmed
                                                     /\ timed[k].class.st = "stationary"
                                                     /\ d.since <= w.candidate
                          /\ w.st = "waiting" => w.candidate <= w.start
                          /\ \A kind \in Kinds, t \in Times :
                                ApplyPresence(presence[k], kind, t).reason # "late" =>
                                  /\ ~DwellRaises(d, EventAt(k, kind, t), t)
                                  /\ ~WaitingRaises(w, EventAt(k, kind, t), TRUE, t)
    BY Zenon DEF MachinesAgree
  <1>1. Agrees(presence[k], timed[k])
    BY DEF TemporalInv
  <1>2. ASSUME NEW kind \in Kinds, NEW t \in Times,
               ApplyPresence(presence[k], kind, t).reason # "late"
        PROVE  /\ ~DwellRaises(timed[k].dwell, EventAt(k, kind, t), t)
               /\ ~WaitingRaises(timed[k].waiting, EventAt(k, kind, t), TRUE, t)
    <2>1. t \in Int
      BY Numbers DEF Times
    <2> QED BY <1>1, <1>2, <2>1, AgreeAfter DEF EventAt
  <1> QED BY <1>1, <1>2 DEF Agrees, Waited

LEMMA TemporalCounts == TemporalInv => CountsWhoIsPresent
  <1> SUFFICES ASSUME TemporalInv, NEW k \in Tracks \ missed
               PROVE  /\ k \in zone.occupied <=> Confirmed(presence[k])
                      /\ \A kind \in Kinds, t \in Times :
                            ~ZoneRaises(zone, k, EventAt(k, kind, t), t)
    BY DEF CountsWhoIsPresent
  <1>1. k \in zone.occupied <=> Confirmed(presence[k])
    BY DEF TemporalInv
  <1>2. ASSUME NEW kind \in Kinds, NEW t \in Times
        PROVE  ~ZoneRaises(zone, k, EventAt(k, kind, t), t)
    <2>1. t \in Int /\ presence[k] \in Presence /\ zone \in ZoneType
      BY Numbers DEF Times, TemporalInv
    <2>2. Tells(EventAt(k, kind, t), presence[k], ApplyPresence(presence[k], kind, t).state)
      BY <2>1, PresenceStep DEF EventAt
    <2> QED BY <1>1, <2>1, <2>2, ZoneStep
  <1> QED BY <1>1, <1>2

\* Whatever is observed, repeated, late or out of order: dwell and waiting know
\* of the same confirmed presence, a wait is a stationary part of its dwell, and
\* neither is ever asked for a transition it does not have.
THEOREM MachinesAlwaysAgree == TemporalSpec => []MachinesAgree
  BY AlwaysTemporal, TemporalAgree, PTL

\* The zone counts exactly the tracks whose presence is confirmed, but for those
\* whose last confirmation it did not apply, and rejects no transition of them.
THEOREM CountIsRight == TemporalSpec => []CountsWhoIsPresent
  BY AlwaysTemporal, TemporalCounts, PTL

-----------------------------------------------------------------------------
(* Rules: what a match says.                                               *)

OfDwell == {"dwell_threshold", "turnover_delay"}

OfWaiting == {"queue_candidate", "service_gap_candidate"}

\* Rules that are about an interval that is still open.
OfOpen == {"service_gap_candidate", "turnover_delay"}

RuleIds == {"occupancy_session", "data_quality"} \cup OfDwell \cup OfWaiting

LEMMA RulesAre ==
    ASSUME NEW rule \in OperationalRules
    PROVE  /\ rule.id \in RuleIds /\ rule.type = rule.id
           /\ rule.evidence = IF rule.id = "data_quality" THEN "optional" ELSE "required"
  BY DEF OperationalRules, OccupancySessionRule, DwellThresholdRule, QueueCandidateRule,
         QueueCandidateRule2, ServiceGapRule, TurnoverDelayRule, DataQualityRule,
         Definition, RuleIds, OfDwell, OfWaiting

\* What a rule says of an interval that lasted so long.
BodyOf(id, configuration, lasted) ==
    LET inp   == [configuration |-> configuration]
        win   == NonNegative(inp, "service_window_seconds")
        delay == Positive(inp, "turnover_delay_seconds")
    IN  IF id = "turnover_delay"
        THEN [threshold |-> IF win = None \/ delay = None THEN None ELSE win + delay,
              lasted |-> lasted, window |-> win]
        ELSE [threshold |-> Positive(inp, CASE id = "dwell_threshold" -> "dwell_threshold_seconds"
                                            [] id = "queue_candidate" -> "waiting_qualification_seconds"
                                            [] OTHER -> "service_gap_grace_seconds"),
              lasted |-> lasted]

Unmatched(result) == result.status # "match" /\ result.event = None

LEMMA DurationDecides ==
    ASSUME NEW f, NEW threshold, NEW event
    PROVE  LET result == ByDuration(f, threshold, event)
           IN  \/ Unmatched(result)
               \/ result = Match(event) /\ ~(f.duration < 0)
  BY DEF ByDuration, Unmatched, Invalid, NoMatch

\* What the evaluators make of the primary fact f of an input.
LEMMA DwellThresholdIs ==
    ASSUME NEW rule, NEW inp, rule.id = "dwell_threshold"
    PROVE  LET result == EvaluateDwellThreshold(rule, inp)
               f      == inp.facts[1]
           IN  \/ Unmatched(result)
               \/ /\ IsDwell(f, inp) /\ ~(f.duration < 0)
                  /\ result = Match(Event(rule, inp, f.start,
                                          BodyOf(rule.id, inp.configuration, f.duration)))
  <1> DEFINE f == inp.facts[1]
             body == Outlasts(Positive(inp, "dwell_threshold_seconds"), f)
  <1>1. body = BodyOf(rule.id, inp.configuration, f.duration)
    BY DEF BodyOf, Outlasts, Positive
  <1> HIDE DEF body
  <1>2. \/ ~IsDwell(f, inp) /\ EvaluateDwellThreshold(rule, inp) = Invalid
        \/ /\ IsDwell(f, inp)
           /\ EvaluateDwellThreshold(rule, inp) =
                ByDuration(f, Positive(inp, "dwell_threshold_seconds"),
                           Event(rule, inp, f.start, body))
    BY DEF EvaluateDwellThreshold, body
  <1>3. Unmatched(Invalid)
    BY DEF Unmatched, Invalid
  <1> QED BY <1>1, <1>2, <1>3, DurationDecides

LEMMA QueueCandidateIs ==
    ASSUME NEW rule, NEW inp, rule.id = "queue_candidate"
    PROVE  LET result == EvaluateQueueCandidate(rule, inp)
               f      == inp.facts[1]
           IN  \/ Unmatched(result)
               \/ /\ IsWait(f, inp) /\ ~(f.duration < 0)
                  /\ result = Match(Event(rule, inp, f.start,
                                          BodyOf(rule.id, inp.configuration, f.duration)))
  <1> DEFINE f == inp.facts[1]
             threshold == Positive(inp, "waiting_qualification_seconds")
             event == Event(rule, inp, f.start, Outlasts(threshold, f))
  <1>1. Outlasts(threshold, f) = BodyOf(rule.id, inp.configuration, f.duration)
    BY DEF BodyOf, Outlasts, Positive
  <1>2. \/ EvaluateQueueCandidate(rule, inp) \in {Invalid, NoMatch}
        \/ IsWait(f, inp) /\ EvaluateQueueCandidate(rule, inp) = ByDuration(f, threshold, event)
    BY DEF EvaluateQueueCandidate
  <1>3. Unmatched(Invalid) /\ Unmatched(NoMatch)
    BY DEF Unmatched, Invalid, NoMatch
  <1> HIDE DEF threshold
  <1> QED BY <1>1, <1>2, <1>3, DurationDecides

LEMMA ServiceGapIs ==
    ASSUME NEW rule, NEW inp, rule.id = "service_gap_candidate"
    PROVE  LET result == EvaluateServiceGap(rule, inp)
               f      == inp.facts[1]
           IN  \/ Unmatched(result)
               \/ /\ IsWait(f, inp) /\ ~(f.duration < 0) /\ f.reason = None
                  /\ result = Match(Event(rule, inp, f.start,
                                          BodyOf(rule.id, inp.configuration, f.duration)))
  <1> DEFINE f == inp.facts[1]
             threshold == Positive(inp, "service_gap_grace_seconds")
             event == Event(rule, inp, f.start, Outlasts(threshold, f))
  <1>1. Outlasts(threshold, f) = BodyOf(rule.id, inp.configuration, f.duration)
    BY DEF BodyOf, Outlasts, Positive
  <1>2. \/ EvaluateServiceGap(rule, inp) \in {Invalid, NoMatch}
        \/ /\ IsWait(f, inp) /\ f.reason = None
           /\ EvaluateServiceGap(rule, inp) = ByDuration(f, threshold, event)
    BY DEF EvaluateServiceGap
  <1>3. Unmatched(Invalid) /\ Unmatched(NoMatch)
    BY DEF Unmatched, Invalid, NoMatch
  <1> HIDE DEF threshold
  <1> QED BY <1>1, <1>2, <1>3, DurationDecides

LEMMA TurnoverDelayIs ==
    ASSUME NEW rule, NEW inp, rule.id = "turnover_delay"
    PROVE  LET result == EvaluateTurnoverDelay(rule, inp)
               f      == inp.facts[1]
           IN  \/ Unmatched(result)
               \/ /\ IsDwell(f, inp) /\ ~(f.duration < 0) /\ f.reason = None
                  /\ result = Match(Event(rule, inp, f.start,
                                          BodyOf(rule.id, inp.configuration, f.duration)))
  <1> DEFINE f == inp.facts[1]
             win == NonNegative(inp, "service_window_seconds")
             delay == Positive(inp, "turnover_delay_seconds")
             total == IF win = None \/ delay = None THEN None ELSE win + delay
             event == Event(rule, inp, f.start, TurnoverBody(total, win, f))
  <1>1. TurnoverBody(total, win, f) = BodyOf(rule.id, inp.configuration, f.duration)
    BY DEF BodyOf, TurnoverBody, Positive, NonNegative
  <1>2. \/ EvaluateTurnoverDelay(rule, inp) \in {Invalid, NoMatch}
        \/ /\ IsDwell(f, inp) /\ f.reason = None
           /\ EvaluateTurnoverDelay(rule, inp) = ByDuration(f, total, event)
    BY DEF EvaluateTurnoverDelay
  <1>3. Unmatched(Invalid) /\ Unmatched(NoMatch)
    BY DEF Unmatched, Invalid, NoMatch
  <1> HIDE DEF total, win
  <1> QED BY <1>1, <1>2, <1>3, DurationDecides

LEMMA OccupancySessionIs ==
    ASSUME NEW rule, NEW inp
    PROVE  LET result == EvaluateOccupancySession(rule, inp)
               f      == inp.facts[1]
           IN  \/ Unmatched(result)
               \/ /\ f.time = inp.time
                  /\ result = Match(Event(rule, inp, f.time, OccupancyBody(f)))
  BY DEF EvaluateOccupancySession, Unmatched, Invalid, NoMatch, Fits

LEMMA DataQualityIs ==
    ASSUME NEW rule, NEW inp
    PROVE  LET result == EvaluateDataQuality(rule, inp)
               f      == inp.facts[1]
           IN  \/ Unmatched(result)
               \/ \E body :
                    result = [Match(Event(rule, inp, inp.time, body)) EXCEPT
                                !.evidence = {EvidenceId(EventId(rule, inp), f.key.session)}]
  BY DEF EvaluateDataQuality, Unmatched, Invalid, NoMatch

\* A match of a rule says what the rule does of the primary fact.
LEMMA EvaluateIs ==
    ASSUME NEW rule \in OperationalRules, NEW inp
    PROVE  LET result == Evaluate(rule, inp)
               f      == inp.facts[1]
           IN  \/ Unmatched(result)
               \/ /\ rule.id \in OfDwell \cup OfWaiting
                  /\ rule.id \in OfDwell => IsDwell(f, inp)
                  /\ rule.id \in OfWaiting => IsWait(f, inp)
                  /\ rule.id \in OfOpen => f.reason = None
                  /\ ~(f.duration < 0)
                  /\ result = Match(Event(rule, inp, f.start,
                                          BodyOf(rule.id, inp.configuration, f.duration)))
               \/ /\ rule.id = "occupancy_session" /\ f.time = inp.time
                  /\ result = Match(Event(rule, inp, f.time, OccupancyBody(f)))
               \/ /\ rule.id = "data_quality"
                  /\ \E body :
                       result = [Match(Event(rule, inp, inp.time, body)) EXCEPT
                                   !.evidence = {EvidenceId(EventId(rule, inp), f.key.session)}]
  <1> USE DEF OfDwell, OfWaiting, OfOpen
  <1>1. CASE rule.id = "dwell_threshold"
    <2>1. Evaluate(rule, inp) = EvaluateDwellThreshold(rule, inp)
      BY <1>1 DEF Evaluate
    <2> QED BY <1>1, <2>1, DwellThresholdIs
  <1>2. CASE rule.id = "queue_candidate"
    <2>1. Evaluate(rule, inp) = EvaluateQueueCandidate(rule, inp)
      BY <1>2 DEF Evaluate
    <2> QED BY <1>2, <2>1, QueueCandidateIs
  <1>3. CASE rule.id = "service_gap_candidate"
    <2>1. Evaluate(rule, inp) = EvaluateServiceGap(rule, inp)
      BY <1>3 DEF Evaluate
    <2> QED BY <1>3, <2>1, ServiceGapIs
  <1>4. CASE rule.id = "turnover_delay"
    <2>1. Evaluate(rule, inp) = EvaluateTurnoverDelay(rule, inp)
      BY <1>4 DEF Evaluate
    <2> QED BY <1>4, <2>1, TurnoverDelayIs
  <1>5. CASE rule.id = "occupancy_session"
    <2>1. Evaluate(rule, inp) = EvaluateOccupancySession(rule, inp)
      BY <1>5 DEF Evaluate
    <2> QED BY <1>5, <2>1, OccupancySessionIs
  <1>6. CASE rule.id = "data_quality"
    <2>1. Evaluate(rule, inp) = EvaluateDataQuality(rule, inp)
      BY <1>6 DEF Evaluate
    <2> QED BY <1>6, <2>1, DataQualityIs
  <1> QED BY <1>1, <1>2, <1>3, <1>4, <1>5, <1>6, RulesAre DEF RuleIds

\* The event of a match, whatever the rule.
LEMMA MatchedEvent ==
    ASSUME NEW rule \in OperationalRules, NEW inp, Evaluate(rule, inp).status = "match"
    PROVE  LET result == Evaluate(rule, inp)
           IN  /\ \E from, body : result.event = Event(rule, inp, from, body)
               /\ result = [status |-> "match", event |-> result.event,
                            evidence |-> result.evidence]
               /\ result.evidence = IF rule.id = "data_quality"
                                    THEN {EvidenceId(EventId(rule, inp), inp.facts[1].key.session)}
                                    ELSE {}
               /\ result.event.id = EventId(rule, inp)
               /\ ValidResult(rule, inp, result)
  <1> DEFINE result == Evaluate(rule, inp)
             evidence == {EvidenceId(EventId(rule, inp), inp.facts[1].key.session)}
  <1>1. \E from, body : result = IF rule.id = "data_quality"
                                 THEN [Match(Event(rule, inp, from, body)) EXCEPT !.evidence = evidence]
                                 ELSE Match(Event(rule, inp, from, body))
    BY EvaluateIs DEF Unmatched, OfDwell, OfWaiting
  <1>2. PICK from, body : result = IF rule.id = "data_quality"
                                 THEN [Match(Event(rule, inp, from, body)) EXCEPT !.evidence = evidence]
                                 ELSE Match(Event(rule, inp, from, body))
    BY <1>1
  <1> DEFINE event == Event(rule, inp, from, body)
  <1>3. event.id = EventId(rule, inp) /\ event.type = rule.type /\ event.time = inp.time
    BY DEF Event
  <1> HIDE DEF event, evidence
  <1>4. /\ result.event = event /\ result.status = "match"
        /\ result = [status |-> "match", event |-> event, evidence |-> result.evidence]
        /\ result.evidence = IF rule.id = "data_quality" THEN evidence ELSE {}
    BY <1>2 DEF Match, event
  <1> QED BY <1>3, <1>4 DEF event, evidence, ValidResult

\* An input that is processed at another time.
Again(inp, jnp) ==
    /\ jnp.facts = inp.facts /\ jnp.configuration = inp.configuration
    /\ jnp.cfg = inp.cfg /\ jnp.version = inp.version /\ jnp.time = inp.time

LEMMA AgainTheSame ==
    ASSUME NEW rule \in OperationalRules, NEW inp, NEW jnp, Again(inp, jnp)
    PROVE  /\ Evaluate(rule, inp).status = Evaluate(rule, jnp).status
           /\ EventId(rule, inp) = EventId(rule, jnp)
           /\ InputError(rule, inp) = InputError(rule, jnp)
  <1> USE DEF Again
  <1>1. EventId(rule, inp) = EventId(rule, jnp)
    BY DEF EventId
  <1>2. InputError(rule, inp) = InputError(rule, jnp)
    BY DEF InputError
  <1>3. \A name : /\ Positive(inp, name) = Positive(jnp, name)
                  /\ NonNegative(inp, name) = NonNegative(jnp, name)
                  /\ AreaIds(inp, name) = AreaIds(jnp, name)
    BY DEF Positive, NonNegative, AreaIds
  <1>4. \A f : IsDwell(f, inp) = IsDwell(f, jnp) /\ IsWait(f, inp) = IsWait(f, jnp)
    BY DEF IsDwell, IsWait, Fits
  <1>5. \A f, x, d, e : ByDuration(f, x, d).status = ByDuration(f, x, e).status
    BY DEF ByDuration, Match, Invalid, NoMatch
  <1>6. EvaluateDwellThreshold(rule, inp).status = EvaluateDwellThreshold(rule, jnp).status
    BY <1>3, <1>4, <1>5 DEF EvaluateDwellThreshold
  <1>7. EvaluateQueueCandidate(rule, inp).status = EvaluateQueueCandidate(rule, jnp).status
    BY <1>3, <1>4, <1>5 DEF EvaluateQueueCandidate, ExtraConfigurationValid
  <1>8. EvaluateServiceGap(rule, inp).status = EvaluateServiceGap(rule, jnp).status
    BY <1>3, <1>4, <1>5 DEF EvaluateServiceGap
  <1>9. EvaluateTurnoverDelay(rule, inp).status = EvaluateTurnoverDelay(rule, jnp).status
    BY <1>3, <1>4, <1>5 DEF EvaluateTurnoverDelay, SpaceOccupied
  <1>10. EvaluateOccupancySession(rule, inp).status = EvaluateOccupancySession(rule, jnp).status
    BY DEF EvaluateOccupancySession, Fits, Match
  <1>11. EvaluateDataQuality(rule, inp).status = EvaluateDataQuality(rule, jnp).status
    BY DEF EvaluateDataQuality, Match
  <1>12. Evaluate(rule, inp).status = Evaluate(rule, jnp).status
    <2> USE RulesAre DEF RuleIds, OfDwell, OfWaiting
    <2>1. CASE rule.id = "dwell_threshold"
      BY <1>6, <2>1 DEF Evaluate
    <2>2. CASE rule.id = "queue_candidate"
      BY <1>7, <2>2 DEF Evaluate
    <2>3. CASE rule.id = "service_gap_candidate"
      BY <1>8, <2>3 DEF Evaluate
    <2>4. CASE rule.id = "turnover_delay"
      BY <1>9, <2>4 DEF Evaluate
    <2>5. CASE rule.id = "occupancy_session"
      BY <1>10, <2>5 DEF Evaluate
    <2>6. CASE rule.id = "data_quality"
      BY <1>11, <2>6 DEF Evaluate
    <2> QED BY <2>1, <2>2, <2>3, <2>4, <2>5, <2>6
  <1> QED BY <1>1, <1>2, <1>12

\* The rule the engine resolves an identity to.
Resolved(r) == CHOOSE q \in Registered(OperationalRules, r.id, r.version) : TRUE

LEMMA ResolvesTo ==
    ASSUME NEW r \in OperationalRules
    PROVE  /\ Resolve(OperationalRules, r.id, r.version) = [error |-> None, rule |-> Resolved(r)]
           /\ Resolved(r) \in OperationalRules
           /\ Resolved(r).id = r.id /\ Resolved(r).version = r.version
  <1>1. r \in Registered(OperationalRules, r.id, r.version)
    BY DEF Registered
  <1>2. Resolved(r) \in Registered(OperationalRules, r.id, r.version)
    BY <1>1 DEF Resolved
  <1> QED BY <1>1, <1>2 DEF Resolve, Resolved, Registered

\* The engine passes on the match of the rule, with the evidence it requires.
LEMMA EngineIs ==
    ASSUME NEW r \in OperationalRules, NEW inp
    PROVE  LET answer == EngineEvaluate(OperationalRules, r.id, r.version, inp)
               rule   == Resolved(r)
           IN  /\ answer.status = "match" <=>
                    InputError(rule, inp) = None /\ Evaluate(rule, inp).status = "match"
               /\ answer.status = "match" =>
                    /\ answer.event = Evaluate(rule, inp).event
                    /\ answer.event.id = EventId(rule, inp)
                    /\ answer.evidence = {EvidenceId(answer.event.id, inp.facts[1].key.session)}
  <1> DEFINE answer == EngineEvaluate(OperationalRules, r.id, r.version, inp)
             rule == Resolved(r)
             result == Evaluate(rule, inp)
  <1>1. /\ Resolve(OperationalRules, r.id, r.version) = [error |-> None, rule |-> rule]
        /\ rule \in OperationalRules
    BY ResolvesTo
  <1>2. answer = IF InputError(rule, inp) # None THEN Error(InputError(rule, inp))
                 ELSE IF ~ValidResult(rule, inp, result) THEN Error("invalid_evaluation")
                 ELSE ApplyEvidencePolicy(rule, inp, result)
    BY <1>1 DEF EngineEvaluate
  <1>3. \A e : Error(e).status # "match"
    BY DEF Error
  <1>4. CASE result.status # "match"
    <2>1. ApplyEvidencePolicy(rule, inp, result) = result
      BY <1>4 DEF ApplyEvidencePolicy
    <2> QED BY <1>2, <1>3, <1>4, <2>1
  <1>5. CASE result.status = "match"
    <2>1. /\ result = [status |-> "match", event |-> result.event, evidence |-> result.evidence]
          /\ result.evidence = IF rule.id = "data_quality"
                               THEN {EvidenceId(EventId(rule, inp), inp.facts[1].key.session)}
                               ELSE {}
          /\ result.event.id = EventId(rule, inp)
          /\ ValidResult(rule, inp, result)
      BY <1>1, <1>5, MatchedEvent
    <2> DEFINE final == ApplyEvidencePolicy(rule, inp, result)
    <2>2. rule.evidence = IF rule.id = "data_quality" THEN "optional" ELSE "required"
      BY <1>1, RulesAre
    <2> HIDE DEF result, rule
    <2>3. /\ final.status = "match" /\ final.event = result.event
          /\ final.evidence = {EvidenceId(EventId(rule, inp), inp.facts[1].key.session)}
      BY <2>1, <2>2 DEF ApplyEvidencePolicy
    <2> QED BY <1>2, <1>3, <1>5, <2>1, <2>3 DEF result, rule
  <1> QED BY <1>4, <1>5

-----------------------------------------------------------------------------
(* Machines: what an observation does to them, and the facts that come of it.*)

Sane(m) ==
    /\ m = [presence |-> m.presence, timed |-> m.timed, zone |-> m.zone]
    /\ m.presence \in [Tracks -> Presence]
    /\ m.timed = [k \in Timed |-> m.timed[k]]
    /\ \A k \in Timed : Agrees(m.presence[k], m.timed[k])
    /\ m.zone \in ZoneType

Observations == [track : Tracks, kind : Kinds, dist : Nat, time : Int]

LEMMA NewSane == Sane(NewMachines)
  <1>1. NewPresence \in Presence
    BY NewAgree DEF Agrees
  <1>2. NewZone(Tracks) \in ZoneType
    BY DEF NewZone, ZoneType, Time
  <1> QED BY <1>1, <1>2, NewAgree, Numbers DEF Sane, NewMachines

\* Only an observation that is newer changes the machines that follow presence.
LEMMA FollowNewer ==
    ASSUME NEW p, NEW m, Agrees(p, m), NEW kind \in Kinds, NEW t \in Int, NEW dist,
           Order(p.wm, t) # "newer"
    PROVE  Follow(m, EventOf(ApplyPresence(p, kind, t).reason), dist, t) = m
  <1> DEFINE event == EventOf(ApplyPresence(p, kind, t).reason)
             class == ApplyClass(m.class, Measures(m.movement, t), dist, t)
             dwell == ApplyDwell(m.dwell, event, t)
             movement == ApplyMovement(m.movement, dist, t)
             waiting == ApplyWaiting(m.waiting, event, class.st = "stationary", t)
  <1>1. /\ Order(m.dwell.wm, t) # "newer" /\ Order(m.movement.wm, t) # "newer"
        /\ Order(m.class.wm, t) # "newer" /\ Order(m.waiting.wm, t) # "newer"
    BY DEF Agrees
  <1>2. dwell = m.dwell /\ movement = m.movement /\ class = m.class /\ waiting = m.waiting
    BY <1>1 DEF ApplyDwell, ApplyMovement, ApplyClass, ApplyWaiting
  <1>3. Follow(m, event, dist, t) =
          [dwell |-> dwell, movement |-> movement, class |-> class, waiting |-> waiting]
    BY DEF Follow
  <1> HIDE DEF dwell, movement, class, waiting, event
  <1>4. m \in Followers
    BY DEF Agrees
  <1> QED BY <1>2, <1>3, <1>4 DEF Followers, event

\* An observation changes the machines of its own track, if it is newer for them.
Advances(m, n, o) ==
    \A k \in Timed : n.timed[k] # m.timed[k] =>
        /\ k = o.track /\ n.timed[k].dwell.wm = o.time
        /\ m.timed[k].dwell.wm \in Int => m.timed[k].dwell.wm < o.time

LEMMA AdvancesIs ==
    ASSUME NEW m, NEW n, NEW o, Advances(m, n, o), NEW k \in Timed, n.timed[k] # m.timed[k]
    PROVE  /\ k = o.track /\ n.timed[k].dwell.wm = o.time
           /\ m.timed[k].dwell.wm \in Int => m.timed[k].dwell.wm < o.time
  BY DEF Advances

LEMMA SteppedSane ==
    ASSUME NEW m, Sane(m), NEW o \in Observations
    PROVE  Sane(Stepped(m, o)) /\ Advances(m, Stepped(m, o), o)
  <1> DEFINE n == Stepped(m, o)
             r == Result(m, o)
             event == EventOf(r.reason)
             k == o.track
             moved == [m.presence EXCEPT ![k] = r.state]
             all == [l \in Timed |-> IF l = k THEN Follow(m.timed[l], event, o.dist, o.time)
                                     ELSE m.timed[l]]
             z == ApplyZone(m.zone, k, event, o.time)
  <1>1. k \in Tracks /\ o.kind \in Kinds /\ o.time \in Int
    BY DEF Observations
  <1>2. CASE r.reason = "late"
    BY <1>2 DEF Stepped, Advances
  <1>3. CASE r.reason # "late"
    <2>1. n = [presence |-> moved, timed |-> all, zone |-> z]
      BY <1>3 DEF Stepped
    <2>2. /\ r.state \in Presence
          /\ Tells(event, m.presence[k], r.state)
          /\ Order(m.presence[k].wm, o.time) = "newer" => r.state.wm = o.time
      BY <1>1, PresenceStep DEF Sane, Result
    <2>3. z \in ZoneType
      BY <1>1, <2>2, ZoneStep DEF Sane
    <2>4. ASSUME NEW l \in Timed
          PROVE  Agrees(moved[l], all[l])
      <3>1. Agrees(m.presence[l], m.timed[l])
        BY DEF Sane
      <3>2. CASE l = k
        <4>1. Agrees(r.state, Follow(m.timed[k], event, o.dist, o.time))
          BY <1>1, <3>1, <3>2, AgreeAfter DEF Result
        <4>2. moved[l] = r.state /\ all[l] = Follow(m.timed[k], event, o.dist, o.time)
          BY <1>1, <3>2 DEF Sane
        <4> HIDE DEF r, event, all, moved
        <4> QED BY <4>1, <4>2
      <3>3. CASE l # k
        <4>1. moved[l] = m.presence[l] /\ all[l] = m.timed[l]
          BY <3>3, Numbers DEF Sane
        <4> HIDE DEF all, moved
        <4> QED BY <3>1, <4>1
      <3> QED BY <3>2, <3>3
    <2>5. ASSUME NEW l \in Timed, all[l] # m.timed[l]
          PROVE  /\ l = k /\ all[l].dwell.wm = o.time
                 /\ m.timed[l].dwell.wm \in Int => m.timed[l].dwell.wm < o.time
      <3>1. l = k /\ all[l] = Follow(m.timed[k], event, o.dist, o.time)
        BY <2>5
      <3>2. Agrees(m.presence[k], m.timed[k])
        BY <3>1 DEF Sane
      <3>3. Order(m.presence[k].wm, o.time) = "newer"
        BY <1>1, <2>5, <3>1, <3>2, FollowNewer DEF Result
      <3>4. Agrees(moved[l], all[l]) /\ moved[l] = r.state
        BY <1>1, <2>4, <3>1 DEF Sane
      <3> HIDE DEF moved, all, r, event
      <3>5. all[l].dwell.wm = o.time
        BY <2>2, <3>3, <3>4 DEF Agrees
      <3>6. m.timed[l].dwell.wm \in Int => m.timed[l].dwell.wm < o.time
        BY <1>1, <3>1, <3>2, <3>3, Numbers DEF Order, Agrees
      <3> QED BY <3>1, <3>5, <3>6
    <2>6. moved \in [Tracks -> Presence] /\ all = [l \in Timed |-> all[l]]
      BY <2>2 DEF Sane
    <2> HIDE DEF moved, all, z
    <2>7. n.presence = moved /\ n.timed = all /\ n.zone = z
      BY <2>1
    <2> HIDE DEF n
    <2> QED BY <2>1, <2>3, <2>4, <2>5, <2>6, <2>7 DEF Sane, Advances, n, k
  <1> QED BY <1>2, <1>3

\* Where the dwell and the wait begin that an observation told of: those a track
\* is in afterwards, or else those it was in before.
DwellSince(before, after) ==
    IF after.dwell.st = "dwelling" THEN after.dwell.since ELSE before.dwell.since

WaitStart(before, after) ==
    IF after.waiting.st = "waiting" THEN after.waiting.start ELSE before.waiting.start

\* What an interval fact of track k is about.
OfInterval(f, start, m, n, k, open) ==
    /\ k \in Timed /\ f.last \in Int /\ f.last = n.timed[k].dwell.wm
    /\ f.start \in Int /\ f.start = start /\ f.duration = f.last - f.start
    /\ open \/ n.timed[k] # m.timed[k]
    /\ f.reason = None => open

LEMMA IntervalIs ==
    ASSUME NEW type, NEW key, NEW start, NEW end, NEW last, NEW minimum, NEW reason
    PROVE  LET f == IntervalFact(type, key, start, end, last, minimum, reason)
           IN  /\ f.type = type /\ f.key = key /\ f.start = start /\ f.last = last
               /\ f.duration = last - start /\ f.reason = reason
  BY DEF IntervalFact

\* The facts of a dwell and of a wait: the open interval, or the closed one.
LEMMA DwellFactIs ==
    ASSUME NEW m, NEW n, NEW o, NEW f \in DwellFacts(m, n, o)
    PROVE  LET k == o.track
               before == m.timed[k].dwell
               after == n.timed[k].dwell
           IN  \/ after.st = "dwelling" /\ f = OpenDwell(KeyOf(k, "dwell"), after)
               \/ /\ before.st = "dwelling" /\ after.st = "idle"
                  /\ f = ClosedDwell(KeyOf(k, "dwell"), before.since, o.time,
                                     Result(m, o).reason)
  BY DEF DwellFacts

LEMMA WaitFactIs ==
    ASSUME NEW m, NEW n, NEW o, NEW f \in WaitFacts(m, n, o)
    PROVE  LET k == o.track
               before == m.timed[k].waiting
               after == n.timed[k].waiting
           IN  \/ after.st = "waiting" /\ f = OpenWait(KeyOf(k, "waiting"), after)
               \/ /\ before.st = "waiting" /\ after.st # "waiting"
                  /\ f = ClosedWait(KeyOf(k, "waiting"), before.start, o.time, "ended")
  BY DEF WaitFacts

LEMMA OpenIs ==
    ASSUME NEW key, NEW d
    PROVE  /\ OpenDwell(key, d).type = "dwell_interval"
           /\ OpenDwell(key, d).key = key
           /\ OpenDwell(key, d).start = d.since /\ OpenDwell(key, d).last = d.wm
           /\ OpenDwell(key, d).duration = d.wm - d.since
           /\ OpenWait(key, d).type = "waiting_interval"
           /\ OpenWait(key, d).key = key
           /\ OpenWait(key, d).start = d.start /\ OpenWait(key, d).last = d.wm
           /\ OpenWait(key, d).duration = d.wm - d.start
  BY IntervalIs DEF OpenDwell, OpenWait

LEMMA ClosedIs ==
    ASSUME NEW key, NEW since, NEW t, NEW reason
    PROVE  /\ ClosedDwell(key, since, t, reason).type = "dwell_interval"
           /\ ClosedDwell(key, since, t, reason).key = key
           /\ ClosedDwell(key, since, t, reason).start = since
           /\ ClosedDwell(key, since, t, reason).last = t
           /\ ClosedDwell(key, since, t, reason).duration = t - since
           /\ ClosedDwell(key, since, t, reason).reason = reason
           /\ ClosedWait(key, since, t, reason).type = "waiting_interval"
           /\ ClosedWait(key, since, t, reason).key = key
           /\ ClosedWait(key, since, t, reason).start = since
           /\ ClosedWait(key, since, t, reason).last = t
           /\ ClosedWait(key, since, t, reason).duration = t - since
           /\ ClosedWait(key, since, t, reason).reason = reason
  BY IntervalIs DEF ClosedDwell, ClosedWait

LEMMA DwellFactsAre ==
    ASSUME NEW m, Sane(m), NEW o \in Observations, o.track \in Timed,
           Result(m, o).reason # "late",
           NEW f \in DwellFacts(m, Stepped(m, o), o)
    PROVE  LET n == Stepped(m, o)
               k == o.track
           IN  /\ f.type = "dwell_interval" /\ f.key = KeyOf(k, "dwell")
               /\ OfInterval(f, DwellSince(m.timed[k], n.timed[k]), m, n, k,
                             n.timed[k].dwell.st = "dwelling")
  <1> DEFINE n == Stepped(m, o)
             k == o.track
             r == Result(m, o)
             before == m.timed[k].dwell
             after == n.timed[k].dwell
  <1>1. Agrees(m.presence[k], m.timed[k]) /\ Agrees(n.presence[k], n.timed[k])
    BY SteppedSane DEF Sane
  <1>2. Advances(m, n, o)
    BY SteppedSane
  <1>3. o.time \in Int /\ k \in Tracks /\ o.kind \in Kinds
    BY DEF Observations
  <1>4. n.presence[k] = r.state
    <2>1. n.presence = [m.presence EXCEPT ![k] = r.state]
      BY DEF Stepped
    <2> HIDE DEF n, r
    <2> QED BY <1>3, <2>1 DEF Sane
  <1>5. Tells(EventOf(r.reason), m.presence[k], r.state)
    BY <1>1, <1>3, PresenceStep DEF Agrees, Result
  <1> HIDE DEF n, r
  <1>6. \/ after.st = "dwelling" /\ f = OpenDwell(KeyOf(k, "dwell"), after)
        \/ /\ before.st = "dwelling" /\ after.st = "idle"
           /\ f = ClosedDwell(KeyOf(k, "dwell"), before.since, o.time, r.reason)
    BY DwellFactIs DEF n, r
  <1> DEFINE since == DwellSince(m.timed[k], n.timed[k])
             open == after.st = "dwelling"
             key == KeyOf(k, "dwell")
  <1>7. CASE after.st = "dwelling" /\ f = OpenDwell(key, after)
    <2>1. after.since \in Int /\ after.wm \in Int
      BY <1>1, <1>7, AgreesIs
    <2>2. since = after.since
      BY <1>7 DEF DwellSince
    <2>3. /\ f.type = "dwell_interval" /\ f.key = key
          /\ f.start = after.since /\ f.last = after.wm /\ f.duration = after.wm - after.since
      BY <1>7, OpenIs
    <2> HIDE DEF since, key
    <2>4. OfInterval(f, since, m, n, k, open)
      BY <1>7, <2>1, <2>2, <2>3 DEF OfInterval
    <2> QED BY <2>3, <2>4 DEF since, key, n
  <1>8. CASE /\ before.st = "dwelling" /\ after.st = "idle"
             /\ f = ClosedDwell(key, before.since, o.time, r.reason)
    <2>1. n.timed[k] # m.timed[k]
      BY <1>8
    <2>2. after.wm = o.time /\ before.since \in Int
      BY <1>1, <1>2, <1>8, <2>1, AgreesIs, AdvancesIs
    <2>3. Confirmed(m.presence[k]) /\ ~Confirmed(n.presence[k])
      BY <1>1, <1>8, AgreesIs
    <2>4. EventOf(r.reason) \in Lost
      BY <1>4, <1>5, <2>3 DEF Tells, Lost
    <2>5. r.reason # None
      BY <2>4, RuleEventsAssumption DEF RuleEventsAssumption, EventOf, Lost
    <2>6. since = before.since
      BY <1>8 DEF DwellSince
    <2>7. /\ f.type = "dwell_interval" /\ f.key = key
          /\ f.start = before.since /\ f.last = o.time
          /\ f.duration = o.time - before.since /\ f.reason = r.reason
      BY <1>8, ClosedIs
    <2> HIDE DEF since, key
    <2>8. OfInterval(f, since, m, n, k, open)
      BY <1>3, <2>1, <2>2, <2>5, <2>6, <2>7 DEF OfInterval
    <2> QED BY <2>7, <2>8 DEF since, key, n
  <1> QED BY <1>6, <1>7, <1>8

LEMMA WaitFactsAre ==
    ASSUME NEW m, Sane(m), NEW o \in Observations, o.track \in Timed,
           NEW f \in WaitFacts(m, Stepped(m, o), o)
    PROVE  LET n == Stepped(m, o)
               k == o.track
           IN  /\ f.type = "waiting_interval" /\ f.key = KeyOf(k, "waiting")
               /\ OfInterval(f, WaitStart(m.timed[k], n.timed[k]), m, n, k,
                             n.timed[k].waiting.st = "waiting")
  <1> DEFINE n == Stepped(m, o)
             k == o.track
             before == m.timed[k].waiting
             after == n.timed[k].waiting
  <1>1. Agrees(m.presence[k], m.timed[k]) /\ Agrees(n.presence[k], n.timed[k])
    BY SteppedSane DEF Sane
  <1>2. Advances(m, n, o)
    BY SteppedSane
  <1>3. o.time \in Int
    BY DEF Observations
  <1> HIDE DEF n
  <1>4. after.wm = n.timed[k].dwell.wm
    BY <1>1 DEF Agrees
  <1>5. \/ after.st = "waiting" /\ f = OpenWait(KeyOf(k, "waiting"), after)
        \/ /\ before.st = "waiting" /\ after.st # "waiting"
           /\ f = ClosedWait(KeyOf(k, "waiting"), before.start, o.time, "ended")
    BY WaitFactIs DEF n
  <1> DEFINE start == WaitStart(m.timed[k], n.timed[k])
             open == after.st = "waiting"
             key == KeyOf(k, "waiting")
  <1>6. CASE after.st = "waiting" /\ f = OpenWait(key, after)
    <2>1. after.start \in Int /\ after.wm \in Int
      BY <1>1, <1>6, AgreesIs
    <2>2. start = after.start
      BY <1>6 DEF WaitStart
    <2>3. /\ f.type = "waiting_interval" /\ f.key = key
          /\ f.start = after.start /\ f.last = after.wm /\ f.duration = after.wm - after.start
      BY <1>6, OpenIs
    <2> HIDE DEF start, key
    <2>4. OfInterval(f, start, m, n, k, open)
      BY <1>4, <1>6, <2>1, <2>2, <2>3 DEF OfInterval
    <2> QED BY <2>3, <2>4 DEF start, key, n
  <1>7. CASE /\ before.st = "waiting" /\ after.st # "waiting"
             /\ f = ClosedWait(key, before.start, o.time, "ended")
    <2>1. n.timed[k] # m.timed[k]
      BY <1>7
    <2>2. n.timed[k].dwell.wm = o.time /\ before.start \in Int
      BY <1>1, <1>2, <1>7, <2>1, AgreesIs, AdvancesIs
    <2>3. "ended" # None
      BY RuleEventsAssumption DEF RuleEventsAssumption
    <2>4. start = before.start
      BY <1>7 DEF WaitStart
    <2>5. /\ f.type = "waiting_interval" /\ f.key = key
          /\ f.start = before.start /\ f.last = o.time
          /\ f.duration = o.time - before.start /\ f.reason = "ended"
      BY <1>7, ClosedIs
    <2> HIDE DEF start, key
    <2>6. OfInterval(f, start, m, n, k, open)
      BY <1>3, <2>1, <2>2, <2>3, <2>4, <2>5 DEF OfInterval
    <2> QED BY <2>5, <2>6 DEF start, key, n
  <1> QED BY <1>5, <1>6, <1>7

\* Facts that are no intervals are as of the observation.
OtherFacts(m, n, o) == PresenceFacts(m, o) \cup ZoneFacts(m, n, o) \cup MovementFacts(m, n, o)

LEMMA OtherFactsAre ==
    ASSUME NEW m, NEW n, NEW o \in Observations,
           NEW f \in OtherFacts(m, n, o)
    PROVE  /\ ~IsInterval(f) /\ f.time = o.time
           /\ f.key.session = Session /\ f.key.camera = Session /\ f.key.context = Zone
  <1>1. \A k, kind : LET key == KeyOf(k, kind)
                     IN  /\ key.session = Session /\ key.camera = Session /\ key.context = Zone
                         /\ OccupancyScopeKey(key).session = Session
                         /\ OccupancyScopeKey(key).camera = Session
                         /\ OccupancyScopeKey(key).context = Zone
    BY DEF KeyOf, Key, OccupancyScopeKey
  <1>2. CASE f \in PresenceFacts(m, o)
    BY <1>1, <1>2 DEF PresenceFacts, TransitionFact, IsInterval
  <1>3. CASE f \in ZoneFacts(m, n, o)
    BY <1>1, <1>3 DEF ZoneFacts, SnapshotFact, IsInterval
  <1>4. CASE f \in MovementFacts(m, n, o)
    BY <1>1, <1>4 DEF MovementFacts, MeasurementFact, ClassFact, IsInterval
  <1> QED BY <1>2, <1>3, <1>4 DEF OtherFacts

\* Every fact of an observation.
LEMMA FactsAre ==
    ASSUME NEW m, Sane(m), NEW o \in Observations,
           NEW f \in Facts(m, Stepped(m, o), o)
    PROVE  LET n == Stepped(m, o)
               k == o.track
           IN  /\ f.key.session = Session /\ f.key.camera = Session /\ f.key.context = Zone
               /\ AsOf(f) \in Int
               /\ f.type = "dwell_interval" =>
                    /\ f.key = KeyOf(k, "dwell")
                    /\ OfInterval(f, DwellSince(m.timed[k], n.timed[k]), m, n, k,
                                  n.timed[k].dwell.st = "dwelling")
               /\ f.type = "waiting_interval" =>
                    /\ f.key = KeyOf(k, "waiting")
                    /\ OfInterval(f, WaitStart(m.timed[k], n.timed[k]), m, n, k,
                                  n.timed[k].waiting.st = "waiting")
  <1> DEFINE n == Stepped(m, o)
             k == o.track
  <1>1. o.time \in Int
    BY DEF Observations
  <1>2. \A kind : LET key == KeyOf(k, kind)
                  IN  key.session = Session /\ key.camera = Session /\ key.context = Zone
    BY DEF KeyOf, Key
  <1> HIDE DEF n
  <1> DEFINE DwellTold == /\ f.key = KeyOf(k, "dwell")
                          /\ OfInterval(f, DwellSince(m.timed[k], n.timed[k]), m, n, k,
                                        n.timed[k].dwell.st = "dwelling")
             WaitTold == /\ f.key = KeyOf(k, "waiting")
                         /\ OfInterval(f, WaitStart(m.timed[k], n.timed[k]), m, n, k,
                                       n.timed[k].waiting.st = "waiting")
             Said == /\ f.key.session = Session /\ f.key.camera = Session
                     /\ f.key.context = Zone /\ AsOf(f) \in Int
                     /\ f.type = "dwell_interval" => DwellTold
                     /\ f.type = "waiting_interval" => WaitTold
  <1>3. ASSUME f \in OtherFacts(m, n, o)
        PROVE  Said
    <2>1. /\ ~IsInterval(f) /\ f.time = o.time
          /\ f.key.session = Session /\ f.key.camera = Session /\ f.key.context = Zone
      BY <1>3, OtherFactsAre
    <2>2. f.type # "dwell_interval" /\ f.type # "waiting_interval"
      BY ONLY <2>1 DEF IsInterval
    <2>3. AsOf(f) \in Int
      BY ONLY <1>1, <2>1 DEF AsOf
    <2> HIDE DEF DwellTold, WaitTold
    <2> QED BY ONLY <2>1, <2>2, <2>3
  <1>4. ASSUME k \in Timed, Result(m, o).reason # "late", f \in DwellFacts(m, n, o)
        PROVE  Said
    <2>1. f.type = "dwell_interval" /\ DwellTold
      BY <1>4, DwellFactsAre DEF n
    <2>2. /\ AsOf(f) \in Int
          /\ f.key.session = Session /\ f.key.camera = Session /\ f.key.context = Zone
      BY <1>2, <2>1 DEF IsInterval, AsOf, OfInterval
    <2> HIDE DEF DwellTold, WaitTold
    <2> QED BY ONLY <2>1, <2>2
  <1>5. ASSUME k \in Timed, f \in WaitFacts(m, n, o)
        PROVE  Said
    <2>1. f.type = "waiting_interval" /\ WaitTold
      BY <1>5, WaitFactsAre DEF n
    <2>2. /\ AsOf(f) \in Int
          /\ f.key.session = Session /\ f.key.camera = Session /\ f.key.context = Zone
      BY <1>2, <2>1 DEF IsInterval, AsOf, OfInterval
    <2> HIDE DEF DwellTold, WaitTold
    <2> QED BY ONLY <2>1, <2>2
  <1>6. Said
    <2> HIDE DEF Said
    <2> QED BY <1>3, <1>4, <1>5 DEF Facts, OtherFacts, n
  <1> QED BY <1>6 DEF n

-----------------------------------------------------------------------------
(* Matches: the event of a match, and the set of their ids.                *)

\* What the interval that a rule is about began with, and whether it is open.
From(id, before, after) ==
    IF id \in OfDwell THEN DwellSince(before, after) ELSE WaitStart(before, after)

IsOpen(id, after) ==
    IF id \in OfDwell THEN after.dwell.st = "dwelling" ELSE after.waiting.st = "waiting"

\* The signal of a rule, under configuration c, about the interval that track k
\* was in at t.
Signal(c, id, version, k, t, from) ==
    [id |-> <<Session, Session, k, Zone, id, version, id, t, Cfg>>, type |-> id,
     rule |-> id, version |-> version, time |-> t, produced |-> None,
     key |-> KeyOf(k, IF id \in OfDwell THEN "dwell" ELSE "waiting"), cfg |-> Cfg,
     from |-> from, body |-> BodyOf(id, c, t - from)]

Bare(event) == [event EXCEPT !.produced = None]

\* What holds of every event by itself.
Whole(v) ==
    /\ v = [id |-> v.id, type |-> v.type, rule |-> v.rule, version |-> v.version,
            time |-> v.time, produced |-> v.produced, key |-> v.key, cfg |-> v.cfg,
            from |-> v.from, body |-> v.body]
    /\ v.id = <<Session, Session, v.key.track, Zone, v.rule, v.version, v.rule, v.time, Cfg>>
    /\ v.rule \in RuleIds /\ v.time \in Int
    /\ v.key.session = Session /\ v.key.camera = Session
    /\ v.rule # "data_quality" => v.from \in Int /\ v.from <= v.time

\* What holds of a signal about an interval: m and n are the machines of its track
\* before and after the observation it came of.
Tracked(c, s, m, n, k) ==
    /\ k \in Timed /\ n.dwell.wm \in Int
    /\ s = Signal(c, s.rule, s.version, k, n.dwell.wm, From(s.rule, m, n))
    /\ IsOpen(s.rule, n) \/ n # m
    /\ s.rule \in OfOpen => IsOpen(s.rule, n)

LEMMA BareIs ==
    ASSUME NEW v, Whole(v)
    PROVE  /\ Bare(v) = [id |-> v.id, type |-> v.type, rule |-> v.rule, version |-> v.version,
                         time |-> v.time, produced |-> None, key |-> v.key, cfg |-> v.cfg,
                         from |-> v.from, body |-> v.body]
           /\ Bare(v).id = v.id /\ Bare(v).rule = v.rule /\ Bare(v).version = v.version
           /\ Bare(v).time = v.time /\ Bare(v).key = v.key /\ Bare(v).from = v.from
  BY DEF Bare, Whole

LEMMA EventIs ==
    ASSUME NEW rule \in OperationalRules, NEW inp, NEW from, NEW body,
           LET key == inp.facts[1].key
           IN  key.session = Session /\ key.camera = Session /\ key.context = Zone,
           inp.cfg = Cfg, inp.time \in Int,
           rule.id # "data_quality" => from \in Int /\ from <= inp.time
    PROVE  LET v == Event(rule, inp, from, body)
           IN  /\ Whole(v) /\ v.rule = rule.id /\ v.version = rule.version
               /\ v.time = inp.time /\ v.key = inp.facts[1].key
               /\ v.from = from /\ v.body = body /\ v.type = rule.id /\ v.cfg = Cfg
  <1> DEFINE produced == IF inp.processed = None THEN inp.time ELSE inp.processed
             id == EventId(rule, inp)
             v == Event(rule, inp, from, body)
  <1>1. rule.id \in RuleIds /\ rule.type = rule.id
    BY RulesAre
  <1>2. id = <<Session, Session, inp.facts[1].key.track, Zone, rule.id, rule.version,
               rule.id, inp.time, Cfg>>
    BY <1>1 DEF EventId
  <1>3. v = [id |-> id, type |-> rule.id, rule |-> rule.id, version |-> rule.version,
             time |-> inp.time, produced |-> produced, key |-> inp.facts[1].key,
             cfg |-> Cfg, from |-> from, body |-> body]
    BY <1>1 DEF Event
  <1> HIDE DEF id, v, produced
  <1>4. /\ v.id = id /\ v.type = rule.id /\ v.rule = rule.id /\ v.version = rule.version
        /\ v.time = inp.time /\ v.produced = produced /\ v.key = inp.facts[1].key
        /\ v.cfg = Cfg /\ v.from = from /\ v.body = body
    BY <1>3
  <1>5. Whole(v)
    BY <1>1, <1>2, <1>3, <1>4 DEF Whole
  <1> QED BY <1>4, <1>5 DEF v

LEMMA ListsAre ==
    ASSUME NEW facts, NEW list \in FactLists(facts)
    PROVE  list[1] \in facts
  <1>1. CASE \E f \in facts : list = <<f>>
    BY <1>1
  <1>2. CASE \E f \in facts, s \in facts : list = <<f, s>>
    BY <1>2
  <1> QED BY <1>1, <1>2 DEF FactLists

\* The evaluations of the rules on the facts.
InputOf(r, list) == Input(list, pinned, Cfg, r.version, AsOf(list[1]), MaxTime + lap)

LEMMA InputIs ==
    ASSUME NEW r, NEW list
    PROVE  LET inp == InputOf(r, list)
           IN  /\ inp.facts = list /\ inp.configuration = pinned /\ inp.cfg = Cfg
               /\ inp.version = r.version /\ inp.time = AsOf(list[1])
  BY DEF InputOf, Input

\* Every match of an observation.
LEMMA MatchesAre ==
    ASSUME NEW m, Sane(m), NEW o \in Observations,
           NEW x \in Matches(Facts(m, Stepped(m, o), o))
    PROVE  LET v == x.event
               k == o.track
           IN  /\ Whole(v) /\ x.evidence = {EvidenceId(v.id, Session)}
               /\ v.rule \in OfDwell \cup OfWaiting =>
                    Tracked(pinned, Bare(v), m.timed[k], Stepped(m, o).timed[k], k)
  <1> DEFINE n == Stepped(m, o)
             k == o.track
             facts == Facts(m, n, o)
  <1>1. PICK r \in OperationalRules, list \in FactLists(facts) :
             /\ x = EngineEvaluate(OperationalRules, r.id, r.version, InputOf(r, list))
             /\ x.status = "match"
    BY DEF Matches, InputOf
  <1> DEFINE inp == InputOf(r, list)
             rule == Resolved(r)
             f == list[1]
             v == x.event
  <1>2. f \in facts
    BY ListsAre
  <1>3. /\ f.key.session = Session /\ f.key.camera = Session /\ f.key.context = Zone
        /\ AsOf(f) \in Int
        /\ f.type = "dwell_interval" =>
             /\ f.key = KeyOf(k, "dwell")
             /\ OfInterval(f, DwellSince(m.timed[k], n.timed[k]), m, n, k,
                           n.timed[k].dwell.st = "dwelling")
        /\ f.type = "waiting_interval" =>
             /\ f.key = KeyOf(k, "waiting")
             /\ OfInterval(f, WaitStart(m.timed[k], n.timed[k]), m, n, k,
                           n.timed[k].waiting.st = "waiting")
    BY <1>2, FactsAre
  <1>4. /\ inp.facts = list /\ inp.configuration = pinned /\ inp.cfg = Cfg
        /\ inp.time = AsOf(f)
    BY InputIs
  <1>5. rule \in OperationalRules
    BY ResolvesTo
  <1> HIDE DEF inp, rule, n, facts
  <1>6. /\ Evaluate(rule, inp).status = "match" /\ v = Evaluate(rule, inp).event
        /\ x.evidence = {EvidenceId(v.id, inp.facts[1].key.session)}
    BY <1>1, EngineIs DEF inp, rule
  <1>7. x.evidence = {EvidenceId(v.id, Session)}
    BY <1>3, <1>4, <1>6
  <1>8. CASE /\ rule.id \in OfDwell \cup OfWaiting
             /\ rule.id \in OfDwell => IsDwell(f, inp)
             /\ rule.id \in OfWaiting => IsWait(f, inp)
             /\ rule.id \in OfOpen => f.reason = None
             /\ ~(f.duration < 0)
             /\ Evaluate(rule, inp) = Match(Event(rule, inp, f.start,
                                                  BodyOf(rule.id, pinned, f.duration)))
    <2> DEFINE start == From(rule.id, m.timed[k], n.timed[k])
               open == IsOpen(rule.id, n.timed[k])
    <2>1. /\ OfInterval(f, start, m, n, k, open)
          /\ f.key = KeyOf(k, IF rule.id \in OfDwell THEN "dwell" ELSE "waiting")
          /\ IsInterval(f)
      <3>1. CASE rule.id \in OfDwell
        BY <1>3, <1>8, <3>1 DEF IsDwell, From, IsOpen, IsInterval
      <3>2. CASE rule.id \notin OfDwell
        BY <1>3, <1>8, <3>2 DEF IsWait, From, IsOpen, IsInterval
      <3> QED BY <3>1, <3>2
    <2> HIDE DEF start, open
    <2>2. AsOf(f) = f.last
      BY <2>1 DEF AsOf
    <2>3. /\ k \in Timed /\ f.last \in Int /\ f.last = n.timed[k].dwell.wm
          /\ f.start \in Int /\ f.start = start /\ f.duration = f.last - f.start
          /\ open \/ n.timed[k] # m.timed[k]
          /\ f.reason = None => open
      BY <2>1 DEF OfInterval
    <2>4. f.start <= f.last
      BY <1>8, <2>3
    <2> DEFINE body == BodyOf(rule.id, pinned, f.duration)
    <2>5. v = Event(rule, inp, f.start, body)
      BY <1>6, <1>8 DEF Match
    <2> HIDE DEF body
    <2>6. /\ Whole(v) /\ v.rule = rule.id /\ v.version = rule.version
          /\ v.time = f.last /\ v.key = f.key
          /\ v.from = f.start /\ v.body = body /\ v.type = rule.id /\ v.cfg = Cfg
      BY <1>3, <1>4, <1>5, <2>2, <2>3, <2>4, <2>5, EventIs
    <2>7. v.key.track = k
      BY <2>1, <2>6 DEF KeyOf, Key
    <2>8. v.id = <<Session, Session, k, Zone, v.rule, v.version, v.rule, v.time, Cfg>>
      BY <2>6, <2>7 DEF Whole
    <2>9. Bare(v) = [id |-> v.id, type |-> v.type, rule |-> v.rule, version |-> v.version,
                     time |-> v.time, produced |-> None, key |-> v.key, cfg |-> v.cfg,
                     from |-> v.from, body |-> v.body]
      BY <2>6, BareIs
    <2>10. body = BodyOf(v.rule, pinned, f.last - start)
      BY <2>3, <2>6 DEF body
    <2> DEFINE key == KeyOf(k, IF v.rule \in OfDwell THEN "dwell" ELSE "waiting")
               id == <<Session, Session, k, Zone, v.rule, v.version, v.rule, f.last, Cfg>>
               said == BodyOf(v.rule, pinned, f.last - start)
    <2>11. v.key = key /\ v.id = id /\ v.body = said
      BY <2>1, <2>6, <2>8, <2>10
    <2>12. Signal(pinned, v.rule, v.version, k, f.last, start) =
             [id |-> id, type |-> v.rule, rule |-> v.rule, version |-> v.version,
              time |-> f.last, produced |-> None, key |-> key, cfg |-> Cfg,
              from |-> start, body |-> said]
      BY DEF Signal
    <2> HIDE DEF key, id, said
    <2>13. Bare(v) = Signal(pinned, v.rule, v.version, k, f.last, start)
      <3>1. v.type = v.rule /\ v.time = f.last /\ v.cfg = Cfg /\ v.from = start
        BY ONLY <2>3, <2>6
      <3> DEFINE Record(i, ty, ru, ve, ti, ke, cf, fr, bo) ==
                   [id |-> i, type |-> ty, rule |-> ru, version |-> ve, time |-> ti,
                    produced |-> None, key |-> ke, cfg |-> cf, from |-> fr, body |-> bo]
      <3>2. Bare(v) = Record(v.id, v.type, v.rule, v.version, v.time, v.key, v.cfg, v.from,
                             v.body)
        BY ONLY <2>9
      <3>3. Signal(pinned, v.rule, v.version, k, f.last, start) =
              Record(id, v.rule, v.rule, v.version, f.last, key, Cfg, start, said)
        BY ONLY <2>12, SMTT(30)
      <3> HIDE DEF Record
      <3> QED BY ONLY <2>11, <3>1, <3>2, <3>3
    <2>14. Tracked(pinned, Bare(v), m.timed[k], n.timed[k], k)
      BY <1>8, <2>3, <2>6, <2>13, BareIs DEF Tracked, start, open
    <2> QED BY <1>7, <2>6, <2>14 DEF n
  <1>9. CASE /\ rule.id = "occupancy_session" /\ f.time = inp.time
             /\ Evaluate(rule, inp) = Match(Event(rule, inp, f.time, OccupancyBody(f)))
    <2>1. v = Event(rule, inp, f.time, OccupancyBody(f))
      BY <1>6, <1>9 DEF Match
    <2>2. Whole(v) /\ v.rule = rule.id
      BY <1>3, <1>4, <1>5, <1>9, <2>1, EventIs
    <2> QED BY <1>7, <1>9, <2>2 DEF OfDwell, OfWaiting
  <1>10. CASE /\ rule.id = "data_quality"
              /\ \E body :
                   Evaluate(rule, inp) =
                     [Match(Event(rule, inp, inp.time, body)) EXCEPT
                        !.evidence = {EvidenceId(EventId(rule, inp), f.key.session)}]
    <2>1. PICK body :
             Evaluate(rule, inp) =
               [Match(Event(rule, inp, inp.time, body)) EXCEPT
                  !.evidence = {EvidenceId(EventId(rule, inp), f.key.session)}]
      BY <1>10
    <2>2. v = Event(rule, inp, inp.time, body)
      BY <1>6, <2>1 DEF Match
    <2>3. Whole(v) /\ v.rule = rule.id
      BY <1>3, <1>4, <1>5, <1>10, <2>2, EventIs
    <2> QED BY <1>7, <1>10, <2>3 DEF OfDwell, OfWaiting
  <1> DEFINE result == Evaluate(rule, inp)
             Lasting(g, c) ==
               /\ rule.id \in OfDwell \cup OfWaiting
               /\ rule.id \in OfDwell => IsDwell(g, inp)
               /\ rule.id \in OfWaiting => IsWait(g, inp)
               /\ rule.id \in OfOpen => g.reason = None
               /\ ~(g.duration < 0)
               /\ result = Match(Event(rule, inp, g.start, BodyOf(rule.id, c, g.duration)))
             Occupying(g) ==
               /\ rule.id = "occupancy_session" /\ g.time = inp.time
               /\ result = Match(Event(rule, inp, g.time, OccupancyBody(g)))
             OfQuality(g) ==
               /\ rule.id = "data_quality"
               /\ \E body :
                    result = [Match(Event(rule, inp, inp.time, body)) EXCEPT
                                !.evidence = {EvidenceId(EventId(rule, inp), g.key.session)}]
  <1>11. \/ Lasting(inp.facts[1], inp.configuration)
         \/ Occupying(inp.facts[1]) \/ OfQuality(inp.facts[1])
    <2>1. ~Unmatched(result)
      BY ONLY <1>6 DEF Unmatched
    <2> QED BY ONLY <1>5, <2>1, EvaluateIs
  <1>12. Lasting(f, pinned) \/ Occupying(f) \/ OfQuality(f)
    <2>1. inp.facts[1] = f /\ inp.configuration = pinned
      BY ONLY <1>4
    <2> HIDE DEF Lasting, Occupying, OfQuality
    <2> QED BY ONLY <1>11, <2>1
  <1> QED BY ONLY <1>8, <1>9, <1>10, <1>12

\* The ids of the matches under configuration c, whatever the time at which they
\* are processed.
Timeless(c, r, list) == Input(list, c, Cfg, r.version, AsOf(list[1]), None)

IdsOf(c, facts) ==
    {EventId(Resolved(p[1]), Timeless(c, p[1], p[2])) :
        p \in {q \in OperationalRules \X FactLists(facts) :
                 /\ InputError(Resolved(q[1]), Timeless(c, q[1], q[2])) = None
                 /\ Evaluate(Resolved(q[1]), Timeless(c, q[1], q[2])).status = "match"}}

LEMMA SameIds ==
    ASSUME NEW facts
    PROVE  \A i : i \in IdsOf(pinned, facts) <=> \E x \in Matches(facts) : i = x.event.id
  <1> DEFINE Answer(r, list) ==
               EngineEvaluate(OperationalRules, r.id, r.version, InputOf(r, list))
  <1>1. ASSUME NEW r \in OperationalRules, NEW list
        PROVE  /\ Answer(r, list).status = "match" <=>
                    /\ InputError(Resolved(r), Timeless(pinned, r, list)) = None
                    /\ Evaluate(Resolved(r), Timeless(pinned, r, list)).status = "match"
               /\ Answer(r, list).status = "match" =>
                    Answer(r, list).event.id = EventId(Resolved(r), Timeless(pinned, r, list))
    <2> DEFINE inp == InputOf(r, list)
               jnp == Timeless(pinned, r, list)
    <2>1. Again(inp, jnp)
      BY DEF Again, InputOf, Timeless, Input
    <2>2. Resolved(r) \in OperationalRules
      BY ResolvesTo
    <2> HIDE DEF inp, jnp
    <2>3. /\ Evaluate(Resolved(r), inp).status = Evaluate(Resolved(r), jnp).status
          /\ EventId(Resolved(r), inp) = EventId(Resolved(r), jnp)
          /\ InputError(Resolved(r), inp) = InputError(Resolved(r), jnp)
      BY <2>1, <2>2, AgainTheSame
    <2>4. LET answer == EngineEvaluate(OperationalRules, r.id, r.version, inp)
              rule   == Resolved(r)
          IN  /\ answer.status = "match" <=>
                   InputError(rule, inp) = None /\ Evaluate(rule, inp).status = "match"
              /\ answer.status = "match" => answer.event.id = EventId(rule, inp)
      BY EngineIs
    <2> QED BY <2>3, <2>4 DEF inp, jnp
  <1>2. Matches(facts) =
          {result \in {Answer(r, list) : r \in OperationalRules, list \in FactLists(facts)} :
             result.status = "match"}
    BY DEF Matches, InputOf
  <1> HIDE DEF Answer
  <1>3. \A i : (\E x \in Matches(facts) : i = x.event.id) <=>
               \E r \in OperationalRules, list \in FactLists(facts) :
                  Answer(r, list).status = "match" /\ i = Answer(r, list).event.id
    BY <1>2
  <1>4. \A i : i \in IdsOf(pinned, facts) <=>
               \E r \in OperationalRules, list \in FactLists(facts) :
                  /\ InputError(Resolved(r), Timeless(pinned, r, list)) = None
                  /\ Evaluate(Resolved(r), Timeless(pinned, r, list)).status = "match"
                  /\ i = EventId(Resolved(r), Timeless(pinned, r, list))
    <2> DEFINE Good(r, list) ==
                 /\ InputError(Resolved(r), Timeless(pinned, r, list)) = None
                 /\ Evaluate(Resolved(r), Timeless(pinned, r, list)).status = "match"
               Id(r, list) == EventId(Resolved(r), Timeless(pinned, r, list))
    <2>1. IdsOf(pinned, facts) = {Id(p[1], p[2]) : p \in {q \in OperationalRules \X FactLists(facts) :
                                                    Good(q[1], q[2])}}
      BY DEF IdsOf
    <2> HIDE DEF Good, Id
    <2>2. \A i : i \in IdsOf(pinned, facts) <=>
               \E r \in OperationalRules, list \in FactLists(facts) :
                  Good(r, list) /\ i = Id(r, list)
      <3>1. ASSUME NEW i \in IdsOf(pinned, facts)
            PROVE  \E r \in OperationalRules, list \in FactLists(facts) :
                      Good(r, list) /\ i = Id(r, list)
        BY <2>1
      <3>2. ASSUME NEW r \in OperationalRules, NEW list \in FactLists(facts), Good(r, list)
            PROVE  Id(r, list) \in IdsOf(pinned, facts)
        <4>1. <<r, list>> \in {q \in OperationalRules \X FactLists(facts) : Good(q[1], q[2])}
          BY <3>2
        <4>2. <<r, list>>[1] = r /\ <<r, list>>[2] = list
          OBVIOUS
        <4> QED BY <2>1, <4>1, <4>2
      <3> QED BY <3>1, <3>2
    <2> QED BY <2>2 DEF Good, Id
  <1> DEFINE Good(r, list) ==
               /\ InputError(Resolved(r), Timeless(pinned, r, list)) = None
               /\ Evaluate(Resolved(r), Timeless(pinned, r, list)).status = "match"
             Id(r, list) == EventId(Resolved(r), Timeless(pinned, r, list))
  <1>5. \A r \in OperationalRules, list \in FactLists(facts) :
          /\ Answer(r, list).status = "match" <=> Good(r, list)
          /\ Answer(r, list).status = "match" => Answer(r, list).event.id = Id(r, list)
    BY <1>1
  <1>6. \A i : i \in IdsOf(pinned, facts) <=>
               \E r \in OperationalRules, list \in FactLists(facts) :
                  Good(r, list) /\ i = Id(r, list)
    BY <1>4
  <1> HIDE DEF Good, Id
  <1>7. ASSUME NEW i \in IdsOf(pinned, facts)
        PROVE  \E x \in Matches(facts) : i = x.event.id
    <2>1. PICK r \in OperationalRules, list \in FactLists(facts) :
             Good(r, list) /\ i = Id(r, list)
      BY <1>6
    <2>2. Answer(r, list).status = "match" /\ i = Answer(r, list).event.id
      BY <1>5, <2>1
    <2> QED BY <1>3, <2>2
  <1>8. ASSUME NEW x \in Matches(facts)
        PROVE  x.event.id \in IdsOf(pinned, facts)
    <2>1. PICK r \in OperationalRules, list \in FactLists(facts) :
             Answer(r, list).status = "match" /\ x.event.id = Answer(r, list).event.id
      BY <1>3
    <2>2. Good(r, list) /\ x.event.id = Id(r, list)
      BY <1>5, <2>1
    <2> QED BY <1>6, <2>2
  <1> QED BY <1>7, <1>8

-----------------------------------------------------------------------------
(* Storing: what one observation leaves behind.                            *)

Linked(e) ==
    \E ref \in LinkEvent(e.event) :
        e.evidence = {ref.id} /\ ref.start <= ref.end /\ ref.end = e.event.time

\* The signals and the events stored of them.
Kept ==
    /\ \A e \in stored : Whole(e.event) /\ Linked(e) /\ Bare(e.event) \in signals
    /\ \A s \in signals : s.rule \in RuleIds /\ \E e \in stored : e.event.id = s.id

LEMMA LinkedIs ==
    ASSUME NEW e, Whole(e.event), e.evidence = {EvidenceId(e.event.id, Session)}
    PROVE  Linked(e)
  <1> DEFINE v == e.event
             start == IF v.rule = "data_quality" THEN v.time ELSE v.from
             params == Params(Session, Session)
             ref == [id |-> EvidenceId(v.id, Session), event |-> v.id, start |-> start,
                     end |-> v.time, camera |-> Session, session |-> Session]
  <1>1. None # Session
    BY RuleEventsAssumption DEF RuleEventsAssumption
  <1>2. /\ v.key.session = Session /\ v.key.camera = Session /\ v.time \in Int
        /\ v.rule # "data_quality" => v.from \in Int /\ v.from <= v.time
    BY DEF Whole
  <1>3. start \in Int /\ start <= v.time
    BY <1>2
  <1>4. /\ params.session = Session /\ params.camera = Session /\ params.asset = None
        /\ params.start = None /\ params.end = None
    BY DEF Params
  <1>5. ScopeFromEnvelope(v) = params /\ IntervalStart(v) = start
    BY <1>2 DEF ScopeFromEnvelope, IntervalStart
  <1> HIDE DEF params, start, v
  <1>6. /\ Or(params.start, IntervalStart(v)) = start /\ Or(params.end, v.time) = v.time
        /\ Or(params.camera, v.key.camera) = Session
    BY <1>1, <1>2, <1>4, <1>5 DEF Or
  <1>7. LinkEvent(v) = {ref}
    BY <1>1, <1>2, <1>3, <1>4, <1>5, <1>6 DEF LinkEvent, BuildRequest
  <1>8. ref.id = EvidenceId(v.id, Session) /\ ref.start = start /\ ref.end = v.time
    OBVIOUS
  <1> QED BY <1>3, <1>7, <1>8 DEF Linked, v

LEMMA StoreIs ==
    ASSUME NEW results, Store(results)
    PROVE  /\ stored \subseteq stored'
           /\ \A e \in stored' : e \in stored
                \/ \E r \in results : e = [event |-> r.event, evidence |-> r.evidence]
           /\ \A r \in results : \E e \in stored' : e.event.id = r.event.id
           /\ (\A r \in results : \E e \in stored : e.event.id = r.event.id) =>
                stored' = stored
  <1> DEFINE known == {s.event.id : s \in stored}
             fresh == {r.event.id : r \in results} \ known
             First(i) == CHOOSE r \in results : r.event.id = i
             added == {[event |-> r.event, evidence |-> r.evidence] :
                          r \in {First(i) : i \in fresh}}
  <1>1. stored' = stored \cup added
    BY DEF Store
  <1>2. ASSUME NEW i \in fresh
        PROVE  First(i) \in results /\ First(i).event.id = i
    BY <1>2
  <1> HIDE DEF First
  <1>3. \A e \in added : \E r \in results : e = [event |-> r.event, evidence |-> r.evidence]
    BY <1>2
  <1>4. ASSUME NEW r \in results
        PROVE  \E e \in stored \cup added : e.event.id = r.event.id
    <2>1. CASE r.event.id \in known
      BY <2>1
    <2>2. CASE r.event.id \notin known
      <3>1. r.event.id \in fresh
        BY <2>2
      <3> DEFINE e == [event |-> First(r.event.id).event,
                       evidence |-> First(r.event.id).evidence]
      <3>2. e \in added
        BY <3>1
      <3>3. e.event.id = r.event.id
        BY <1>2, <3>1
      <3> QED BY <3>2, <3>3
    <2> QED BY <2>1, <2>2
  <1>5. ASSUME \A r \in results : \E e \in stored : e.event.id = r.event.id
        PROVE  added = {}
    <2>1. fresh = {}
      BY <1>5
    <2> HIDE DEF fresh
    <2> QED BY <2>1
  <1> HIDE DEF added
  <1> QED BY <1>1, <1>3, <1>4, <1>5

\* What an observation does to the store, whether it is applied again or not.
LEMMA Applied ==
    ASSUME Sane(machines), NEW o \in Observations, Kept, Apply(o)
    PROVE  LET n == Stepped(machines, o)
               k == o.track
           IN  /\ machines' = n /\ Kept'
               /\ stored \subseteq stored' /\ signals \subseteq signals'
               /\ \A s \in signals' \ signals : s.rule \in OfDwell \cup OfWaiting =>
                    Tracked(pinned, s, machines.timed[k], n.timed[k], k)
               /\ \A i \in IdsOf(pinned, Facts(machines, n, o)) :
                    \E e \in stored' : e.event.id = i
               /\ (\A i \in IdsOf(pinned, Facts(machines, n, o)) :
                     \E e \in stored : e.event.id = i) => stored' = stored
  <1> DEFINE n == Stepped(machines, o)
             k == o.track
             facts == Facts(machines, n, o)
             results == Matches(facts)
  <1>1. /\ machines' = n /\ Store(results)
        /\ signals' = signals \cup {Bare(r.event) : r \in results}
    BY DEF Apply, Bare
  <1>2. ASSUME NEW r \in results
        PROVE  /\ Whole(r.event) /\ r.evidence = {EvidenceId(r.event.id, Session)}
               /\ r.event.rule \in OfDwell \cup OfWaiting =>
                    Tracked(pinned, Bare(r.event), machines.timed[k], n.timed[k], k)
    BY MatchesAre
  <1>3. \A i : i \in IdsOf(pinned, facts) <=> \E r \in results : i = r.event.id
    BY SameIds
  <1> HIDE DEF results, n, facts
  <1>4. ASSUME NEW r \in results
        PROVE  Linked([event |-> r.event, evidence |-> r.evidence])
    <2> DEFINE e == [event |-> r.event, evidence |-> r.evidence]
    <2>1. e.event = r.event /\ e.evidence = r.evidence
      OBVIOUS
    <2> HIDE DEF e
    <2>2. Linked(e)
      BY <1>2, <2>1, LinkedIs
    <2> QED BY <2>2 DEF e
  <1>5. /\ stored \subseteq stored'
        /\ \A e \in stored' : e \in stored
             \/ \E r \in results : e = [event |-> r.event, evidence |-> r.evidence]
        /\ \A r \in results : \E e \in stored' : e.event.id = r.event.id
        /\ (\A r \in results : \E e \in stored : e.event.id = r.event.id) =>
             stored' = stored
    BY <1>1, StoreIs
  <1>6. ASSUME NEW e \in stored'
        PROVE  Whole(e.event) /\ Linked(e) /\ Bare(e.event) \in signals'
    <2>1. CASE e \in stored
      BY <1>1, <2>1 DEF Kept
    <2>2. CASE \E r \in results : e = [event |-> r.event, evidence |-> r.evidence]
      <3>1. PICK r \in results : e = [event |-> r.event, evidence |-> r.evidence]
        BY <2>2
      <3>2. e.event = r.event
        BY <3>1
      <3> QED BY <1>1, <1>2, <1>4, <3>1, <3>2
    <2> QED BY <1>5, <2>1, <2>2
  <1>7. ASSUME NEW s \in signals'
        PROVE  s.rule \in RuleIds /\ \E e \in stored' : e.event.id = s.id
    <2>1. CASE s \in signals
      BY <1>5, <2>1 DEF Kept
    <2>2. CASE \E r \in results : s = Bare(r.event)
      <3>1. PICK r \in results : s = Bare(r.event)
        BY <2>2
      <3>2. s.id = r.event.id /\ s.rule \in RuleIds
        BY <1>2, <3>1, BareIs DEF Whole
      <3> QED BY <1>5, <3>2
    <2> QED BY <1>1, <2>1, <2>2
  <1>8. Kept'
    BY <1>6, <1>7 DEF Kept
  <1>9. ASSUME NEW s \in signals' \ signals, s.rule \in OfDwell \cup OfWaiting
        PROVE  Tracked(pinned, s, machines.timed[k], n.timed[k], k)
    <2>1. PICK r \in results : s = Bare(r.event)
      BY <1>1
    <2>2. s.rule = r.event.rule
      BY <1>2, <2>1, BareIs
    <2> QED BY <1>2, <1>9, <2>1, <2>2
  <1> DEFINE ids == IdsOf(pinned, facts)
  <1> HIDE DEF ids
  <1>10. /\ \A i \in ids : \E e \in stored' : e.event.id = i
         /\ (\A i \in ids : \E e \in stored : e.event.id = i) => stored' = stored
    <2>1. \A i : i \in ids <=> \E r \in results : i = r.event.id
      BY <1>3 DEF ids
    <2>2. /\ \A r \in results : \E e \in stored' : e.event.id = r.event.id
          /\ (\A r \in results : \E e \in stored : e.event.id = r.event.id) =>
               stored' = stored
      BY ONLY <1>5
    <2>3. ASSUME NEW i \in ids
          PROVE  \E e \in stored' : e.event.id = i
      <3>1. PICK r \in results : i = r.event.id
        BY ONLY <2>1, i \in ids
      <3> QED BY ONLY <2>2, <3>1, r \in results
    <2>4. ASSUME \A i \in ids : \E e \in stored : e.event.id = i
          PROVE  stored' = stored
      <3>1. ASSUME NEW r \in results
            PROVE  \E e \in stored : e.event.id = r.event.id
        <4>1. r.event.id \in ids
          BY ONLY <2>1, r \in results
        <4> QED BY ONLY <2>4, <4>1
      <3> QED BY ONLY <2>2, <3>1
    <2> QED BY ONLY <2>3, <2>4
  <1>11. signals \subseteq signals'
    BY <1>1
  <1>12. \A s \in signals' \ signals : s.rule \in OfDwell \cup OfWaiting =>
           Tracked(pinned, s, machines.timed[k], n.timed[k], k)
    BY ONLY <1>9
  <1>13. machines' = n /\ stored \subseteq stored'
    BY <1>1, <1>5
  <1> QED BY ONLY <1>8, <1>10, <1>11, <1>12, <1>13 DEF n, ids, facts

-----------------------------------------------------------------------------
(* History: h[i] are the machines after i of the observations of the log.  *)
(* M[k, t] are those of track k as of t, and P[k, t] those before.         *)

NoLater(t, u) == u \in Int /\ t <= u

\* Machines of the past are those that were recorded for their time.
Recorded(h, M, i) ==
    /\ Sane(h[i])
    /\ \A k \in Timed :
         LET t == h[i].timed[k].dwell.wm
         IN  t \in Int => /\ NoLater(t, h[Len(log)].timed[k].dwell.wm)
                          /\ h[i].timed[k] = M[<<k, t>>]

\* Each observation of the log led to the next machines, and to events.
Led(h, P, i) ==
    /\ h[i] = Stepped(h[i - 1], log[i])
    /\ \A k \in Timed : h[i].timed[k] # h[i - 1].timed[k] =>
         h[i - 1].timed[k] = P[<<k, h[i].timed[k].dwell.wm>>]
    /\ \A j \in IdsOf(pinned, Facts(h[i - 1], h[i], log[i])) :
         \E e \in stored : e.event.id = j

\* A signal about an interval is the one that the history of its track tells.
Told(h, M, P, s) ==
    s.rule \in OfDwell \cup OfWaiting =>
        \E k \in Timed, t \in Int :
            /\ NoLater(t, h[Len(log)].timed[k].dwell.wm)
            /\ s = Signal(pinned, s.rule, s.version, k, t,
                          From(s.rule, P[<<k, t>>], M[<<k, t>>]))
            /\ s.rule \in OfOpen => IsOpen(s.rule, M[<<k, t>>])

Counters ==
    /\ upto \in Nat /\ done \in Nat /\ log \in Seq(Observations)
    /\ upto <= done /\ done <= upto + Len(log)

History(h, M, P) ==
    /\ saved.state = h[0] /\ machines = h[done - upto]
    /\ \A i \in 0 .. Len(log) : Recorded(h, M, i)
    /\ \A i \in 1 .. Len(log) : Led(h, P, i)
    /\ \A s \in signals : Told(h, M, P, s)

RuleInv == Counters /\ Kept /\ \E h, M, P : History(h, M, P)

LEMMA RuleInit == Init => RuleInv
  <1> SUFFICES ASSUME Init PROVE RuleInv
    OBVIOUS
  <1> DEFINE h == [i \in {0} |-> NewMachines]
             M == [p \in Timed \X {None} |-> NewTimed]
  <1>1. Counters /\ Kept /\ Len(log) = 0
    BY DEF Init, Counters, Kept
  <1>2. h[0] = NewMachines
    OBVIOUS
  <1>3. saved.state = NewMachines
    BY DEF Init, Checkpoint
  <1>4. Recorded(h, M, 0)
    <2>1. \A k \in Timed : h[0].timed[k].dwell.wm = None
      BY <1>2 DEF NewMachines, NewTimed, NewDwell
    <2> HIDE DEF h, M
    <2> QED BY <1>2, <2>1, NewSane, Numbers DEF Recorded
  <1> HIDE DEF h, M
  <1>5. History(h, M, M)
    BY <1>1, <1>2, <1>3, <1>4 DEF Init, History
  <1> QED BY <1>1, <1>5 DEF RuleInv

\* What is true of the machines of the present.
LEMMA Present ==
    ASSUME Counters, NEW h, NEW M, NEW P, History(h, M, P)
    PROVE  /\ done - upto \in 0 .. Len(log) /\ Len(log) \in Nat
           /\ Recorded(h, M, done - upto) /\ Sane(machines)
           /\ done = Observed <=> done - upto = Len(log)
  <1>1. done - upto \in 0 .. Len(log) /\ Len(log) \in Nat
    BY DEF Counters
  <1>2. done = Observed <=> done - upto = Len(log)
    BY DEF Counters, Observed
  <1> QED BY <1>1, <1>2 DEF History, Recorded

LEMMA UpcomingAre ==
    ASSUME Sane(machines)
    PROVE  Upcoming \subseteq Observations
  <1>1. machines.zone.wm \in Int \cup {None}
    BY DEF Sane, ZoneType, Time
  <1>2. Newest \in Int
    BY <1>1 DEF Newest
  <1>3. {"present", "absent"} \subseteq Kinds /\ Distances \cup {0} \subseteq Nat
    BY TracksAssumption DEF Kinds
  <1> SUFFICES ASSUME NEW o \in Upcoming PROVE o \in Observations
    OBVIOUS
  <1>4. o \in [track : Tracks, kind : {"present", "absent"}, dist : Distances \cup {0},
               time : {Newest, Newest + 1}]
    BY DEF Upcoming
  <1> QED BY <1>2, <1>3, <1>4 DEF Observations

\* A new observation adds to the history.
LEMMA RuleObserve == RuleInv /\ Observe => RuleInv'
  <1> SUFFICES ASSUME RuleInv, Observe PROVE RuleInv'
    OBVIOUS
  <1>1. PICK h, M, P : History(h, M, P)
    BY DEF RuleInv
  <1>2. /\ done - upto \in 0 .. Len(log) /\ Len(log) \in Nat
        /\ Sane(machines) /\ done - upto = Len(log) /\ Counters /\ Kept
    BY <1>1, Present DEF RuleInv, Observe
  <1>3. PICK o \in Upcoming : Apply(o) /\ log' = Append(log, o)
    BY DEF Observe
  <1>4. o \in Observations
    BY <1>2, <1>3, UpcomingAre
  <1>5. /\ done' = done + 1 /\ pinned' = pinned /\ saved' = saved /\ upto' = upto
    BY DEF Observe
  \* Rigid names for what the present is.
  <1>6. PICK m, len : m = machines /\ len = Len(log)
    OBVIOUS
  <1> DEFINE n == Stepped(m, o)
             g == [i \in 0 .. len + 1 |-> IF i <= len THEN h[i] ELSE n]
             N == [p \in Timed \X Int |->
                     IF p[2] = n.timed[p[1]].dwell.wm THEN n.timed[p[1]] ELSE M[p]]
             Q == [p \in Timed \X Int |->
                     IF /\ p[2] = n.timed[p[1]].dwell.wm
                        /\ n.timed[p[1]] # m.timed[p[1]]
                     THEN m.timed[p[1]] ELSE P[p]]
  <1>7. /\ machines' = n /\ Kept'
        /\ stored \subseteq stored' /\ signals \subseteq signals'
        /\ \A s \in signals' \ signals : s.rule \in OfDwell \cup OfWaiting =>
             Tracked(pinned, s, m.timed[o.track], n.timed[o.track], o.track)
        /\ \A i \in IdsOf(pinned, Facts(m, n, o)) :
             \E e \in stored' : e.event.id = i
    BY <1>2, <1>3, <1>4, <1>6, Applied
  <1>8. Sane(n) /\ Advances(m, n, o)
    BY <1>2, <1>4, <1>6, SteppedSane
  <1>9. /\ log' \in Seq(Observations) /\ Len(log') = len + 1 /\ log'[len + 1] = o
        /\ \A i \in 1 .. len : log'[i] = log[i]
    BY <1>2, <1>3, <1>4, <1>6 DEF Counters
  <1>10. Counters'
    BY <1>2, <1>5, <1>9, <1>6 DEF Counters
  <1>11. /\ \A i \in 0 .. len : g[i] = h[i]
         /\ g[len + 1] = n /\ m = h[len]
    BY <1>1, <1>2, <1>6 DEF History
  <1>12. ASSUME NEW k \in Timed, NEW t \in Int
         PROVE  /\ N[<<k, t>>] = IF t = n.timed[k].dwell.wm THEN n.timed[k] ELSE M[<<k, t>>]
                /\ Q[<<k, t>>] = IF t = n.timed[k].dwell.wm /\ n.timed[k] # m.timed[k]
                                 THEN m.timed[k] ELSE P[<<k, t>>]
    OBVIOUS
  <1> HIDE DEF n, g, N, Q
  <1>13. /\ \A i \in 0 .. len : Recorded(h, M, i)
         /\ \A i \in 1 .. len : Led(h, P, i)
         /\ \A s \in signals : Told(h, M, P, s)
    BY <1>1, <1>6 DEF History
  <1>14. \A k \in Timed : LET u == m.timed[k].dwell.wm   v == n.timed[k].dwell.wm
                          IN  /\ u \in Int \cup {None} /\ v \in Int \cup {None}
                              /\ u \in Int => v \in Int /\ u <= v
                              /\ u \in Int /\ n.timed[k] # m.timed[k] => u < v
                              /\ u \in Int => m.timed[k] = M[<<k, u>>]
    <2> TAKE k \in Timed
    <2> DEFINE u == m.timed[k].dwell.wm
               v == n.timed[k].dwell.wm
    <2>1. m.timed[k] \in Followers /\ n.timed[k] \in Followers
      BY <1>2, <1>6, <1>8 DEF Sane, Agrees
    <2>2. u \in Int \cup {None} /\ v \in Int \cup {None}
      BY <2>1 DEF Followers, Dwell, Time
    <2>3. Recorded(h, M, len) /\ h[len] = m
      BY <1>2, <1>6, <1>11, <1>13
    <2>4. u \in Int => m.timed[k] = M[<<k, u>>]
      BY <2>3 DEF Recorded
    <2>5. CASE n.timed[k] = m.timed[k]
      <3>1. u = v
        BY <2>5
      <3> HIDE DEF u, v
      <3> QED BY <2>2, <2>4, <2>5, <3>1 DEF u, v
    <2>6. CASE n.timed[k] # m.timed[k]
      <3>1. v = o.time /\ o.time \in Int /\ (u \in Int => u < o.time)
        BY <1>4, <1>8, <2>6 DEF Advances, Observations
      <3> HIDE DEF u, v
      <3>2. u \in Int => v \in Int /\ u <= v /\ u < v
        BY <3>1
      <3> QED BY <2>2, <2>4, <2>6, <3>2 DEF u, v
    <2> QED BY <2>5, <2>6
  \* Nothing that was recorded is changed.
  <1>15. ASSUME NEW k \in Timed, NEW t \in Int, NoLater(t, m.timed[k].dwell.wm)
         PROVE  /\ N[<<k, t>>] = M[<<k, t>>] /\ Q[<<k, t>>] = P[<<k, t>>]
                /\ NoLater(t, n.timed[k].dwell.wm)
    <2> DEFINE u == m.timed[k].dwell.wm
               v == n.timed[k].dwell.wm
    <2>1. /\ u \in Int /\ t <= u
          /\ v \in Int /\ u <= v
          /\ n.timed[k] # m.timed[k] => u < v
          /\ m.timed[k] = M[<<k, u>>]
      BY <1>14, <1>15 DEF NoLater
    <2>2. t = v => n.timed[k] = m.timed[k] /\ t = u
      BY <2>1
    <2>3. t <= v
      BY <2>1
    <2> QED BY <1>12, <2>1, <2>2, <2>3 DEF NoLater
  <1>16. ASSUME NEW i \in 0 .. len + 1
         PROVE  Recorded(g, N, i)'
    <2>1. CASE i \in 0 .. len
      <3>1. g[i] = h[i] /\ Sane(h[i])
        BY <1>11, <1>13, <2>1 DEF Recorded
      <3>2. ASSUME NEW k \in Timed, h[i].timed[k].dwell.wm \in Int
            PROVE  /\ NoLater(h[i].timed[k].dwell.wm, n.timed[k].dwell.wm)
                   /\ h[i].timed[k] = N[<<k, h[i].timed[k].dwell.wm>>]
        <4>1. /\ NoLater(h[i].timed[k].dwell.wm, m.timed[k].dwell.wm)
              /\ h[i].timed[k] = M[<<k, h[i].timed[k].dwell.wm>>]
          BY <1>11, <1>13, <1>6, <2>1, <3>2 DEF Recorded
        <4> QED BY <1>15, <3>2, <4>1
      <3> QED BY <1>9, <1>11, <3>1, <3>2 DEF Recorded
    <2>2. CASE i = len + 1
      <3>1. ASSUME NEW k \in Timed, n.timed[k].dwell.wm \in Int
            PROVE  /\ NoLater(n.timed[k].dwell.wm, n.timed[k].dwell.wm)
                   /\ n.timed[k] = N[<<k, n.timed[k].dwell.wm>>]
        BY <1>12, <3>1 DEF NoLater
      <3> QED BY <1>8, <1>9, <1>11, <2>2, <3>1 DEF Recorded
    <2> QED BY <1>2, <1>6, <2>1, <2>2
  <1>17. ASSUME NEW i \in 1 .. len + 1
         PROVE  Led(g, Q, i)'
    <2>1. CASE i \in 1 .. len
      <3>1. g[i] = h[i] /\ g[i - 1] = h[i - 1] /\ log'[i] = log[i] /\ Led(h, P, i)
        BY <1>2, <1>9, <1>11, <1>6, <1>13, <2>1
      <3>2. ASSUME NEW k \in Timed, h[i].timed[k] # h[i - 1].timed[k]
            PROVE  h[i - 1].timed[k] = Q[<<k, h[i].timed[k].dwell.wm>>]
        <4>1. h[i - 1].timed[k] = P[<<k, h[i].timed[k].dwell.wm>>]
          BY <3>1, <3>2 DEF Led
        <4>2. Recorded(h, M, i) /\ Recorded(h, M, i - 1) /\ i - 1 \in 0 .. len
          BY <1>2, <1>13, <1>6, <2>1
        <4>3. log[i] \in Observations
          BY <1>2, <1>6, <2>1 DEF Counters
        <4>4. h[i].timed[k].dwell.wm \in Int
          <5>1. Advances(h[i - 1], h[i], log[i])
            <6>1. Sane(h[i - 1])
              BY ONLY <4>2 DEF Recorded
            <6>2. h[i] = Stepped(h[i - 1], log[i])
              BY ONLY <3>1 DEF Led
            <6> QED BY ONLY <4>3, <6>1, <6>2, SteppedSane
          <5> QED BY <3>2, <4>3, <5>1 DEF Advances, Observations
        <4>5. NoLater(h[i].timed[k].dwell.wm, m.timed[k].dwell.wm)
          BY <1>11, <1>6, <4>2, <4>4 DEF Recorded
        <4> QED BY <1>15, <4>1, <4>4, <4>5
      <3>3. /\ h[i] = Stepped(h[i - 1], log[i])
            /\ \A j \in IdsOf(pinned, Facts(h[i - 1], h[i], log[i])) :
                 \E e \in stored : e.event.id = j
        BY <3>1 DEF Led
      <3>4. /\ g[i] = Stepped(g[i - 1], log'[i])
            /\ \A j \in IdsOf(pinned', Facts(g[i - 1], g[i], log'[i])) :
                 \E e \in stored' : e.event.id = j
        BY <1>5, <1>7, <3>1, <3>3
      <3> QED BY <3>1, <3>2, <3>4 DEF Led
    <2>2. CASE i = len + 1
      <3>1. i - 1 = len /\ len \in 0 .. len
        BY <1>2, <1>6, <2>2
      <3>2. g[len] = m /\ g[len + 1] = n /\ log'[len + 1] = o
        BY <1>9, <1>11, <3>1
      <3>3. g[i - 1] = m /\ g[i] = n /\ log'[i] = o
        BY <2>2, <3>1, <3>2
      <3>4. g[i] = Stepped(g[i - 1], log'[i])
        BY <3>3 DEF n
      <3>5. ASSUME NEW k \in Timed, n.timed[k] # m.timed[k]
            PROVE  m.timed[k] = Q[<<k, n.timed[k].dwell.wm>>]
        <4>1. n.timed[k].dwell.wm \in Int
          BY <1>4, <1>8, <3>5 DEF Advances, Observations
        <4> QED BY <1>12, <3>5, <4>1
      <3>6. \A j \in IdsOf(pinned', Facts(g[i - 1], g[i], log'[i])) :
              \E e \in stored' : e.event.id = j
        BY <1>5, <1>7, <3>3
      <3> QED BY <3>3, <3>4, <3>5, <3>6 DEF Led
    <2> QED BY <1>2, <1>6, <2>1, <2>2
  <1>18. ASSUME NEW s \in signals'
         PROVE  Told(g, N, Q, s)'
    <2> SUFFICES ASSUME s.rule \in OfDwell \cup OfWaiting
                 PROVE  \E k \in Timed, t \in Int :
                          /\ NoLater(t, n.timed[k].dwell.wm)
                          /\ s = Signal(pinned, s.rule, s.version, k, t,
                                        From(s.rule, Q[<<k, t>>], N[<<k, t>>]))
                          /\ s.rule \in OfOpen => IsOpen(s.rule, N[<<k, t>>])
      BY <1>5, <1>9, <1>11 DEF Told
    <2>1. CASE s \in signals
      <3>1. PICK k \in Timed, t \in Int :
              /\ NoLater(t, m.timed[k].dwell.wm)
              /\ s = Signal(pinned, s.rule, s.version, k, t,
                            From(s.rule, P[<<k, t>>], M[<<k, t>>]))
              /\ s.rule \in OfOpen => IsOpen(s.rule, M[<<k, t>>])
        BY <1>11, <1>13, <1>6, <2>1 DEF Told
      <3> QED BY <1>15, <3>1
    <2>2. CASE s \notin signals
      <3> DEFINE k == o.track
                 t == n.timed[k].dwell.wm
      <3>1. /\ k \in Timed /\ t \in Int
            /\ s = Signal(pinned, s.rule, s.version, k, t,
                          From(s.rule, m.timed[k], n.timed[k]))
            /\ IsOpen(s.rule, n.timed[k]) \/ n.timed[k] # m.timed[k]
            /\ s.rule \in OfOpen => IsOpen(s.rule, n.timed[k])
        BY <1>7, <2>2 DEF Tracked
      <3>2. N[<<k, t>>] = n.timed[k]
        BY <1>12, <3>1
      <3>3. From(s.rule, m.timed[k], n.timed[k]) = From(s.rule, Q[<<k, t>>], n.timed[k])
        <4>1. CASE IsOpen(s.rule, n.timed[k])
          BY <4>1 DEF IsOpen, From, DwellSince, WaitStart
        <4>2. CASE n.timed[k] # m.timed[k]
          <5>1. Q[<<k, t>>] = m.timed[k]
            BY <1>12, <3>1, <4>2
          <5> QED BY <5>1
        <4> QED BY <3>1, <4>1, <4>2
      <3>4. NoLater(t, t)
        BY <3>1 DEF NoLater
      <3> HIDE DEF t
      <3> QED BY <3>1, <3>2, <3>3, <3>4 DEF t
    <2> QED BY <2>1, <2>2
  <1>19. saved'.state = g[0] /\ machines' = g[done' - upto']
    <2>1. saved.state = h[0] /\ 0 \in 0 .. len
      BY <1>1, <1>2, <1>6 DEF History
    <2>2. done' - upto' = len + 1
      BY <1>2, <1>5, <1>6 DEF Counters
    <2> QED BY <1>5, <1>7, <1>11, <2>1, <2>2
  <1>20. History(g, N, Q)'
    BY <1>9, <1>16, <1>17, <1>18, <1>19 DEF History
  <1> QED BY <1>7, <1>10, <1>20 DEF RuleInv

\* What replay applies, and what comes of it, is in the history.
LEMMA ReplayIs ==
    ASSUME RuleInv, Replay, NEW h, NEW M, NEW P, History(h, M, P)
    PROVE  LET i == done - upto + 1
           IN  /\ i \in 1 .. Len(log) /\ machines' = h[i] /\ Kept'
               /\ stored' = stored /\ signals \subseteq signals'
               /\ \A s \in signals' : Told(h, M, P, s)
  <1>1. /\ done - upto \in 0 .. Len(log) /\ Len(log) \in Nat
        /\ Sane(machines) /\ (done = Observed <=> done - upto = Len(log))
        /\ Counters /\ Kept
    BY Present DEF RuleInv
  <1> DEFINE i == done - upto + 1
             o == log[i]
             n == Stepped(machines, o)
  <1>2. i \in 1 .. Len(log) /\ i - 1 = done - upto /\ i \in 0 .. Len(log)
    BY <1>1 DEF Replay, Counters, Observed
  <1>3. o \in Observations
    BY <1>2 DEF Counters, RuleInv
  <1>4. Led(h, P, i) /\ Recorded(h, M, i) /\ h[i - 1] = machines
    BY <1>2 DEF History
  <1>5. h[i] = n
    BY <1>4 DEF Led
  <1>6. Apply(o)
    BY DEF Replay
  <1> HIDE DEF i, o, n
  <1>7. /\ machines' = n /\ Kept' /\ signals \subseteq signals'
        /\ \A s \in signals' \ signals : s.rule \in OfDwell \cup OfWaiting =>
             Tracked(pinned, s, machines.timed[o.track], n.timed[o.track], o.track)
        /\ (\A j \in IdsOf(pinned, Facts(machines, n, o)) :
              \E e \in stored : e.event.id = j) => stored' = stored
    BY <1>1, <1>3, <1>6, Applied DEF n
  <1>8. stored' = stored
    BY <1>4, <1>5, <1>7 DEF Led, o
  <1>9. ASSUME NEW s \in signals'
        PROVE  Told(h, M, P, s)
    <2>1. CASE s \in signals
      BY <2>1 DEF History
    <2>2. CASE s \notin signals /\ s.rule \in OfDwell \cup OfWaiting
      <3> DEFINE k == o.track
                 t == n.timed[k].dwell.wm
      <3>1. /\ k \in Timed /\ t \in Int
            /\ s = Signal(pinned, s.rule, s.version, k, t,
                          From(s.rule, machines.timed[k], n.timed[k]))
            /\ IsOpen(s.rule, n.timed[k]) \/ n.timed[k] # machines.timed[k]
            /\ s.rule \in OfOpen => IsOpen(s.rule, n.timed[k])
        BY <1>7, <2>2 DEF Tracked
      <3>2. NoLater(t, h[Len(log)].timed[k].dwell.wm) /\ n.timed[k] = M[<<k, t>>]
        BY <1>4, <1>5, <3>1 DEF Recorded
      <3>3. From(s.rule, machines.timed[k], n.timed[k]) = From(s.rule, P[<<k, t>>], n.timed[k])
        <4>1. CASE IsOpen(s.rule, n.timed[k])
          BY <4>1 DEF IsOpen, From, DwellSince, WaitStart
        <4>2. CASE n.timed[k] # machines.timed[k]
          <5>1. machines.timed[k] = P[<<k, t>>]
            BY <1>4, <1>5, <3>1, <4>2 DEF Led
          <5> QED BY <5>1
        <4> QED BY <3>1, <4>1, <4>2
      <3> HIDE DEF k, t
      <3> QED BY <3>1, <3>2, <3>3 DEF Told
    <2> QED BY <2>1, <2>2 DEF Told
  <1> QED BY <1>2, <1>5, <1>7, <1>8, <1>9 DEF i

LEMMA RuleReplay == RuleInv /\ Replay => RuleInv'
  <1> SUFFICES ASSUME RuleInv, Replay PROVE RuleInv'
    OBVIOUS
  <1>1. PICK h, M, P : History(h, M, P)
    BY DEF RuleInv
  <1>2. /\ done' = done + 1
        /\ pinned' = pinned /\ saved' = saved /\ log' = log /\ upto' = upto
    BY DEF Replay
  <1>3. PICK i : i = done - upto + 1
    OBVIOUS
  <1>4. /\ i \in 1 .. Len(log) /\ machines' = h[i] /\ Kept'
        /\ stored' = stored
        /\ \A s \in signals' : Told(h, M, P, s)
    BY <1>1, <1>3, ReplayIs
  <1>5. Counters' /\ done' - upto' = i
    BY <1>2, <1>3, <1>4 DEF RuleInv, Counters
  <1>6. \A j \in 0 .. Len(log') : Recorded(h, M, j)'
    BY <1>1, <1>2 DEF History, Recorded
  <1>7. \A j \in 1 .. Len(log') : Led(h, P, j)'
    BY <1>1, <1>2, <1>4 DEF History, Led
  <1>8. \A s \in signals' : Told(h, M, P, s)'
    BY <1>2, <1>4 DEF Told
  <1>9. saved'.state = h[0]
    BY <1>1, <1>2 DEF History
  <1>10. History(h, M, P)'
    BY <1>4, <1>5, <1>6, <1>7, <1>8, <1>9 DEF History
  <1> QED BY <1>4, <1>5, <1>10 DEF RuleInv

\* A checkpoint is a history with nothing in it.
LEMMA RuleSave == RuleInv /\ Save => RuleInv'
  <1> SUFFICES ASSUME RuleInv, Save PROVE RuleInv'
    OBVIOUS
  <1>1. PICK h, M, P : History(h, M, P)
    BY DEF RuleInv
  <1>2. /\ Len(log) \in 0 .. Len(log) /\ Recorded(h, M, Len(log)) /\ machines = h[Len(log)]
        /\ Counters /\ Kept
    BY <1>1, Present DEF RuleInv, Save, History
  <1>3. /\ saved' = Checkpoint(machines) /\ upto' = done /\ log' = <<>>
        /\ pinned' = pinned /\ machines' = machines /\ done' = done
        /\ stored' = stored /\ signals' = signals
    BY DEF Save
  <1>4. PICK m : m = machines
    OBVIOUS
  <1> DEFINE g == [i \in {0} |-> m]
  <1>5. g[0] = m
    OBVIOUS
  <1> HIDE DEF g
  <1>6. Len(log') = 0 /\ log' \in Seq(Observations)
    BY <1>3
  <1>7. Counters' /\ done' - upto' = 0
    BY <1>2, <1>3, <1>6 DEF Counters
  <1>8. Kept'
    BY <1>2, <1>3 DEF Kept
  <1>9. ASSUME NEW i \in 0 .. Len(log')
        PROVE  Recorded(g, M, i)'
    <2>1. i = 0
      BY <1>6
    <2>2. Recorded(h, M, Len(log))
      BY <1>2
    <2> QED BY <1>2, <1>4, <1>5, <1>6, <2>1, <2>2 DEF Recorded
  <1>10. ASSUME NEW s \in signals'
         PROVE  Told(g, M, P, s)'
    <2>1. Told(h, M, P, s)
      BY <1>1, <1>3 DEF History
    <2>2. h[Len(log)] = g[Len(log')]
      BY <1>2, <1>4, <1>5, <1>6
    <2> QED BY <1>3, <2>1, <2>2 DEF Told
  <1>11. saved'.state = g[0] /\ machines' = g[done' - upto']
    BY <1>3, <1>4, <1>5, <1>7 DEF Checkpoint
  <1>12. 1 .. Len(log') = {}
    BY <1>6
  <1>13. History(g, M, P)'
    BY <1>9, <1>10, <1>11, <1>12 DEF History
  <1> QED BY <1>7, <1>8, <1>13 DEF RuleInv

\* A restart goes back to where the history begins.
LEMMA RuleRestart == RuleInv /\ Restart => RuleInv'
  <1> SUFFICES ASSUME RuleInv, Restart PROVE RuleInv'
    OBVIOUS
  <1>1. PICK h, M, P : History(h, M, P)
    BY DEF RuleInv
  <1>2. /\ machines' = saved.state /\ done' = upto /\ pinned' = pinned /\ saved' = saved
        /\ log' = log /\ upto' = upto /\ stored' = stored /\ signals' = signals
    BY DEF Restart
  <1>3. Counters' /\ done' - upto' = 0
    BY <1>2 DEF RuleInv, Counters
  <1>4. Kept'
    BY <1>2 DEF RuleInv, Kept
  <1>5. \A j \in 0 .. Len(log') : Recorded(h, M, j)'
    BY <1>1, <1>2 DEF History, Recorded
  <1>6. \A j \in 1 .. Len(log') : Led(h, P, j)'
    BY <1>1, <1>2 DEF History, Led
  <1>7. \A s \in signals' : Told(h, M, P, s)'
    BY <1>1, <1>2 DEF History, Told
  <1>8. saved'.state = h[0] /\ machines' = h[done' - upto']
    BY <1>1, <1>2, <1>3 DEF History
  <1>9. History(h, M, P)'
    BY <1>5, <1>6, <1>7, <1>8 DEF History
  <1> QED BY <1>3, <1>4, <1>9 DEF RuleInv

LEMMA RuleStutter == RuleInv /\ UNCHANGED ruleVars => RuleInv'
  <1> SUFFICES ASSUME RuleInv, UNCHANGED ruleVars PROVE RuleInv'
    OBVIOUS
  <1>1. PICK h, M, P : History(h, M, P)
    BY DEF RuleInv
  <1>2. /\ machines' = machines /\ done' = done /\ pinned' = pinned /\ saved' = saved
        /\ log' = log /\ upto' = upto /\ stored' = stored /\ signals' = signals
    BY DEF ruleVars
  <1>3. Counters' /\ Kept'
    BY <1>2 DEF RuleInv, Counters, Kept
  <1>4. \A j \in 0 .. Len(log') : Recorded(h, M, j)'
    BY <1>1, <1>2 DEF History, Recorded
  <1>5. \A j \in 1 .. Len(log') : Led(h, P, j)'
    BY <1>1, <1>2 DEF History, Led
  <1>6. \A s \in signals' : Told(h, M, P, s)'
    BY <1>1, <1>2 DEF History, Told
  <1>7. History(h, M, P)'
    BY <1>1, <1>2, <1>4, <1>5, <1>6 DEF History
  <1> QED BY <1>3, <1>7 DEF RuleInv

LEMMA RuleInductive == Spec => []RuleInv
  <1>1. RuleInv /\ [Next]_ruleVars => RuleInv'
    BY RuleObserve, RuleReplay, RuleSave, RuleRestart, RuleStutter DEF Next
  <1> QED BY <1>1, RuleInit, PTL DEF Spec

-----------------------------------------------------------------------------
(* What follows of the rules.                                              *)

\* Every stored event has, from its envelope alone, the very request that its
\* evaluation made, for a clip that begins and ends with the episode: link_event
\* of the linkage service never rejects an event the engine has let pass.
THEOREM EventsAreLinked == Spec => []LinkedToItsRequest
  <1>1. RuleInv => LinkedToItsRequest
    BY DEF RuleInv, Kept, Linked, LinkedToItsRequest
  <1> QED BY <1>1, RuleInductive, PTL

\* Observations that are applied again after a restart add nothing to the store,
\* however many crashes there were and wherever the last checkpoint is.
THEOREM ReplayIsIdempotent == Spec => ReplayAddsNothing
  <1>1. RuleInv /\ [Next]_ruleVars => (done < Observed => stored' = stored)
    <2> SUFFICES ASSUME RuleInv, [Next]_ruleVars, done < Observed
                 PROVE  stored' = stored
      OBVIOUS
    <2>1. CASE Observe
      BY <2>1 DEF Observe, RuleInv, Counters, Observed
    <2>2. CASE Replay
      BY <2>2, ReplayIs DEF RuleInv
    <2>3. CASE Save
      BY <2>3 DEF Save
    <2>4. CASE Restart
      BY <2>4 DEF Restart
    <2>5. CASE UNCHANGED ruleVars
      BY <2>5 DEF ruleVars
    <2> QED BY <2>1, <2>2, <2>3, <2>4, <2>5 DEF Next
  <1> QED BY <1>1, RuleInductive, PTL DEF Spec, ReplayAddsNothing

LEMMA SignalIs ==
    ASSUME NEW c, NEW id, NEW version, NEW k, NEW t, NEW from,
           NEW s, s = Signal(c, id, version, k, t, from)
    PROVE  /\ s.id = <<Session, Session, k, Zone, id, version, id, t, Cfg>>
           /\ s.rule = id /\ s.time = t /\ s.from = from /\ s.key.track = k
  BY DEF Signal, KeyOf, Key

\* No match of a rule about an interval is lost to another event with its id: the
\* id leaves out where the interval began, and still tells two episodes apart.
THEOREM NoEpisodeIsLost == Spec => []EpisodesKeepTheirEvents
  <1>1. ASSUME RuleInv, NEW s \in signals,
               s.rule \notin {"occupancy_session", "data_quality"}
        PROVE  \E e \in stored : [e.event EXCEPT !.produced = None] = s
    <2>1. PICK h, M, P : History(h, M, P)
      BY <1>1 DEF RuleInv
    <2>2. s.rule \in OfDwell \cup OfWaiting
      BY <1>1 DEF RuleInv, Kept, RuleIds
    <2>3. PICK e \in stored : e.event.id = s.id
      BY <1>1 DEF RuleInv, Kept
    <2> DEFINE v == e.event
               b == Bare(v)
    <2>4. Whole(v) /\ b \in signals
      BY <1>1, <2>3 DEF RuleInv, Kept
    <2>5. b.rule = v.rule /\ b.version = v.version /\ b.id = v.id
      BY <2>4, BareIs
    <2>6. v.id = <<Session, Session, v.key.track, Zone, v.rule, v.version, v.rule, v.time, Cfg>>
      BY <2>4 DEF Whole
    <2>7. Told(h, M, P, s) /\ Told(h, M, P, b)
      BY <1>1, <2>1, <2>4 DEF History
    <2>8. PICK k \in Timed, t \in Int :
            s = Signal(pinned, s.rule, s.version, k, t, From(s.rule, P[<<k, t>>], M[<<k, t>>]))
      BY <2>2, <2>7 DEF Told
    <2>9. s.id = <<Session, Session, k, Zone, s.rule, s.version, s.rule, t, Cfg>>
      BY <2>8, SignalIs
    <2>10. v.rule = s.rule /\ v.version = s.version
      <3> HIDE DEF v
      <3>1. v.id = s.id
        BY <2>3 DEF v
      <3> QED BY <2>6, <2>9, <3>1
    <2>11. PICK l \in Timed, u \in Int :
             b = Signal(pinned, b.rule, b.version, l, u, From(b.rule, P[<<l, u>>], M[<<l, u>>]))
      BY <2>2, <2>5, <2>10, <2>7 DEF Told
    <2>12. b.id = <<Session, Session, l, Zone, b.rule, b.version, b.rule, u, Cfg>>
      BY <2>11, SignalIs
    <2>13. l = k /\ u = t
      BY <2>3, <2>5, <2>9, <2>12
    <2>14. b = s
      BY <2>5, <2>8, <2>10, <2>11, <2>13
    <2> QED BY <2>3, <2>14 DEF Bare
  <1>2. RuleInv => EpisodesKeepTheirEvents
    BY <1>1 DEF EpisodesKeepTheirEvents
  <1> QED BY <1>2, RuleInductive, PTL

\* A gap in the service or a delay of a turnover is reported only of an interval
\* that was still open at the time of the report, and since its true beginning.
THEOREM OpenWhenReported == Spec => []ReportedWhileOpen
  <1>1. ASSUME RuleInv, NEW e \in stored, NEW k \in Timed, e.event.key.track = k
        PROVE  LET w == machines.timed[k].waiting   d == machines.timed[k].dwell
               IN  /\ e.event.rule = "service_gap_candidate" /\ e.event.time = w.wm =>
                         w.st = "waiting" /\ w.start = e.event.from
                   /\ e.event.rule = "turnover_delay" /\ e.event.time = d.wm =>
                         d.st = "dwelling" /\ d.since = e.event.from
    <2> DEFINE v == e.event
               b == Bare(v)
               w == machines.timed[k].waiting
               d == machines.timed[k].dwell
    <2> SUFFICES ASSUME v.rule \in OfOpen, v.time = d.wm
                 PROVE  /\ v.rule = "service_gap_candidate" =>
                             w.st = "waiting" /\ w.start = v.from
                        /\ v.rule = "turnover_delay" =>
                             d.st = "dwelling" /\ d.since = v.from
      <3>1. Sane(machines)
        BY <1>1, Present DEF RuleInv
      <3>2. w.wm = d.wm
        BY <3>1 DEF Sane, Agrees
      <3> HIDE DEF v, w, d
      <3> QED BY <3>2 DEF OfOpen, v, w, d
    <2>1. PICK h, M, P : History(h, M, P)
      BY <1>1 DEF RuleInv
    <2>2. Whole(v) /\ b \in signals
      BY <1>1 DEF RuleInv, Kept
    <2>3. /\ b.rule = v.rule /\ b.version = v.version /\ b.time = v.time
          /\ b.from = v.from /\ b.key = v.key
      BY <2>2, BareIs
    <2>4. b.rule \in OfDwell \cup OfWaiting
      BY <2>3 DEF OfOpen, OfDwell, OfWaiting
    <2>5. PICK l \in Timed, t \in Int :
            /\ b = Signal(pinned, b.rule, b.version, l, t,
                          From(b.rule, P[<<l, t>>], M[<<l, t>>]))
            /\ b.rule \in OfOpen => IsOpen(b.rule, M[<<l, t>>])
      BY <2>1, <2>2, <2>4 DEF History, Told
    <2>6. b.key.track = l /\ b.time = t /\ b.from = From(b.rule, P[<<l, t>>], M[<<l, t>>])
      BY <2>5, SignalIs
    <2>7. l = k /\ t = d.wm
      <3>1. v.key.track = k /\ v.time = d.wm
        BY <1>1
      <3> HIDE DEF v, b, d
      <3> QED BY ONLY <2>3, <2>6, <3>1
    <2>8. machines.timed[k] = M[<<k, t>>]
      <3>1. machines = h[done - upto] /\ Recorded(h, M, done - upto)
        BY <1>1, <2>1, Present DEF History, RuleInv
      <3> QED BY <2>5, <2>7, <3>1 DEF Recorded
    <2>9. IsOpen(v.rule, machines.timed[k])
      BY <2>3, <2>5, <2>7, <2>8
    <2>10. v.from = From(v.rule, P[<<k, t>>], machines.timed[k])
      BY <2>3, <2>6, <2>7, <2>8
    <2>11. v.rule = "turnover_delay" <=> v.rule \in OfDwell
      BY DEF OfOpen, OfDwell
    <2> HIDE DEF v
    <2> QED BY <2>9, <2>10, <2>11 DEF IsOpen, From, DwellSince, WaitStart, OfOpen, OfDwell
  <1>2. RuleInv => ReportedWhileOpen
    BY <1>1 DEF ReportedWhileOpen
  <1> QED BY <1>2, RuleInductive, PTL

-----------------------------------------------------------------------------
(* The quality of what the machines emit.                                  *)

\* Every configuration that names the contexts it knows knows the zone.
KnowsItsZone ==
    \A c \in Configurations :
        "known_spatial_contexts" \in DOMAIN c /\ c["known_spatial_contexts"] # Bad
          => Zone \in c["known_spatial_contexts"]

\* A fact that no check can find fault with, if its zone is known.
Faultless(f) ==
    /\ f.key.camera = Session /\ f.key.cfg = Cfg /\ f.key.context = Zone
    /\ f.key.track \in Tracks \cup {Aggregate}
    /\ f.provenance = Provenance
    /\ IsInterval(f) =>
         /\ f.start \in Int /\ f.last \in Int /\ f.start <= f.last
         /\ f.end # None => f.end = f.last
         /\ f.duration = f.last - f.start
         /\ f.minimum \in Int /\ (f.qualified <=> f.duration >= f.minimum)
    /\ ~IsInterval(f) => f.time \in Int
    /\ IsMeasurement(f) =>
         f.previous \in Int /\ f.previous <= f.time /\ f.delta = f.time - f.previous
    /\ f.type = "occupancy_snapshot" =>
         f.previous \in Nat /\ f.count \in Nat /\ f.delta = f.count - f.previous

LEMMA FaultlessIsQuiet ==
    ASSUME NEW f, Faultless(f), NEW known, Zone \in known
    PROVE  WellFormed(f) /\ Findings(f, known, Cfg) = {}
  <1>1. None \notin Int
    BY Numbers
  <1>2. f.key.camera # None /\ f.key.cfg # None /\ f.key.track # None
    BY RuleEventsAssumption DEF RuleEventsAssumption, Faultless
  <1>3. WellFormed(f)
    BY <1>1 DEF WellFormed, Faultless, IsInterval, IsMeasurement
  <1>4. ~ConfigurationMismatch(f, Cfg) /\ ~InvalidProvenance(f) /\ ~MissingIdentity(f)
        /\ ~UnknownSpatialReference(f, known)
    BY <1>2 DEF ConfigurationMismatch, InvalidProvenance, MissingIdentity,
                UnknownSpatialReference, Faultless
  <1>5. ~InvalidEventTime(f)
    BY <1>1 DEF InvalidEventTime, Faultless
  <1>6. ~NegativeDuration(f) /\ ~NonMonotonic(f)
    BY <1>1 DEF NegativeDuration, NonMonotonic, Faultless, IsInterval, IsMeasurement
  <1>7. ~TemporalInconsistency(f)
    BY DEF TemporalInconsistency, Faultless, IsInterval
  <1>8. \A check \in Range(QualityChecks) : ~Fires(check, f, known, Cfg)
    <2>1. Range(QualityChecks) =
            {"DATA_CONFIGURATION_MISMATCH", "DATA_INVALID_EVENT_TIME",
             "DATA_INVALID_PROVENANCE", "DATA_MISSING_REQUIRED_IDENTITY",
             "DATA_NEGATIVE_DURATION", "DATA_NON_MONOTONIC_EVENT_TIME",
             "DATA_TEMPORAL_INCONSISTENCY", "DATA_UNKNOWN_SPATIAL_REFERENCE"}
      BY DEF Range, QualityChecks
    <2> QED BY <1>4, <1>5, <1>6, <1>7, <2>1 DEF Fires
  <1> QED BY <1>3, <1>8 DEF Findings

\* The id of an interval besides, its fields are these.
LEMMA IntervalHas ==
    ASSUME NEW type, NEW key, NEW start, NEW end, NEW last, NEW minimum, NEW reason
    PROVE  LET f == IntervalFact(type, key, start, end, last, minimum, reason)
           IN  /\ f.type = type /\ f.key = key /\ f.start = start /\ f.last = last
               /\ f.end = end /\ f.duration = last - start /\ f.minimum = minimum
               /\ f.qualified = (last - start >= minimum) /\ f.provenance = Provenance
  BY DEF IntervalFact

LEMMA KeysAre ==
    ASSUME NEW k \in Tracks, NEW kind
    PROVE  LET key == KeyOf(k, kind)
               scope == OccupancyScopeKey(key)
           IN  /\ key.camera = Session /\ key.cfg = Cfg /\ key.context = Zone /\ key.track = k
               /\ scope.camera = Session /\ scope.cfg = Cfg /\ scope.context = Zone
               /\ scope.track = Aggregate
  BY DEF KeyOf, Key, OccupancyScopeKey

\* An interval that begins no later than it was seen last, and ends there if it does.
LEMMA IntervalIsFaultless ==
    ASSUME NEW type \in {"dwell_interval", "waiting_interval"}, NEW k \in Tracks, NEW kind,
           NEW start \in Int, NEW last \in Int, start <= last, NEW end \in {None, last},
           NEW minimum \in Int, NEW reason
    PROVE  Faultless(IntervalFact(type, KeyOf(k, kind), start, end, last, minimum, reason))
  <1> DEFINE key == KeyOf(k, kind)
             f == IntervalFact(type, key, start, end, last, minimum, reason)
  <1>1. key.camera = Session /\ key.cfg = Cfg /\ key.context = Zone /\ key.track = k
    BY KeysAre
  <1> HIDE DEF key
  <1>2. /\ f.type = type /\ f.key = key /\ f.start = start /\ f.last = last
        /\ f.end = end /\ f.duration = last - start /\ f.minimum = minimum
        /\ f.qualified = (last - start >= minimum) /\ f.provenance = Provenance
    BY IntervalHas
  <1> HIDE DEF f
  <1>3. Faultless(f)
    BY <1>1, <1>2 DEF Faultless, IsInterval, IsMeasurement
  <1> QED BY <1>3 DEF f, key

\* A zone is finite as long as tracks come one at a time.
LEMMA ZoneStaysFinite ==
    ASSUME NEW m, IsFiniteSet(m.zone.occupied), NEW o
    PROVE  IsFiniteSet(Stepped(m, o).zone.occupied)
  <1> DEFINE z == m.zone
             k == o.track
             event == EventOf(Result(m, o).reason)
             n == ApplyZone(z, k, event, o.time)
  <1>1. n = z \/ n.occupied \in {z.occupied \cup {k}, z.occupied \ {k}}
    BY DEF ApplyZone
  <1>2. IsFiniteSet(z.occupied \cup {k}) /\ IsFiniteSet(z.occupied \ {k})
    BY FS_AddElement, FS_RemoveElement
  <1>3. IsFiniteSet(n.occupied)
    BY <1>1, <1>2
  <1>4. Stepped(m, o) = m \/ Stepped(m, o).zone = n
    BY DEF Stepped
  <1> HIDE DEF n
  <1> QED BY <1>3, <1>4

\* Every fact but a transition is faultless.
LEMMA FactsAreFaultless ==
    ASSUME NEW m, Sane(m), IsFiniteSet(m.zone.occupied), NEW o \in Observations,
           NEW f \in Facts(m, Stepped(m, o), o)
    PROVE  f.type = "temporal_transition" \/ Faultless(f)
  <1> DEFINE n == Stepped(m, o)
             k == o.track
  <1>1. k \in Tracks /\ o.time \in Int /\ o.kind \in Kinds
    BY DEF Observations
  <1>2. Sane(n) /\ Advances(m, n, o)
    BY SteppedSane
  <1>3. WaitQualification \in Int /\ DwellMinimum \in Int /\ None \notin Int
    BY Numbers, IntervalsAssumption DEF IntervalsAssumption
  <1>4. CASE f \in PresenceFacts(m, o)
    BY <1>4 DEF PresenceFacts, TransitionFact
  <1>5. CASE f \in ZoneFacts(m, n, o)
    <2> DEFINE before == Cardinality(m.zone.occupied)
               after == Cardinality(n.zone.occupied)
               key == OccupancyScopeKey(KeyOf(k, "presence"))
    <2>1. before \in Nat
      BY FS_CardinalityType
    <2>2. IsFiniteSet(n.zone.occupied)
      BY ZoneStaysFinite
    <2>3. after \in Nat
      BY <2>2, FS_CardinalityType
    <2>4. f = SnapshotFact(key, before, n.zone.occupied, o.time, k)
      BY <1>5 DEF ZoneFacts
    <2>5. key.camera = Session /\ key.cfg = Cfg /\ key.context = Zone /\ key.track = Aggregate
      BY <1>1, KeysAre
    <2> HIDE DEF before, key, n
    <2>6. /\ f.type = "occupancy_snapshot" /\ f.key = key /\ f.time = o.time
          /\ f.previous = before /\ f.count = after /\ f.delta = after - before
          /\ f.provenance = Provenance
      BY <2>4 DEF SnapshotFact
    <2> HIDE DEF after
    <2> QED BY <1>1, <2>1, <2>3, <2>5, <2>6 DEF Faultless, IsInterval, IsMeasurement
  <1>6. CASE f \in MovementFacts(m, n, o) /\ k \in Timed
    <2> DEFINE before == m.timed[k].movement
    <2>1. CASE Measures(before, o.time) /\
               f = MeasurementFact(KeyOf(k, "movement"), before.wm, o.time, o.dist)
      <3>1. before.wm \in Int /\ before.wm < o.time
        <4>1. before.wm \in Time
          BY <1>6 DEF Sane, Agrees, Followers, Movement
        <4> QED BY <1>1, <1>3, <2>1, <4>1 DEF Measures, Order, Time
      <3> DEFINE key == KeyOf(k, "movement")
                 previous == before.wm
      <3>2. key.camera = Session /\ key.cfg = Cfg /\ key.context = Zone /\ key.track = k
        BY <1>1, KeysAre
      <3>3. previous \in Int /\ previous < o.time /\ f = MeasurementFact(key, previous, o.time, o.dist)
        BY <2>1, <3>1
      <3> HIDE DEF key, previous
      <3>4. /\ f.type = "movement_measurement" /\ f.key = key /\ f.previous = previous
            /\ f.time = o.time /\ f.delta = o.time - previous /\ f.provenance = Provenance
        BY <3>3 DEF MeasurementFact
      <3> QED BY <1>1, <3>2, <3>3, <3>4 DEF Faultless, IsInterval, IsMeasurement
    <2>2. CASE f = ClassFact(KeyOf(k, "movement_classification"), m.timed[k].class.st,
                             n.timed[k].class.st, o.time, m.timed[k].class.started)
      <3> DEFINE key == KeyOf(k, "movement_classification")
      <3>1. key.camera = Session /\ key.cfg = Cfg /\ key.context = Zone /\ key.track = k
        BY <1>1, KeysAre
      <3> HIDE DEF key
      <3>2. /\ f.type = "movement_classification_transition" /\ f.key = key
            /\ f.time = o.time /\ f.provenance = Provenance
        BY <2>2 DEF ClassFact, key
      <3> QED BY <1>1, <3>1, <3>2 DEF Faultless, IsInterval, IsMeasurement
    <2> QED BY <1>6, <2>1, <2>2 DEF MovementFacts
  <1>7. CASE f \in DwellFacts(m, n, o) /\ k \in Timed
    <2> DEFINE before == m.timed[k].dwell
               after == n.timed[k].dwell
    <2>1. Agrees(m.presence[k], m.timed[k]) /\ Agrees(n.presence[k], n.timed[k])
      BY <1>2, <1>7 DEF Sane
    <2> HIDE DEF n
    <2>2. CASE after.st = "dwelling" /\ f = OpenDwell(KeyOf(k, "dwell"), after)
      <3>1. after.since \in Int /\ after.wm \in Int /\ after.since <= after.wm
        BY <2>1, <2>2, AgreesIs
      <3>2. f = IntervalFact("dwell_interval", KeyOf(k, "dwell"), after.since, None, after.wm,
                             DwellMinimum, None)
        BY <2>2 DEF OpenDwell
      <3> QED BY <1>1, <1>3, <3>1, <3>2, IntervalIsFaultless
    <2>3. CASE /\ before.st = "dwelling" /\ after.st = "idle"
               /\ f = ClosedDwell(KeyOf(k, "dwell"), before.since, o.time, Result(m, o).reason)
      <3>1. n.timed[k] # m.timed[k]
        BY <2>3
      <3>2. before.since \in Int /\ before.since <= o.time
        <4>1. before.since \in Int /\ before.wm \in Int /\ before.since <= before.wm
          BY <2>1, <2>3, AgreesIs
        <4>2. before.wm < o.time
          BY <1>2, <1>7, <3>1, <4>1, AdvancesIs
        <4> QED BY ONLY <1>1, <4>1, <4>2
      <3>3. f = IntervalFact("dwell_interval", KeyOf(k, "dwell"), before.since, o.time, o.time,
                             DwellMinimum, Result(m, o).reason)
        BY <2>3 DEF ClosedDwell
      <3> QED BY <1>1, <1>3, <3>2, <3>3, IntervalIsFaultless
    <2> QED BY <1>7, <2>2, <2>3 DEF DwellFacts
  <1>8. CASE f \in WaitFacts(m, n, o) /\ k \in Timed
    <2> DEFINE before == m.timed[k].waiting
               after == n.timed[k].waiting
    <2>1. Agrees(m.presence[k], m.timed[k]) /\ Agrees(n.presence[k], n.timed[k])
      BY <1>2, <1>8 DEF Sane
    <2> HIDE DEF n
    <2>2. CASE after.st = "waiting" /\ f = OpenWait(KeyOf(k, "waiting"), after)
      <3>1. after.start \in Int /\ after.wm \in Int /\ after.start <= after.wm
        BY <2>1, <2>2, AgreesIs
      <3>2. f = IntervalFact("waiting_interval", KeyOf(k, "waiting"), after.start, None,
                             after.wm, WaitQualification, None)
        BY <2>2 DEF OpenWait
      <3> QED BY <1>1, <1>3, <3>1, <3>2, IntervalIsFaultless
    <2>3. CASE /\ before.st = "waiting" /\ after.st # "waiting"
               /\ f = ClosedWait(KeyOf(k, "waiting"), before.start, o.time, "ended")
      <3>1. n.timed[k] # m.timed[k]
        BY <2>3
      <3>2. before.start \in Int /\ before.start <= o.time
        <4>1. /\ before.start \in Int /\ before.wm \in Int /\ before.start <= before.wm
              /\ before.wm = m.timed[k].dwell.wm
          BY <2>1, <2>3, AgreesIs
        <4>2. before.wm < o.time
          BY <1>2, <1>8, <3>1, <4>1, AdvancesIs
        <4> QED BY ONLY <1>1, <4>1, <4>2
      <3>3. f = IntervalFact("waiting_interval", KeyOf(k, "waiting"), before.start, o.time,
                             o.time, WaitQualification, "ended")
        BY <2>3 DEF ClosedWait
      <3> QED BY <1>1, <1>3, <3>2, <3>3, IntervalIsFaultless
    <2> QED BY <1>8, <2>2, <2>3 DEF WaitFacts
  <1> QED BY <1>4, <1>5, <1>6, <1>7, <1>8 DEF Facts, n

\* A match of data quality is about a transition.
LEMMA QualityIsOfTransitions ==
    ASSUME KnowsItsZone, pinned \in Configurations,
           NEW m, Sane(m), IsFiniteSet(m.zone.occupied), NEW o \in Observations,
           NEW x \in Matches(Facts(m, Stepped(m, o), o)), x.event.rule = "data_quality"
    PROVE  x.event.body.of = "temporal_transition"
  <1> DEFINE facts == Facts(m, Stepped(m, o), o)
  <1>1. PICK r \in OperationalRules, list \in FactLists(facts) :
             /\ x = EngineEvaluate(OperationalRules, r.id, r.version, InputOf(r, list))
             /\ x.status = "match"
    BY DEF Matches, InputOf
  <1> DEFINE inp == InputOf(r, list)
             rule == Resolved(r)
             f == list[1]
             v == x.event
             known == pinned["known_spatial_contexts"]
             findings == Findings(f, known, Cfg)
  <1>2. f.type = "temporal_transition" \/ Faultless(f)
    <2>1. f \in facts
      BY ListsAre
    <2> QED BY <2>1, FactsAreFaultless
  <1>3. inp.facts = list /\ inp.configuration = pinned /\ inp.cfg = Cfg /\ inp.time = AsOf(f)
    BY InputIs
  <1>4. rule \in OperationalRules
    BY ResolvesTo
  <1> HIDE DEF inp, rule, facts
  <1>5. /\ Evaluate(rule, inp).status = "match" /\ v = Evaluate(rule, inp).event
        /\ InputError(rule, inp) = None
    BY <1>1, EngineIs DEF inp, rule
  <1>6. rule.id = "data_quality"
    <2>1. \E from, body : Evaluate(rule, inp).event = Event(rule, inp, from, body)
      BY <1>4, <1>5, MatchedEvent
    <2>2. PICK from, body : v = Event(rule, inp, from, body)
      BY <1>5, <2>1
    <2> QED BY <2>2 DEF Event
  <1>7. "known_spatial_contexts" \in DOMAIN pinned
    <2>1. rule.requires = {"known_spatial_contexts"}
      BY <1>4, <1>6 DEF OperationalRules, OccupancySessionRule, DwellThresholdRule,
             QueueCandidateRule, QueueCandidateRule2, ServiceGapRule, TurnoverDelayRule,
             DataQualityRule, Definition
    <2>2. rule.requires \subseteq DOMAIN inp.configuration
      BY <1>5, InputErrorAssumption DEF InputErrorAssumption, InputError
    <2> QED BY <1>3, <2>1, <2>2
  <1>8. Evaluate(rule, inp) = EvaluateDataQuality(rule, inp)
    BY <1>6 DEF Evaluate
  <1>9. /\ known # Bad /\ findings # {}
        /\ v = Event(rule, inp, inp.time, QualityBody(f, findings))
    BY <1>3, <1>5, <1>8 DEF EvaluateDataQuality, Invalid, NoMatch, Match
  <1>10. Zone \in known
    BY <1>7, <1>9 DEF KnowsItsZone
  <1>11. f.type = "temporal_transition"
    BY <1>2, <1>9, <1>10, FaultlessIsQuiet
  <1> QED BY <1>9, <1>11 DEF Event, QualityBody

\* The zones of the machines, and of those that were saved, are finite, and what was
\* reported of quality was reported of transitions.
QualityInv ==
    /\ pinned \in Configurations
    /\ IsFiniteSet(machines.zone.occupied) /\ IsFiniteSet(saved.state.zone.occupied)
    /\ \A s \in signals : s.rule = "data_quality" => s.body.of = "temporal_transition"

LEMMA QualityInit == Init => QualityInv
  <1> SUFFICES ASSUME Init PROVE QualityInv
    OBVIOUS
  <1>1. NewMachines.zone.occupied = {}
    BY DEF NewMachines, NewZone
  <1>2. machines = NewMachines /\ saved.state = NewMachines /\ signals = {}
    BY DEF Init, Checkpoint
  <1>3. IsFiniteSet({})
    BY FS_EmptySet
  <1> QED BY <1>1, <1>2, <1>3 DEF QualityInv, Init

LEMMA QualityApplied ==
    ASSUME KnowsItsZone, QualityInv, Sane(machines), NEW o \in Observations, Apply(o),
           saved' = saved, pinned' = pinned
    PROVE  QualityInv'
  <1> DEFINE n == Stepped(machines, o)
             results == Matches(Facts(machines, n, o))
  <1>1. /\ machines' = n
        /\ signals' = signals \cup {Bare(r.event) : r \in results}
    BY DEF Apply, Bare
  <1>2. IsFiniteSet(n.zone.occupied)
    BY ZoneStaysFinite DEF QualityInv
  <1>3. ASSUME NEW r \in results, r.event.rule = "data_quality"
        PROVE  r.event.body.of = "temporal_transition"
    BY <1>3, QualityIsOfTransitions DEF QualityInv
  <1>4. ASSUME NEW r \in results PROVE Whole(r.event)
    BY MatchesAre
  <1> HIDE DEF n, results
  <1>5. ASSUME NEW r \in results
        PROVE  Bare(r.event).rule = r.event.rule /\ Bare(r.event).body = r.event.body
    BY <1>4, BareIs DEF Bare, Whole
  <1> QED BY <1>1, <1>2, <1>3, <1>5 DEF QualityInv

LEMMA QualityStep ==
    ASSUME KnowsItsZone, RuleInv, QualityInv, [Next]_ruleVars
    PROVE  QualityInv'
  <1>1. Counters /\ Sane(machines)
    BY Present DEF RuleInv
  <1>2. CASE Observe
    <2>1. PICK o \in Upcoming : Apply(o)
      BY <1>2 DEF Observe
    <2> QED BY <1>1, <1>2, <2>1, UpcomingAre, QualityApplied DEF Observe
  <1>3. CASE Replay
    <2>1. log[done - upto + 1] \in Observations
      BY <1>1, <1>3 DEF Counters, Replay, Observed
    <2> QED BY <1>1, <1>3, <2>1, QualityApplied DEF Replay
  <1>4. CASE Save
    <2>1. saved'.state = machines
      BY <1>4 DEF Save, Checkpoint
    <2> QED BY <1>4, <2>1 DEF Save, QualityInv
  <1>5. CASE Restart
    BY <1>5 DEF Restart, QualityInv
  <1>6. CASE UNCHANGED ruleVars
    BY <1>6 DEF ruleVars, QualityInv
  <1> QED BY <1>2, <1>3, <1>4, <1>5, <1>6 DEF Next

LEMMA QualityIsClean ==
    ASSUME KnowsItsZone, RuleInv, QualityInv
    PROVE  MachinesEmitCleanFacts
  <1>1. Sane(machines)
    BY Present DEF RuleInv
  <1>2. ASSUME NEW o \in Upcoming, NEW f \in Facts(machines, Stepped(machines, o), o)
        PROVE  WellFormed(f)
    <2>1. f.type = "temporal_transition" \/ Faultless(f)
      BY <1>1, UpcomingAre, FactsAreFaultless DEF QualityInv
    <2>2. CASE f.type = "temporal_transition"
      BY <2>2 DEF WellFormed
    <2>3. CASE Faultless(f)
      BY <2>3, FaultlessIsQuiet
    <2> QED BY <2>1, <2>2, <2>3
  <1> QED BY <1>2 DEF QualityInv, MachinesEmitCleanFacts

\* Whatever is observed, in whatever order, with crashes or without: every interval,
\* snapshot, measurement and change of class that the machines emit passes the
\* validators of its contract and all eight checks of quality, so that the rule reports
\* transitions only, which lack a policy_revision, under every configuration that knows
\* the zone.
THEOREM CleanFactsAreEmitted == KnowsItsZone => (Spec => []MachinesEmitCleanFacts)
  <1> SUFFICES ASSUME KnowsItsZone PROVE Spec => []MachinesEmitCleanFacts
    OBVIOUS
  <1>1. RuleInv /\ QualityInv /\ [Next]_ruleVars => QualityInv'
    BY QualityStep
  <1>2. RuleInv /\ QualityInv => MachinesEmitCleanFacts
    BY QualityIsClean
  <1> QED BY <1>1, <1>2, QualityInit, RuleInductive, PTL DEF Spec

=============================================================================
