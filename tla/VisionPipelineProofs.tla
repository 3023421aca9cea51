------------------------- MODULE VisionPipelineProofs -------------------------
(***************************************************************************)
(* Theorems about a run of the frame pipeline, for any number of frames,   *)
(* size of the queue and budgets, with any consumer and with the one that  *)
(* detects and tracks: frames keep their order and none is unaccounted     *)
(* for, the caller is told how the run ended, and what is told of the      *)
(* tracks is whole.                                                        *)
(*                                                                         *)
(* The order of the frames is followed from place to place: those that     *)
(* were consumed, the one in hand of the consumer, those queued, the one   *)
(* in hand of the producer, each before all of the next.                   *)
(***************************************************************************)
EXTENDS VisionPipeline, SequenceTheorems, FiniteSetTheorems, WellFoundedInduction, TLAPS

Elements(s) == {s[i] : i \in DOMAIN s}

Increasing(s) == \A i, j \in DOMAIN s : i < j => s[i] < s[j]

Below(S, T) == \A x \in S, y \in T : x < y

Held(t) == Elements(task[t].hold)

Past == Elements(consumed)

Queued == Elements(queue.items)

\* The frames are in order, wherever they are, and were read.
InOrder ==
    /\ Increasing(consumed) /\ Increasing(queue.items)
    /\ Below(Past, Held("consumer") \cup Queued \cup Held("producer"))
    /\ Below(Held("consumer"), Queued \cup Held("producer"))
    /\ Below(Queued, Held("producer"))
    /\ Below(Past \cup Held("consumer") \cup Queued \cup Held("producer"), {source.frames})

\* What the tasks have in hand, and where they may be.
Hands ==
    /\ task["producer"].pc \in {"none", "read", "reconnect", "stuck", "wait", "woken"} \cup Finished
    /\ task["consumer"].pc \in {"none", "get", "consume", "wait", "woken"} \cup Finished
    /\ Len(task["producer"].hold) = IF task["producer"].pc \in {"wait", "woken"} THEN 1 ELSE 0
    /\ Len(task["consumer"].hold) = IF task["consumer"].pc = "consume" THEN 1 ELSE 0
    /\ task["producer"].error \in {"none", "error"}
    /\ task["consumer"].error \in {"none", "error"} \cup Failures
    /\ task["consumer"].pc \notin Finished => task["consumer"].error = "none"
    /\ queue.waiting = {t \in Tasks : task[t].pc = "wait"}
    /\ task["producer"].pc \notin Finished => source.errors < MaxDecodeErrors

\* The queue in its limits.
Bounded ==
    /\ Len(queue.items) <= QueueSize
    /\ setup.policy = "block" => queue.dropped = 0

Line == Len(consumed) + Len(task["consumer"].hold)
          + Len(queue.items) + Len(task["producer"].hold) + queue.dropped

\* Every frame that was read is somewhere, unless a task that failed or was
\* cancelled, or a consumer that took its own error for the end, had it in hand;
\* a consumer that came to the end of the queue left nothing in it.
Lossless ==
    /\ \/ task["consumer"].pc \in {"failed", "cancelled"}
       \/ task["producer"].pc = "cancelled"
       \/ task["consumer"].error = "closed"
       \/ Line = source.frames
    /\ task["consumer"].pc = "done" =>
         queue.closed /\ (task["consumer"].error = "closed" \/ queue.items = <<>>)

\* Where run() is, and how the tasks and the queue are then.
Phases ==
    /\ run.pc # "open"
    /\ run.pc = "start" => /\ task = [t \in Tasks |-> NoTask]
                           /\ consumed = <<>> /\ queue.items = <<>> /\ queue.dropped = 0
                           /\ source.frames = 0 /\ source.state = "created"
    /\ run.pc = "first" => ~queue.closed
    /\ run.pc = "all" => /\ queue.closed
                         /\ task["producer"].pc \in Finished \/ At("consumer", "failed")
    /\ run.pc \in {"first", "all"} => \A t \in Tasks : ~At(t, "none") /\ ~At(t, "cancelled")
    /\ run.pc \in {"cleanup", "close"} => TasksDone
    /\ run.pc = "close" => queue.closed
    /\ run.pc = "ended" =>
         \/ source.state \in {"created", "failed"} /\ \A t \in Tasks : At(t, "none")
         \/ source.state = "closed" /\ queue.closed /\ TasksDone

\* What the result says.
Results ==
    /\ run.result = "none" <=> run.pc \in {"start", "first", "all"}
    /\ run.pc = "cleanup" => run.result = "cancelled"
    /\ run.result = "ok" => TasksDone
    /\ run.result \in {"ok", "failure"} => \A t \in Tasks : ~At(t, "cancelled")
    /\ run.result = "ok" => \A t \in Tasks : ~Real(t)

FrameInv ==
    FrameTypeOK /\ InOrder /\ Hands /\ Bounded /\ Lossless /\ Phases /\ Results
-----------------------------------------------------------------------------
(* Sequences of numbers.                                                   *)

LEMMA TailIs ==
    ASSUME NEW S, S \subseteq Nat, NEW s \in Seq(S), s # <<>>
    PROVE  /\ Tail(s) \in Seq(S) /\ Len(Tail(s)) = Len(s) - 1 /\ Len(s) \in Nat \ {0}
           /\ Head(s) \in S /\ Head(s) \in Elements(s)
           /\ Elements(Tail(s)) \subseteq Elements(s)
           /\ Increasing(s) => /\ Increasing(Tail(s))
                               /\ Below({Head(s)}, Elements(Tail(s)))
  <1>1. /\ Tail(s) \in Seq(S) /\ Len(Tail(s)) = Len(s) - 1
        /\ \A n \in 1..Len(Tail(s)) : Tail(s)[n] = s[n + 1]
    BY HeadTailProperties
  <1>2. Len(s) \in Nat \ {0} /\ 1 \in DOMAIN s /\ Head(s) = s[1] /\ DOMAIN s = 1..Len(s)
    BY EmptySeq
  <1>3. Head(s) \in S /\ Head(s) \in Elements(s)
    BY <1>2 DEF Elements
  <1> DEFINE t == Tail(s)
  <1> HIDE DEF t
  <1>4. DOMAIN t = 1..(Len(s) - 1) /\ \A n \in DOMAIN t : t[n] = s[n + 1]
    BY <1>1 DEF t
  <1>5. \A n \in DOMAIN t : n \in Int /\ n + 1 \in DOMAIN s /\ 1 < n + 1
    BY <1>2, <1>4
  <1>6. Elements(t) \subseteq Elements(s)
    BY <1>4, <1>5 DEF Elements
  <1>7. ASSUME Increasing(s) PROVE Increasing(t) /\ Below({Head(s)}, Elements(t))
    <2>1. ASSUME NEW i \in DOMAIN t, NEW j \in DOMAIN t, i < j PROVE t[i] < t[j]
      <3>1. i + 1 < j + 1
        BY <1>5, <2>1
      <3> QED BY <1>4, <1>5, <1>7, <3>1 DEF Increasing
    <2>2. ASSUME NEW i \in DOMAIN t PROVE s[1] < t[i]
      BY <1>2, <1>4, <1>5, <1>7 DEF Increasing
    <2> QED BY <1>2, <2>1, <2>2 DEF Increasing, Below, Elements
  <1> QED BY <1>1, <1>2, <1>3, <1>6, <1>7 DEF t

LEMMA AppendIs ==
    ASSUME NEW S, S \subseteq Nat, NEW s \in Seq(S), NEW x \in S
    PROVE  /\ Append(s, x) \in Seq(S) /\ Len(Append(s, x)) = Len(s) + 1
           /\ Elements(Append(s, x)) = Elements(s) \cup {x}
           /\ Increasing(s) /\ Below(Elements(s), {x}) => Increasing(Append(s, x))
  <1> DEFINE t == Append(s, x)
  <1>1. /\ t \in Seq(S) /\ Len(t) = Len(s) + 1
        /\ \A i \in 1..Len(s) : t[i] = s[i]
        /\ t[Len(s) + 1] = x
    BY AppendProperties
  <1>2. Len(s) \in Nat /\ DOMAIN s = 1..Len(s)
    OBVIOUS
  <1> HIDE DEF t
  <1>3. DOMAIN t = 1..(Len(s) + 1)
    BY <1>1
  <1>4. \A i \in DOMAIN t : \/ i \in DOMAIN s /\ t[i] = s[i]
                            \/ i = Len(s) + 1 /\ t[i] = x
    BY <1>1, <1>2, <1>3
  <1>5. \A i \in DOMAIN s : i \in DOMAIN t /\ t[i] = s[i] /\ i < Len(s) + 1
    BY <1>1, <1>2, <1>3
  <1>6. Elements(t) = Elements(s) \cup {x}
    <2>1. Len(s) + 1 \in DOMAIN t
      BY <1>2, <1>3
    <2> QED BY <1>1, <1>4, <1>5, <2>1 DEF Elements
  <1>7. ASSUME Increasing(s), Below(Elements(s), {x}) PROVE Increasing(t)
    <2> SUFFICES ASSUME NEW i \in DOMAIN t, NEW j \in DOMAIN t, i < j PROVE t[i] < t[j]
      BY DEF Increasing
    <2>1. i \in DOMAIN s /\ t[i] = s[i]
      BY <1>2, <1>3, <1>4
    <2>2. CASE j \in DOMAIN s
      BY <1>5, <1>7, <2>1, <2>2 DEF Increasing
    <2>3. CASE j \notin DOMAIN s
      BY <1>4, <1>7, <2>1, <2>3 DEF Below, Elements
    <2> QED BY <2>2, <2>3
  <1> QED BY <1>1, <1>6, <1>7 DEF t

LEMMA ConcatIs ==
    ASSUME NEW S, S \subseteq Nat, NEW s \in Seq(S), NEW t \in Seq(S)
    PROVE  /\ s \o t \in Seq(S) /\ Len(s \o t) = Len(s) + Len(t)
           /\ Elements(s \o t) = Elements(s) \cup Elements(t)
           /\ Increasing(s) /\ Increasing(t) /\ Below(Elements(s), Elements(t))
                => Increasing(s \o t)
  <1> DEFINE u == s \o t
  <1>1. /\ u \in Seq(S) /\ Len(u) = Len(s) + Len(t)
        /\ \A i \in 1..(Len(s) + Len(t)) :
             u[i] = IF i <= Len(s) THEN s[i] ELSE t[i - Len(s)]
    BY ConcatProperties
  <1>2. /\ Len(s) \in Nat /\ DOMAIN s = 1..Len(s)
        /\ Len(t) \in Nat /\ DOMAIN t = 1..Len(t)
    OBVIOUS
  <1> HIDE DEF u
  <1>3. DOMAIN u = 1..(Len(s) + Len(t))
    BY <1>1
  <1>4. \A i \in DOMAIN u :
          \/ i \in DOMAIN s /\ u[i] = s[i]
          \/ i > Len(s) /\ i - Len(s) \in DOMAIN t /\ u[i] = t[i - Len(s)]
    BY <1>1, <1>2, <1>3
  <1>5. \A i \in DOMAIN s : i \in DOMAIN u /\ u[i] = s[i]
    BY <1>1, <1>2, <1>3
  <1>6. \A i \in DOMAIN t : i + Len(s) \in DOMAIN u /\ u[i + Len(s)] = t[i]
    <2> SUFFICES ASSUME NEW i \in DOMAIN t
                 PROVE  i + Len(s) \in DOMAIN u /\ u[i + Len(s)] = t[i]
      OBVIOUS
    <2>1. /\ i + Len(s) \in 1..(Len(s) + Len(t)) /\ ~(i + Len(s) <= Len(s))
          /\ (i + Len(s)) - Len(s) = i
      BY <1>2
    <2> QED BY <1>1, <1>3, <2>1
  <1>7. Elements(u) = Elements(s) \cup Elements(t)
    BY <1>4, <1>5, <1>6 DEF Elements
  <1>8. ASSUME Increasing(s), Increasing(t), Below(Elements(s), Elements(t))
        PROVE  Increasing(u)
    <2> SUFFICES ASSUME NEW i \in DOMAIN u, NEW j \in DOMAIN u, i < j PROVE u[i] < u[j]
      BY DEF Increasing
    <2>1. i \in Int /\ j \in Int /\ \A n \in DOMAIN s : n <= Len(s)
      BY <1>2, <1>3
    <2>2. CASE j \in DOMAIN s
      <3>1. i \in DOMAIN s
        BY <1>2, <1>3, <2>2
      <3> QED BY <1>5, <1>8, <2>2, <3>1 DEF Increasing
    <2>3. CASE i > Len(s)
      <3>1. i - Len(s) < j - Len(s) /\ j > Len(s)
        BY <1>2, <2>1, <2>3
      <3>2. i \notin DOMAIN s /\ j \notin DOMAIN s
        BY <1>2, <2>1, <2>3, <3>1
      <3> QED BY <1>4, <1>8, <3>1, <3>2 DEF Increasing
    <2>4. CASE i \in DOMAIN s /\ j \notin DOMAIN s
      BY <1>4, <1>8, <2>4 DEF Below, Elements
    <2> QED BY <1>4, <2>2, <2>3, <2>4
  <1> QED BY <1>1, <1>7, <1>8 DEF u

\* What a hand may hold.
LEMMA HandIs ==
    ASSUME NEW S, NEW s \in Seq(S)
    PROVE  /\ Len(s) \in Nat /\ (Len(s) = 0 <=> s = <<>>)
           /\ Len(s) = 0 => Elements(s) = {}
           /\ Len(s) = 1 => Elements(s) = {Head(s)} /\ Head(s) \in S
           /\ Len(s) <= 1 => Increasing(s)
  <1>1. Len(s) \in Nat /\ DOMAIN s = 1..Len(s) /\ (Len(s) = 0 <=> s = <<>>)
    BY EmptySeq
  <1>2. ASSUME Len(s) = 1 PROVE DOMAIN s = {1} /\ s[1] \in S /\ Head(s) = s[1]
    BY <1>1, <1>2
  <1>3. ASSUME Len(s) <= 1, NEW i \in DOMAIN s, NEW j \in DOMAIN s PROVE ~(i < j)
    BY <1>1, <1>3
  <1> QED BY <1>1, <1>2, <1>3 DEF Elements, Increasing

LEMMA SingleIs ==
    ASSUME NEW S, NEW x \in S
    PROVE  /\ <<x>> \in Seq(S) /\ Len(<<x>>) = 1 /\ Elements(<<x>>) = {x}
           /\ Elements(<<>>) = {} /\ <<>> \in Seq(S) /\ Len(<<>>) = 0
  BY DEF Elements

-----------------------------------------------------------------------------
(* The tasks.                                                              *)

LEMMA FrameNumbers ==
    /\ MaxFrames \in Nat /\ QueueSize \in Nat \ {0}
    /\ MaxAttempts \in Nat \ {0} /\ MaxDecodeErrors \in Nat \ {0}
    /\ Frames \subseteq Nat
  BY PipelineAssumption DEF PipelineAssumption, Frames

\* The three lemmas on sequences, for frames.
LEMMA FramesJoin ==
    ASSUME NEW s \in Seq(Frames), NEW t \in Seq(Frames),
           Increasing(s), Increasing(t), Below(Elements(s), Elements(t))
    PROVE  /\ s \o t \in Seq(Frames) /\ Len(s \o t) = Len(s) + Len(t)
           /\ Elements(s \o t) = Elements(s) \cup Elements(t) /\ Increasing(s \o t)
  <1> DEFINE S == Frames
  <1>1. S \subseteq Nat /\ s \in Seq(S) /\ t \in Seq(S)
    BY FrameNumbers
  <1> HIDE DEF S
  <1>2. /\ s \o t \in Seq(S) /\ Len(s \o t) = Len(s) + Len(t)
        /\ Elements(s \o t) = Elements(s) \cup Elements(t)
        /\ Increasing(s) /\ Increasing(t) /\ Below(Elements(s), Elements(t))
             => Increasing(s \o t)
    BY ONLY <1>1, ConcatIs
  <1> QED BY <1>2 DEF S

LEMMA FramesGrow ==
    ASSUME NEW s \in Seq(Frames), NEW x \in Frames,
           Increasing(s), Below(Elements(s), {x})
    PROVE  /\ Append(s, x) \in Seq(Frames) /\ Len(Append(s, x)) = Len(s) + 1
           /\ Elements(Append(s, x)) = Elements(s) \cup {x} /\ Increasing(Append(s, x))
  <1> DEFINE S == Frames
  <1>1. S \subseteq Nat /\ s \in Seq(S) /\ x \in S
    BY FrameNumbers
  <1> HIDE DEF S
  <1>2. /\ Append(s, x) \in Seq(S) /\ Len(Append(s, x)) = Len(s) + 1
        /\ Elements(Append(s, x)) = Elements(s) \cup {x}
        /\ Increasing(s) /\ Below(Elements(s), {x}) => Increasing(Append(s, x))
    BY ONLY <1>1, AppendIs
  <1> QED BY <1>2 DEF S

\* The records they change.
LEMMA Numbers ==
    ASSUME NEW s \in Seq(Frames)
    PROVE  Elements(s) \subseteq Nat
  <1>1. DOMAIN s = 1..Len(s) /\ \A i \in 1..Len(s) : s[i] \in Frames
    OBVIOUS
  <1> QED BY <1>1, FrameNumbers DEF Elements

Working == {"none", "read", "reconnect", "stuck", "get", "consume", "wait", "woken"}

Moved(x, pc, h) == [x EXCEPT !.pc = pc, !.hold = h]

Ended(x, pc, e) == [x EXCEPT !.pc = pc, !.error = e, !.hold = <<>>]

Filled(q, s, n) == [q EXCEPT !.items = s, !.dropped = n]

LEMMA TaskMoves ==
    ASSUME NEW x \in Task, NEW h \in Seq(Frames), NEW pc \in Working
    PROVE  /\ Moved(x, pc, h) \in Task /\ Moved(x, pc, h).pc = pc
           /\ Moved(x, pc, h).hold = h /\ Moved(x, pc, h).error = x.error
  <1>1. pc \in {"none", "read", "reconnect", "stuck", "get", "consume", "wait", "woken"} \cup Finished
    BY DEF Working
  <1>2. x.error \in {"none", "error", "closed"}
    BY DEF Task
  <1> QED BY <1>1, <1>2 DEF Task, Moved

LEMMA TaskEnds ==
    ASSUME NEW x \in Task, NEW pc \in Finished, NEW e \in {"none", "error", "closed"}
    PROVE  /\ Ended(x, pc, e) \in Task /\ Ended(x, pc, e).pc = pc
           /\ Ended(x, pc, e).hold = <<>> /\ Ended(x, pc, e).error = e
  <1>1. <<>> \in Seq(Frames)
    OBVIOUS
  <1> QED BY <1>1 DEF Task, Ended

LEMMA QueueTakes ==
    ASSUME NEW q \in Queue, NEW s \in Seq(Frames), NEW n \in Nat
    PROVE  /\ Filled(q, s, n) \in Queue /\ Filled(q, s, n).items = s
           /\ Filled(q, s, n).dropped = n
           /\ Filled(q, s, n).closed = q.closed /\ Filled(q, s, n).waiting = q.waiting
  BY DEF Queue, Filled

Asleep == {t \in Tasks : task[t].pc = "wait"}

\* What becomes of a task that another one may wake.
Woken(t) ==
    \/ task'[t] = task[t]
    \/ At(t, "wait") /\ task'[t] = [task[t] EXCEPT !.pc = "woken"]

Turned(t, r) == [task EXCEPT ![t] = r]

\* A step of one task, into a record r, that wakes at most one sleeper.
LEMMA Notifies ==
    ASSUME task \in [Tasks -> Task], queue.waiting = Asleep,
           NEW t \in Tasks, ~At(t, "wait"),
           NEW r \in Task, r.pc # "wait",
           NEW q \in Queue, q.waiting = Asleep,
           task' \in Notified(Turned(t, r)), queue' = Awake(q, task')
    PROVE  /\ task' \in [Tasks -> Task] /\ task'[t] = r
           /\ \A u \in Tasks \ {t} : Woken(u)
           /\ queue' \in Queue /\ queue'.waiting = Asleep'
           /\ queue'.items = q.items /\ queue'.closed = q.closed
           /\ queue'.dropped = q.dropped
  <1>1. /\ task' \in [Tasks -> Task] /\ task'[t] = r
        /\ \A u \in Tasks \ {t} : Woken(u)
    <2>1. CASE queue.waiting = {}
      <3>1. task' = [task EXCEPT ![t] = r]
        BY <2>1 DEF Notified, Turned
      <3> QED BY <3>1 DEF Woken
    <2>2. CASE queue.waiting # {}
      <3>1. PICK w \in queue.waiting :
              task' = [[task EXCEPT ![t] = r] EXCEPT ![w].pc = "woken"]
        BY <2>2 DEF Notified, Turned
      <3>2. w \in Tasks \ {t} /\ task[w] \in Task /\ At(w, "wait")
        BY <3>1 DEF Asleep, At
      <3>3. [task[w] EXCEPT !.pc = "woken"] \in Task
        BY <3>2 DEF Task, Finished
      <3>4. task' = [[task EXCEPT ![t] = r] EXCEPT ![w] = [task[w] EXCEPT !.pc = "woken"]]
        BY <3>1, <3>2
      <3> QED BY <3>2, <3>3, <3>4 DEF Woken
    <2> QED BY <2>1, <2>2
  <1>2. {u \in q.waiting : task'[u].pc = "wait"} = Asleep'
    BY <1>1 DEF Asleep, Woken, At
  <1>3. queue' = [q EXCEPT !.waiting = Asleep']
    BY <1>2 DEF Awake
  <1>4. Asleep' \subseteq Tasks
    BY DEF Asleep
  <1> QED BY <1>1, <1>3, <1>4 DEF Queue

\* A step of one task that wakes nobody.
LEMMA OneTask ==
    ASSUME task \in [Tasks -> Task], NEW t \in Tasks, NEW r \in Task,
           task' = [task EXCEPT ![t] = r]
    PROVE  /\ task' \in [Tasks -> Task] /\ task'[t] = r
           /\ \A u \in Tasks \ {t} : task'[u] = task[u]
           /\ r.pc # "wait" /\ ~At(t, "wait") => Asleep' = Asleep
  BY DEF Asleep, At

\* A task that is at work is part of a run.
LEMMA AtWork ==
    ASSUME FrameInv, NEW t \in Tasks, task[t].pc \notin Finished, ~At(t, "none")
    PROVE  run.pc \in {"first", "all"} /\ run.result = "none"
  <1>1. run.pc \in {"start", "open", "first", "all", "cleanup", "close", "ended"}
    BY DEF FrameInv, FrameTypeOK, Run
  <1>2. run.pc # "start"
    BY DEF FrameInv, Phases, At, NoTask
  <1>3. run.pc \notin {"cleanup", "close", "ended"}
    BY DEF FrameInv, Phases, TasksDone
  <1>4. run.pc # "open"
    BY DEF FrameInv, Phases
  <1> QED BY <1>1, <1>2, <1>3, <1>4 DEF FrameInv, Results

\* The types of what a step looks at.
LEMMA FrameTypes ==
    ASSUME FrameInv
    PROVE  /\ task \in [Tasks -> Task]
           /\ task["producer"] \in Task /\ task["consumer"] \in Task
           /\ queue \in Queue /\ queue.items \in Seq(Frames) /\ queue.waiting = Asleep
           /\ queue.dropped \in Nat /\ queue.closed \in BOOLEAN
           /\ \A t \in Tasks : task[t].hold \in Seq(Frames) /\ Len(task[t].hold) \in Nat
           /\ consumed \in Seq(Frames) /\ Len(consumed) \in Nat /\ Len(queue.items) \in Nat
           /\ source \in Source /\ source.frames \in Nat
           /\ setup \in Setup /\ run \in Run
  <1>1. FrameTypeOK /\ queue.waiting = Asleep /\ "producer" \in Tasks /\ "consumer" \in Tasks
    BY DEF FrameInv, Hands, Asleep, Tasks
  <1>2. /\ queue.items \in Seq(Frames) /\ queue.dropped \in Nat /\ queue.closed \in BOOLEAN
        /\ source.frames \in Nat
    BY <1>1 DEF FrameTypeOK, Queue, Source
  <1>3. \A t \in Tasks : task[t].hold \in Seq(Frames) /\ Len(task[t].hold) \in Nat
    BY <1>1 DEF FrameTypeOK, Task
  <1> QED BY <1>1, <1>2, <1>3 DEF FrameTypeOK

\* While both tasks belong to the run, only what they do matters.
LEMMA RunGoesOn ==
    ASSUME FrameInv, run.pc \in {"first", "all"}, UNCHANGED run,
           FrameTypeOK', InOrder', Hands', Bounded', Lossless',
           queue'.closed = queue.closed,
           \A t \in Tasks : task'[t].pc \notin {"none", "cancelled"},
           task["producer"].pc \in Finished => task'["producer"].pc \in Finished,
           At("consumer", "failed") => task'["consumer"].pc = "failed"
    PROVE  FrameInv'
  <1>1. run.result = "none"
    BY DEF FrameInv, Results
  <1>2. Results'
    BY <1>1 DEF Results
  <1>3. Phases'
    BY DEF FrameInv, Phases, At
  <1> QED BY <1>2, <1>3 DEF FrameInv

\* A queue that evicts its oldest frame when it is full has room for one.
Room == IF setup.policy = "drop_oldest" /\ Full THEN Evicted ELSE queue

LEMMA RoomIs ==
    ASSUME FrameInv, setup.policy = "drop_oldest" \/ ~Full
    PROVE  /\ Room \in Queue /\ Room.closed = queue.closed /\ Room.waiting = queue.waiting
           /\ Room.items \in Seq(Frames) /\ Increasing(Room.items)
           /\ Elements(Room.items) \subseteq Queued
           /\ Room.dropped \in Nat /\ Len(Room.items) + 1 <= QueueSize
           /\ Len(Room.items) \in Nat
           /\ Len(Room.items) + Room.dropped = Len(queue.items) + queue.dropped
           /\ setup.policy = "block" => Room.dropped = 0
  <1>1. /\ queue \in Queue /\ queue.items \in Seq(Frames) /\ queue.dropped \in Nat
        /\ Len(queue.items) \in Nat /\ Increasing(queue.items)
        /\ Len(queue.items) <= QueueSize /\ QueueSize \in Nat \ {0}
        /\ setup.policy = "block" => queue.dropped = 0
    BY FrameTypes, FrameNumbers DEF FrameInv, InOrder, Bounded
  <1>2. CASE Full /\ setup.policy = "drop_oldest"
    <2>1. Room = [queue EXCEPT !.items = Tail(queue.items), !.dropped = queue.dropped + 1]
      BY <1>2 DEF Room, Evicted
    <2>2. Len(queue.items) >= QueueSize /\ queue.items # <<>>
      BY <1>1, <1>2 DEF Full
    <2>3. /\ Tail(queue.items) \in Seq(Frames)
          /\ Len(Tail(queue.items)) = Len(queue.items) - 1
          /\ Elements(Tail(queue.items)) \subseteq Elements(queue.items)
          /\ Increasing(Tail(queue.items))
      <3> DEFINE S == Frames
                 q == queue.items
      <3>1. S \subseteq Nat /\ q \in Seq(S) /\ q # <<>> /\ Increasing(q)
        BY <1>1, <2>2, FrameNumbers
      <3> HIDE DEF S, q
      <3>2. /\ Tail(q) \in Seq(S) /\ Len(Tail(q)) = Len(q) - 1
            /\ Elements(Tail(q)) \subseteq Elements(q) /\ Increasing(Tail(q))
        BY ONLY <3>1, TailIs
      <3> QED BY <3>2 DEF S, q
    <2> DEFINE s == Tail(queue.items)
    <2> HIDE DEF s
    <2>4. Room = Filled(queue, s, queue.dropped + 1) /\ queue.dropped + 1 \in Nat
      BY <1>1, <2>1 DEF s, Filled
    <2>5. s \in Seq(Frames) /\ Len(s) = Len(queue.items) - 1
          /\ Elements(s) \subseteq Elements(queue.items) /\ Increasing(s)
      BY <2>3 DEF s
    <2>6. /\ Room \in Queue /\ Room.closed = queue.closed /\ Room.waiting = queue.waiting
          /\ Room.items = s /\ Room.dropped = queue.dropped + 1
      <3>1. queue.dropped + 1 \in Nat /\ queue \in Queue /\ s \in Seq(Frames)
        BY <1>1, <2>5
      <3> QED BY <2>4, <3>1, QueueTakes
    <2>7. /\ queue.dropped + 1 \in Nat /\ Len(s) + 1 <= QueueSize /\ Len(s) \in Nat
          /\ Len(s) + (queue.dropped + 1) = Len(queue.items) + queue.dropped
      <3>1. /\ Len(queue.items) \in Nat \ {0} /\ Len(queue.items) <= QueueSize
            /\ QueueSize \in Nat /\ queue.dropped \in Nat /\ Len(s) = Len(queue.items) - 1
        BY <1>1, <2>2, <2>5
      <3> QED BY ONLY <3>1
    <2>8. setup.policy # "block"
      BY <1>2
    <2>9. Elements(s) \subseteq Queued
      BY <2>5 DEF Queued
    <2> QED BY ONLY <2>5, <2>6, <2>7, <2>8, <2>9
  <1>3. CASE ~(Full /\ setup.policy = "drop_oldest")
    <2>1. Room = queue /\ ~Full
      BY <1>3 DEF Room
    <2>2. Len(queue.items) + 1 <= QueueSize
      BY <1>1, <2>1 DEF Full
    <2> QED BY <1>1, <2>1, <2>2 DEF Queued
  <1> QED BY <1>2, <1>3

\* A frame that is put joins the line, in hand or in the queue.
LEMMA LineGrows ==
    ASSUME NEW P, NEW H, NEW Q, NEW f, NEW n, Below(P, H \cup Q), Below(H, Q),
           Below(P \cup H \cup Q, {f}), Below(P \cup H \cup Q \cup {f}, {n})
    PROVE  /\ Below(P, H \cup Q \cup {f}) /\ Below(H, Q \cup {f}) /\ Below(Q, {f})
           /\ Below(P \cup H \cup Q \cup {f}, {n})
           /\ \A R \in SUBSET (Q \cup {f}) :
                /\ Below(P, H \cup R \cup {}) /\ Below(H, R \cup {}) /\ Below(R, {})
                /\ Below(P \cup H \cup R \cup {}, {n})
  BY DEF Below

\* put() of the frame that was read last, by a producer that has it in hand.
Lost == task["consumer"].pc \in {"failed", "cancelled"} \/ task["consumer"].error = "closed"

LEMMA PutWorks ==
    ASSUME FrameInv, task["producer"].pc \in {"read", "woken"},
           NEW f \in Frames, Put(f), UNCHANGED <<setup, run, consumed>>,
           source' \in Source, source'.errors < MaxDecodeErrors, f < source'.frames,
           Below(Past \cup Held("consumer") \cup Queued, {f}),
           Lost \/ Len(consumed) + Len(task["consumer"].hold) + Len(queue.items) + 1
                     + queue.dropped = source'.frames
    PROVE  FrameInv'
  <1> USE DEF Tasks
  <1>1. /\ task["producer"].pc \notin Finished /\ ~At("producer", "none")
        /\ ~At("producer", "wait") /\ ~At("producer", "cancelled")
    BY DEF Finished, At
  <1>2. run.pc \in {"first", "all"}
    BY <1>1, AtWork
  <1>3. /\ task \in [Tasks -> Task]
        /\ task["producer"] \in Task /\ task["consumer"] \in Task
        /\ queue \in Queue /\ queue.items \in Seq(Frames) /\ queue.waiting = Asleep
        /\ queue.dropped \in Nat /\ queue.closed \in BOOLEAN
        /\ consumed \in Seq(Frames) /\ Len(consumed) \in Nat /\ Len(queue.items) \in Nat
        /\ Len(task["consumer"].hold) \in Nat
        /\ task["consumer"].hold \in Seq(Frames) /\ source'.frames \in Nat /\ f \in Nat
        /\ setup \in Setup /\ run \in Run /\ Frames \subseteq Nat
        /\ Past \subseteq Nat /\ Held("consumer") \subseteq Nat /\ Queued \subseteq Nat
    <2>1. source'.frames \in Nat
      BY FrameNumbers DEF Source
    <2>2. \A s \in Seq(Frames) : Elements(s) \subseteq Nat
      BY Numbers
    <2> QED BY <2>1, <2>2, FrameTypes, FrameNumbers DEF Past, Held, Queued
  <1>4. /\ Increasing(consumed) /\ Increasing(queue.items)
        /\ Below(Past, Held("consumer") \cup Queued) /\ Below(Held("consumer"), Queued)
        /\ Below(Past \cup Held("consumer") \cup Queued \cup {f}, {source'.frames})
    <2>1. /\ Increasing(consumed) /\ Increasing(queue.items)
          /\ Below(Past, Held("consumer") \cup Queued) /\ Below(Held("consumer"), Queued)
      BY DEF FrameInv, InOrder, Below
    <2>2. \A x \in Past \cup Held("consumer") \cup Queued : x < source'.frames
      BY <1>3 DEF Below
    <2> QED BY <2>1, <2>2 DEF Below
  <1>5. /\ task["consumer"].pc \in {"get", "consume", "wait", "woken"} \cup Finished
        /\ ~At("consumer", "none") /\ ~At("consumer", "cancelled")
        /\ Len(task["consumer"].hold) = IF task["consumer"].pc = "consume" THEN 1 ELSE 0
        /\ task["consumer"].error \in {"none", "error"} \cup Failures
        /\ task["consumer"].pc \notin Finished => task["consumer"].error = "none"
        /\ task["producer"].error \in {"none", "error"}
        /\ Bounded
        /\ task["consumer"].pc = "done" =>
             queue.closed /\ (task["consumer"].error = "closed" \/ queue.items = <<>>)
    BY <1>2 DEF FrameInv, Hands, Phases, At, Lossless
  <1>6. CASE queue.closed /\ task' = [task EXCEPT !["producer"] = Ends("producer", "done", "none")]
                          /\ UNCHANGED queue
    <2> DEFINE r == Ended(task["producer"], "done", "none")
    <2>1. r \in Task /\ r.pc = "done" /\ r.error = "none" /\ r.hold = <<>>
      <3>1. "done" \in Finished
        BY DEF Finished
      <3> QED BY <1>3, <3>1, TaskEnds
    <2>2. task' = [task EXCEPT !["producer"] = r] /\ UNCHANGED queue
      BY <1>6 DEF Ends, Ended
    <2> HIDE DEF r
    <2>3. /\ task' \in [Tasks -> Task] /\ task'["producer"] = r
          /\ task'["consumer"] = task["consumer"] /\ Asleep' = Asleep
      BY <1>1, <1>3, <2>1, <2>2, OneTask
    <2>4. At("consumer", "failed")
      BY <1>1, <1>2, <1>6 DEF FrameInv, Phases
    <2>5. Held("producer")' = {} /\ Held("consumer")' = Held("consumer") /\ Past' = Past
          /\ Queued' = Queued
      BY <2>1, <2>2, <2>3, SingleIs DEF Held, Past, Queued
    <2>6. InOrder'
      BY <1>4, <2>2, <2>5 DEF InOrder, Below
    <2>7. Hands' /\ Bounded'
      BY <1>3, <1>5, <2>1, <2>2, <2>3, SingleIs DEF Hands, Bounded, Finished, Asleep
    <2>8. Lossless'
      BY <2>3, <2>4 DEF Lossless, At
    <2>9. FrameTypeOK'
      BY <1>3, <2>2, <2>3 DEF FrameTypeOK
    <2> QED BY <1>2, <1>5, <2>1, <2>2, <2>3, <2>4, <2>6, <2>7, <2>8, <2>9, RunGoesOn
            DEF Finished, At
  <1>7. CASE Sleep("producer", [task["producer"] EXCEPT !.hold = <<f>>])
    <2> DEFINE r == Moved(task["producer"], "wait", <<f>>)
    <2>1. <<f>> \in Seq(Frames) /\ Len(<<f>>) = 1 /\ Elements(<<f>>) = {f}
      BY SingleIs
    <2>2. /\ r \in Task /\ r.pc = "wait" /\ r.hold = <<f>>
          /\ r.error = task["producer"].error
      <3>1. "wait" \in Working
        BY DEF Working
      <3>2. task["producer"] \in Task /\ <<f>> \in Seq(Frames)
        BY <1>3, <2>1
      <3> DEFINE x == task["producer"]
                 h == <<f>>
                 pc == "wait"
      <3>3. x \in Task /\ h \in Seq(Frames) /\ pc \in Working
        BY <3>1, <3>2
      <3>4. r = Moved(x, pc, h)
        OBVIOUS
      <3> HIDE DEF x, h, pc, r
      <3>5. r \in Task /\ r.pc = pc /\ r.hold = h /\ r.error = x.error
        BY <3>3, <3>4, TaskMoves
      <3> QED BY <3>5 DEF x, h, pc
    <2>3. task' = [task EXCEPT !["producer"] = r]
          /\ queue' = [queue EXCEPT !.waiting = Asleep \cup {"producer"}]
      <3>1. r = [[task["producer"] EXCEPT !.hold = <<f>>] EXCEPT !.pc = "wait"]
        BY <1>3 DEF Moved, Task
      <3> QED BY <1>3, <1>7, <3>1 DEF Sleep
    <2> HIDE DEF r
    <2>4. /\ task' \in [Tasks -> Task] /\ task'["producer"] = r
          /\ task'["consumer"] = task["consumer"]
      BY <1>3, <2>2, <2>3, OneTask
    <2>5. Asleep' = Asleep \cup {"producer"}
      BY <2>2, <2>4 DEF Asleep
    <2>6. /\ queue' \in Queue /\ queue'.items = queue.items /\ queue'.closed = queue.closed
          /\ queue'.dropped = queue.dropped /\ queue'.waiting = Asleep'
      BY <1>3, <2>3, <2>5 DEF Queue, Asleep
    <2>7. Held("producer")' = {f} /\ Held("consumer")' = Held("consumer") /\ Past' = Past
          /\ Queued' = Queued
      BY <2>1, <2>2, <2>4, <2>6 DEF Held, Past, Queued
    <2>8. InOrder'
      <3>1. /\ Below(Past, Held("consumer") \cup Queued \cup {f})
            /\ Below(Held("consumer"), Queued \cup {f}) /\ Below(Queued, {f})
            /\ Below(Past \cup Held("consumer") \cup Queued \cup {f}, {source'.frames})
        <4> DEFINE P == Past
                   H == Held("consumer")
                   Q == Queued
                   n == source'.frames
        <4>1. /\ Below(P, H \cup Q) /\ Below(H, Q) /\ Below(P \cup H \cup Q, {f})
              /\ Below(P \cup H \cup Q \cup {f}, {n})
          BY <1>4
        <4> HIDE DEF P, H, Q, n
        <4>2. /\ Below(P, H \cup Q \cup {f}) /\ Below(H, Q \cup {f}) /\ Below(Q, {f})
              /\ Below(P \cup H \cup Q \cup {f}, {n})
          BY ONLY <4>1, LineGrows
        <4> QED BY <4>2 DEF P, H, Q, n
      <3> QED BY <1>4, <2>6, <2>7, <3>1 DEF InOrder
    <2>9. Hands' /\ Bounded'
      BY <1>5, <2>1, <2>2, <2>4, <2>6, ZenonT(40) DEF Hands, Bounded, Asleep
    <2>10. Lossless'
      BY <1>3, <1>5, <2>1, <2>2, <2>4, <2>6 DEF Lossless, Lost, Line
    <2>11. FrameTypeOK'
      BY <1>3, <2>4, <2>6 DEF FrameTypeOK
    <2> QED BY <1>1, <1>2, <1>5, <2>2, <2>4, <2>6, <2>8, <2>9, <2>10, <2>11, RunGoesOn
            DEF Finished, At
  <1>8. CASE ~queue.closed /\ (setup.policy = "drop_oldest" \/ ~Full) /\ Admit(f)
    <2> DEFINE r == Moved(task["producer"], "read", <<>>)
               q == [Room EXCEPT !.items = Append(Room.items, f)]
    <2>1. /\ Room \in Queue /\ Room.closed = queue.closed /\ Room.waiting = Asleep
          /\ Room.items \in Seq(Frames) /\ Increasing(Room.items)
          /\ Elements(Room.items) \subseteq Queued
          /\ Room.dropped \in Nat /\ Len(Room.items) + 1 <= QueueSize
          /\ Len(Room.items) \in Nat
          /\ Len(Room.items) + Room.dropped = Len(queue.items) + queue.dropped
          /\ setup.policy = "block" => Room.dropped = 0
      BY <1>3, <1>8, RoomIs
    <2>2. /\ Append(Room.items, f) \in Seq(Frames)
          /\ Len(Append(Room.items, f)) = Len(Room.items) + 1
          /\ Elements(Append(Room.items, f)) = Elements(Room.items) \cup {f}
          /\ Increasing(Append(Room.items, f))
      <3>1. Below(Elements(Room.items), {f})
        BY <2>1 DEF Below
      <3>2. Room.items \in Seq(Frames) /\ Increasing(Room.items) /\ f \in Frames
        BY <2>1
      <3> QED BY ONLY <3>1, <3>2, FramesGrow
    <2>3. /\ r \in Task /\ r.pc = "read" /\ r.hold = <<>>
          /\ r.error = task["producer"].error
      <3>1. "read" \in Working /\ <<>> \in Seq(Frames)
        BY DEF Working
      <3>2. task["producer"] \in Task
        BY <1>3
      <3> DEFINE x == task["producer"]
                 h == <<>>
                 pc == "read"
      <3>3. x \in Task /\ h \in Seq(Frames) /\ pc \in Working
        BY <3>1, <3>2
      <3>4. r = Moved(x, pc, h)
        OBVIOUS
      <3> HIDE DEF x, h, pc, r
      <3>5. r \in Task /\ r.pc = pc /\ r.hold = h /\ r.error = x.error
        BY <3>3, <3>4, TaskMoves
      <3> QED BY <3>5 DEF x, h, pc
    <2>4. /\ q \in Queue /\ q.items = Append(Room.items, f) /\ q.waiting = Asleep
          /\ q.closed = queue.closed /\ q.dropped = Room.dropped
      BY <2>1, <2>2 DEF Queue
    <2>5. task' \in Notified([task EXCEPT !["producer"] = r]) /\ queue' = Awake(q, task')
      BY <1>8 DEF Admit, Room, Moved
    <2> HIDE DEF r, q
    <2>6. /\ task' \in [Tasks -> Task] /\ task'["producer"] = r
          /\ Woken("consumer")
          /\ queue' \in Queue /\ queue'.waiting = Asleep'
          /\ queue'.items = q.items /\ queue'.closed = q.closed
          /\ queue'.dropped = q.dropped
      <3>1. /\ task \in [Tasks -> Task] /\ queue.waiting = Asleep /\ "producer" \in Tasks
            /\ "consumer" \in Tasks \ {"producer"} /\ ~At("producer", "wait")
            /\ r \in Task /\ r.pc # "wait" /\ q \in Queue /\ q.waiting = Asleep
        BY <1>1, <1>3, <2>3, <2>4
      <3>2. task' \in Notified(Turned("producer", r)) /\ queue' = Awake(q, task')
        BY <2>5 DEF Turned
      <3> HIDE DEF Tasks
      <3> QED BY ONLY <3>1, <3>2, Notifies
    <2>7. /\ task'["consumer"].hold = task["consumer"].hold
          /\ task'["consumer"].error = task["consumer"].error
          /\ \/ task'["consumer"].pc = task["consumer"].pc
             \/ task["consumer"].pc = "wait" /\ task'["consumer"].pc = "woken"
      BY <1>3, <2>6 DEF Woken, At, Task
    <2>8. Held("producer")' = {} /\ Held("consumer")' = Held("consumer") /\ Past' = Past
          /\ Queued' \subseteq Queued \cup {f} /\ Increasing(queue'.items)
      BY <2>1, <2>2, <2>3, <2>4, <2>6, <2>7, SingleIs DEF Held, Past, Queued
    <2>9. InOrder'
      <3> DEFINE R == Queued'
      <3>1. R \in SUBSET (Queued \cup {f})
        BY <2>8
      <3> HIDE DEF R
      <3>2. /\ Below(Past, Held("consumer") \cup R \cup {})
            /\ Below(Held("consumer"), R \cup {}) /\ Below(R, {})
            /\ Below(Past \cup Held("consumer") \cup R \cup {}, {source'.frames})
        <4> DEFINE P == Past
                   H == Held("consumer")
                   Q == Queued
                   n == source'.frames
        <4>1. /\ Below(P, H \cup Q) /\ Below(H, Q) /\ Below(P \cup H \cup Q, {f})
              /\ Below(P \cup H \cup Q \cup {f}, {n}) /\ R \in SUBSET (Q \cup {f})
          BY <1>4, <3>1
        <4> HIDE DEF P, H, Q, n
        <4>2. /\ Below(P, H \cup R \cup {}) /\ Below(H, R \cup {}) /\ Below(R, {})
              /\ Below(P \cup H \cup R \cup {}, {n})
          BY ONLY <4>1, LineGrows
        <4> QED BY <4>2 DEF P, H, Q, n
      <3>3. Increasing(consumed') /\ Increasing(queue'.items)
        BY <1>4, <2>8
      <3> QED BY <2>8, <3>2, <3>3 DEF InOrder, R
    <2>10. Hands' /\ Bounded'
      <3>1. Len(task'["producer"].hold) = 0 /\ task'["producer"].pc = "read"
            /\ task'["producer"].error = task["producer"].error
        BY <2>3, <2>6, SingleIs
      <3>2. Len(queue'.items) <= QueueSize /\ (setup'.policy = "block" => queue'.dropped = 0)
        BY <2>1, <2>2, <2>4, <2>6
      <3> QED BY <1>3, <1>5, <2>6, <2>7, <3>1, <3>2 DEF Hands, Bounded, Asleep, Finished
    <2>11. Lossless'
      <3>1. task["consumer"].pc # "done"
        BY <1>5, <1>8
      <3>2. Lost => Lost'
        BY <2>7 DEF Lost
      <3>3. Len(task'["producer"].hold) = 0
        BY <2>3, <2>6
      <3>4. Line' = Len(consumed) + Len(task["consumer"].hold) + Len(queue.items) + 1
                      + queue.dropped
        <4>1. Len(queue'.items) = Len(Room.items) + 1 /\ queue'.dropped = Room.dropped
          BY <2>2, <2>4, <2>6
        <4>2. Line' = Len(consumed) + Len(task["consumer"].hold) + (Len(Room.items) + 1)
                        + Room.dropped
          <5>1. /\ consumed' = consumed
                /\ task'["consumer"].hold = task["consumer"].hold
            BY <2>7
          <5>2. Line' = Len(consumed) + Len(task["consumer"].hold) + (Len(Room.items) + 1)
                          + 0 + Room.dropped
            BY <3>3, <4>1, <5>1 DEF Line
          <5> QED BY <1>3, <2>1, <5>2
        <4> DEFINE c == Len(consumed) + Len(task["consumer"].hold)
                   m == Len(Room.items)
                   n == Len(queue.items)
                   x == Room.dropped
                   y == queue.dropped
        <4>3. c \in Nat /\ m \in Nat /\ n \in Nat /\ x \in Nat /\ y \in Nat /\ m + x = n + y
          BY <1>3, <2>1
        <4> HIDE DEF c, m, n, x, y
        <4>4. c + (m + 1) + x = c + n + 1 + y
          BY <4>3
        <4> QED BY <4>2, <4>4 DEF c, m, n, x, y
      <3> QED BY <2>7, <3>1, <3>2, <3>4 DEF Lossless, Lost
    <2>12. FrameTypeOK'
      BY <1>3, <2>6 DEF FrameTypeOK
    <2> QED BY <1>1, <1>2, <1>5, <2>3, <2>4, <2>6, <2>7, <2>9, <2>10, <2>11, <2>12, RunGoesOn
            DEF Finished, At
  <1> QED BY <1>6, <1>7, <1>8 DEF Put

\* A step of the producer that puts no frame.
LEMMA ProducerMoves ==
    ASSUME FrameInv, task["producer"].pc \in {"read", "reconnect"},
           NEW r \in Task, r.pc \in {"read", "reconnect", "stuck", "done", "failed"},
           r.hold = <<>>, r.error \in {"none", "error"},
           task' = [task EXCEPT !["producer"] = r],
           UNCHANGED <<setup, queue, run, consumed>>,
           source' \in Source, source'.frames = source.frames,
           r.pc \notin Finished => source'.errors < MaxDecodeErrors
    PROVE  FrameInv'
  <1> USE DEF Tasks
  <1>1. /\ task["producer"].pc \notin Finished /\ ~At("producer", "none")
        /\ ~At("producer", "wait") /\ ~At("producer", "cancelled")
    BY DEF Finished, At
  <1>2. run.pc \in {"first", "all"}
    BY <1>1, AtWork
  <1>3. /\ task \in [Tasks -> Task] /\ queue.waiting = Asleep /\ Len(<<>>) = 0
        /\ task["producer"].hold \in Seq(Frames)
    BY FrameTypes
  <1>4. /\ task' \in [Tasks -> Task] /\ task'["producer"] = r
        /\ task'["consumer"] = task["consumer"] /\ Asleep' = Asleep
    BY <1>1, <1>3, OneTask
  <1>5. Len(task["producer"].hold) = 0 /\ Held("producer") = {} /\ Held("producer")' = {}
    <2>1. Len(task["producer"].hold) = 0
      BY DEF FrameInv, Hands
    <2> QED BY <1>3, <1>4, <2>1, HandIs, SingleIs DEF Held
  <1>6. Held("consumer")' = Held("consumer") /\ Past' = Past /\ Queued' = Queued
    BY <1>4 DEF Held, Past, Queued
  <1>7. InOrder'
    BY <1>5, <1>6 DEF FrameInv, InOrder
  <1>8. Hands'
    BY <1>3, <1>4 DEF FrameInv, Hands, Asleep, Finished
  <1>9. Bounded'
    BY DEF FrameInv, Bounded
  <1>10. Line' = Line
    BY <1>3, <1>4, <1>5 DEF Line
  <1>11. Lossless'
    BY <1>1, <1>4, <1>10 DEF FrameInv, Lossless, At
  <1>12. FrameTypeOK'
    BY <1>4 DEF FrameInv, FrameTypeOK
  <1>13. \A t \in Tasks : task'[t].pc \notin {"none", "cancelled"}
    BY <1>2, <1>4 DEF FrameInv, Phases, At
  <1> QED BY <1>1, <1>2, <1>4, <1>7, <1>8, <1>9, <1>11, <1>12, <1>13, RunGoesOn DEF At

\* A step of the consumer: what is consumed, in hand and queued was one of the
\* three before, and none of it is gone unless consume() failed with it.
LEMMA ConsumerMoves ==
    ASSUME FrameInv, task["consumer"].pc \in {"get", "consume", "woken"},
           NEW r \in Task, r.pc \in {"get", "consume", "wait", "done", "failed"},
           Len(r.hold) = IF r.pc = "consume" THEN 1 ELSE 0,
           r.error \in {"none", "error"} \cup Failures,
           r.pc \notin Finished => r.error = "none",
           task' \in [Tasks -> Task], task'["consumer"] = r, Woken("producer"),
           queue' \in Queue, queue'.waiting = Asleep', consumed' \in Seq(Frames),
           queue'.closed = queue.closed, queue'.dropped = queue.dropped,
           UNCHANGED <<setup, source, run>>,
           Len(queue'.items) <= Len(queue.items),
           Increasing(consumed'), Increasing(queue'.items),
           Below(Past', Elements(r.hold) \cup Queued'), Below(Elements(r.hold), Queued'),
           Past' \cup Elements(r.hold) \cup Queued' \subseteq Past \cup Held("consumer") \cup Queued,
           \/ r.pc = "failed" \/ r.error = "closed"
           \/ Len(consumed') + Len(r.hold) + Len(queue'.items)
                = Len(consumed) + Len(task["consumer"].hold) + Len(queue.items),
           r.pc = "done" => queue.closed /\ (r.error = "closed" \/ queue'.items = <<>>)
    PROVE  FrameInv'
  <1> USE DEF Tasks
  <1>1. /\ task["consumer"].pc \notin Finished /\ ~At("consumer", "none")
        /\ ~At("consumer", "cancelled") /\ ~At("consumer", "failed")
    BY DEF Finished, At
  <1>2. run.pc \in {"first", "all"}
    BY <1>1, AtWork
  <1>3. /\ task["producer"] \in Task
        /\ task'["producer"].hold = task["producer"].hold
        /\ task'["producer"].error = task["producer"].error
        /\ \/ task'["producer"].pc = task["producer"].pc
           \/ task["producer"].pc = "wait" /\ task'["producer"].pc = "woken"
    BY FrameTypes DEF Woken, At, Task
  <1>4. Held("producer")' = Held("producer") /\ Held("consumer")' = Elements(r.hold)
    BY <1>3 DEF Held
  <1>5. InOrder'
    <2>1. /\ Below(Past \cup Held("consumer") \cup Queued, Held("producer"))
          /\ Below(Past \cup Held("consumer") \cup Queued \cup Held("producer"), {source.frames})
      BY DEF FrameInv, InOrder, Below
    <2> QED BY <1>4, <2>1 DEF InOrder, Below
  <1>6. Hands'
    <2>1. /\ task["producer"].pc \in {"none", "read", "reconnect", "stuck", "wait", "woken"} \cup Finished
          /\ Len(task["producer"].hold)
               = IF task["producer"].pc \in {"wait", "woken"} THEN 1 ELSE 0
          /\ task["producer"].error \in {"none", "error"}
          /\ task["producer"].pc \notin Finished => source.errors < MaxDecodeErrors
      BY DEF FrameInv, Hands
    <2> QED BY <1>3, <2>1 DEF Hands, Asleep, Finished
  <1>7. Bounded'
    <2>1. QueueSize \in Nat /\ Len(queue.items) \in Nat /\ Len(queue'.items) \in Nat
      BY FrameTypes, FrameNumbers DEF Queue
    <2> QED BY <2>1 DEF FrameInv, Bounded
  <1>8. Lossless'
    <2>1. CASE r.pc = "failed" \/ r.error = "closed"
      BY <2>1 DEF Lossless
    <2>2. CASE ~(r.pc = "failed" \/ r.error = "closed")
      <3>1. task["producer"].pc = "cancelled" \/ Line = source.frames
        <4>1. task["consumer"].error = "none"
          BY <1>1 DEF FrameInv, Hands
        <4> QED BY <1>1, <4>1 DEF FrameInv, Lossless, Finished
      <3>2. Len(consumed') + Len(r.hold) + Len(queue'.items)
              = Len(consumed) + Len(task["consumer"].hold) + Len(queue.items)
        BY <2>2
      <3>3. Line' = Line
        BY <1>3, <3>2 DEF Line
      <3> QED BY <1>3, <3>1, <3>3 DEF Lossless
    <2> QED BY <2>1, <2>2
  <1>9. FrameTypeOK'
    BY DEF FrameInv, FrameTypeOK
  <1>10. \A t \in Tasks : task'[t].pc \notin {"none", "cancelled"}
    BY <1>2, <1>3 DEF FrameInv, Phases, At
  <1>11. task["producer"].pc \in Finished => task'["producer"].pc \in Finished
    BY <1>3 DEF Finished
  <1> QED BY <1>1, <1>2, <1>5, <1>6, <1>7, <1>8, <1>9, <1>10, <1>11, RunGoesOn

-----------------------------------------------------------------------------
(* The steps.                                                              *)

LEMMA ReadFrameStep == FrameInv /\ ReadFrame => FrameInv'
  <1> SUFFICES ASSUME FrameInv, ReadFrame PROVE FrameInv'
    OBVIOUS
  <1> DEFINE f == source.frames
  <1>1. task["producer"].pc = "read" /\ Len(task["producer"].hold) = 0
    BY DEF ReadFrame, At, FrameInv, Hands
  <1>2. source \in Source /\ f \in Nat /\ f < MaxFrames
    BY FrameTypes DEF ReadFrame
  <1>3. f \in Frames /\ f + 1 \in 0..MaxFrames /\ f < f + 1 /\ 0 < MaxDecodeErrors
        /\ 0 \in 0..MaxAttempts /\ 0 \in 0..MaxDecodeErrors
    BY <1>2, FrameNumbers DEF Frames
  <1>4. source' = [source EXCEPT !.frames = f + 1, !.attempts = 0, !.errors = 0]
    BY DEF ReadFrame
  <1>5. source' \in Source /\ source'.frames = f + 1 /\ source'.errors = 0
    BY <1>2, <1>3, <1>4 DEF Source
  <1>6. Below(Past \cup Held("consumer") \cup Queued, {f})
    BY DEF FrameInv, InOrder, Below
  <1>7. Lost \/ Len(consumed) + Len(task["consumer"].hold) + Len(queue.items) + 1
                  + queue.dropped = source'.frames
    <2>1. Lost \/ Line = f
      BY <1>1 DEF FrameInv, Lossless, Lost
    <2>2. ASSUME Line = f
          PROVE  Len(consumed) + Len(task["consumer"].hold) + Len(queue.items) + 1
                   + queue.dropped = f + 1
      <3> DEFINE a == Len(consumed)
                 b == Len(task["consumer"].hold)
                 c == Len(queue.items)
                 d == queue.dropped
      <3>1. a \in Nat /\ b \in Nat /\ c \in Nat /\ d \in Nat
        BY FrameTypes DEF Tasks
      <3>2. a + b + c + 0 + d = f
        BY <1>1, <2>2 DEF Line
      <3> HIDE DEF a, b, c, d
      <3>3. a + b + c + 1 + d = f + 1
        BY <3>1, <3>2
      <3> QED BY <3>3 DEF a, b, c, d
    <2> QED BY <1>5, <2>1, <2>2
  <1>8. Put(f) /\ UNCHANGED <<setup, run, consumed>>
    BY DEF ReadFrame
  <1> HIDE DEF f
  <1> QED BY <1>1, <1>3, <1>5, <1>6, <1>7, <1>8, PutWorks

LEMMA ResumePutStep == FrameInv /\ ResumePut => FrameInv'
  <1> SUFFICES ASSUME FrameInv, ResumePut PROVE FrameInv'
    OBVIOUS
  <1> DEFINE f == Head(task["producer"].hold)
  <1>1. task["producer"].pc = "woken" /\ Len(task["producer"].hold) = 1
    BY DEF ResumePut, At, FrameInv, Hands
  <1>2. /\ task["producer"].hold \in Seq(Frames) /\ source \in Source
        /\ source' = source /\ source.errors < MaxDecodeErrors
    BY <1>1, FrameTypes DEF ResumePut, Tasks, FrameInv, Hands, Finished
  <1>3. f \in Frames /\ Held("producer") = {f}
    BY <1>1, <1>2, HandIs DEF Held
  <1>4. Put(f) /\ UNCHANGED <<setup, run, consumed>>
    BY DEF ResumePut
  <1> HIDE DEF f
  <1>5. Below(Past \cup Held("consumer") \cup Queued, {f}) /\ f < source'.frames
    BY <1>2, <1>3 DEF FrameInv, InOrder, Below
  <1>6. Lost \/ Len(consumed) + Len(task["consumer"].hold) + Len(queue.items) + 1
                  + queue.dropped = source'.frames
    BY <1>1, <1>2 DEF FrameInv, Lossless, Lost, Line
  <1> QED BY <1>1, <1>2, <1>3, <1>4, <1>5, <1>6, PutWorks

LEMMA ReadNothingStep == FrameInv /\ ReadNothing => FrameInv'
  <1> SUFFICES ASSUME FrameInv, ReadNothing PROVE FrameInv'
    OBVIOUS
  <1>1. /\ task["producer"].pc = "read" /\ task["producer"] \in Task
        /\ task \in [Tasks -> Task] /\ source \in Source
        /\ task["producer"].hold = <<>> /\ task["producer"].error \in {"none", "error"}
        /\ source.errors < MaxDecodeErrors
    <2>1. /\ task["producer"].pc = "read" /\ Len(task["producer"].hold) = 0
          /\ task["producer"].error \in {"none", "error"} /\ source.errors < MaxDecodeErrors
      BY DEF ReadNothing, ReadEof, ReadLost, ReadCorrupt, ReadFails, At,
             FrameInv, Hands, Finished
    <2>2. task["producer"].hold = <<>>
      <3>1. task["producer"].hold \in Seq(Frames)
        BY FrameTypes DEF Tasks
      <3> QED BY <2>1, <3>1, HandIs
    <2> QED BY <2>1, <2>2, FrameTypes
  <1>2. "done" \in Finished /\ "failed" \in Finished /\ <<>> \in Seq(Frames)
        /\ "reconnect" \in Working /\ "read" \in Working
    BY DEF Finished, Working
  <1> DEFINE done == Ended(task["producer"], "done", "none")
             fail == Ended(task["producer"], "failed", "error")
             lost == Moved(task["producer"], "reconnect", <<>>)
  <1>3. done \in Task /\ done.pc = "done" /\ done.hold = <<>> /\ done.error = "none"
    <2> DEFINE x == task["producer"]
    <2>1. x \in Task
      BY <1>1
    <2> HIDE DEF x
    <2>2. \A pc \in Finished, e \in {"none", "error", "closed"} :
            /\ Ended(x, pc, e) \in Task /\ Ended(x, pc, e).pc = pc
            /\ Ended(x, pc, e).hold = <<>> /\ Ended(x, pc, e).error = e
      BY ONLY <2>1, TaskEnds
    <2> DEFINE pc == "done"
               e == "none"
    <2>3. pc \in Finished /\ e \in {"none", "error", "closed"}
      BY <1>2
    <2> HIDE DEF pc, e
    <2>4. /\ Ended(x, pc, e) \in Task /\ Ended(x, pc, e).pc = pc
          /\ Ended(x, pc, e).hold = <<>> /\ Ended(x, pc, e).error = e
      BY ONLY <2>2, <2>3
    <2> QED BY ONLY <2>4 DEF x, pc, e, done
  <1>4. fail \in Task /\ fail.pc = "failed" /\ fail.hold = <<>> /\ fail.error = "error"
    <2> DEFINE x == task["producer"]
    <2>1. x \in Task
      BY <1>1
    <2> HIDE DEF x
    <2>2. \A pc \in Finished, e \in {"none", "error", "closed"} :
            /\ Ended(x, pc, e) \in Task /\ Ended(x, pc, e).pc = pc
            /\ Ended(x, pc, e).hold = <<>> /\ Ended(x, pc, e).error = e
      BY ONLY <2>1, TaskEnds
    <2> DEFINE pc == "failed"
               e == "error"
    <2>3. pc \in Finished /\ e \in {"none", "error", "closed"}
      BY <1>2
    <2> HIDE DEF pc, e
    <2>4. /\ Ended(x, pc, e) \in Task /\ Ended(x, pc, e).pc = pc
          /\ Ended(x, pc, e).hold = <<>> /\ Ended(x, pc, e).error = e
      BY ONLY <2>2, <2>3
    <2> QED BY ONLY <2>4 DEF x, pc, e, fail
  <1>5. lost \in Task /\ lost.pc = "reconnect" /\ lost.hold = <<>>
        /\ lost.error = task["producer"].error
    <2> DEFINE x == task["producer"]
               h == <<>>
               pc == "reconnect"
    <2>1. x \in Task /\ h \in Seq(Frames) /\ pc \in Working /\ lost = Moved(x, pc, h)
      BY <1>1, <1>2
    <2> HIDE DEF x, h, pc, lost
    <2>2. lost \in Task /\ lost.pc = pc /\ lost.hold = h /\ lost.error = x.error
      BY <2>1, TaskMoves
    <2> QED BY <2>2 DEF x, h, pc
  <1>6. CASE ReadEof
    <2>1. task' = [task EXCEPT !["producer"] = done]
      BY <1>6 DEF ReadEof, Ends, Ended
    <2>2. source' \in Source /\ source'.frames = source.frames
      BY <1>1, <1>6 DEF ReadEof, Source
    <2> HIDE DEF done
    <2> QED BY <1>1, <1>2, <1>3, <1>6, <2>1, <2>2, ProducerMoves DEF ReadEof
  <1>7. CASE ReadLost
    <2>1. lost = [task["producer"] EXCEPT !.pc = "reconnect"]
      BY <1>1 DEF Moved, Task
    <2>2. task' = [task EXCEPT !["producer"] = lost]
      BY <1>1, <1>7, <2>1 DEF ReadLost, Tasks
    <2>3. source' = source
      BY <1>7 DEF ReadLost
    <2> HIDE DEF lost
    <2> QED BY <1>1, <1>2, <1>5, <1>7, <2>2, <2>3, ProducerMoves DEF ReadLost
  <1>8. CASE ReadCorrupt
    <2>1. /\ source.errors \in Nat /\ source.errors + 1 \in 0..MaxDecodeErrors
          /\ source.state \in {"created", "running", "draining", "failed", "closed"}
      BY <1>1, FrameNumbers DEF Source
    <2>2. source' \in Source /\ source'.frames = source.frames
          /\ source'.errors = source.errors + 1
      BY <1>1, <1>8, <2>1 DEF ReadCorrupt, Source
    <2>3. CASE source.errors + 1 = MaxDecodeErrors
      <3>1. task' = [task EXCEPT !["producer"] = fail] /\ UNCHANGED queue
        BY <1>8, <2>3 DEF ReadCorrupt, StopProducing, Ends, Ended
      <3> HIDE DEF fail
      <3> QED BY <1>1, <1>2, <1>4, <1>8, <2>2, <3>1, ProducerMoves DEF ReadCorrupt
    <2>4. CASE source.errors + 1 # MaxDecodeErrors
      <3>1. UNCHANGED <<task, queue>> /\ source'.errors < MaxDecodeErrors
        BY <1>8, <2>1, <2>2, <2>4, FrameNumbers DEF ReadCorrupt
      <3>2. task' = [task EXCEPT !["producer"] = task["producer"]]
        BY <1>1, <3>1
      <3> QED BY <1>1, <1>2, <1>8, <2>2, <3>1, <3>2, ProducerMoves DEF ReadCorrupt
    <2> QED BY <2>3, <2>4
  <1>9. CASE ReadFails
    <2>1. task' = [task EXCEPT !["producer"] = fail]
      BY <1>9 DEF ReadFails, StopProducing, Ends, Ended
    <2>2. source' \in Source /\ source'.frames = source.frames
      BY <1>1, <1>9 DEF ReadFails, Source
    <2> HIDE DEF fail
    <2>3. UNCHANGED <<setup, queue, run, consumed>>
      BY <1>9 DEF ReadFails, StopProducing
    <2> QED BY <1>1, <1>2, <1>4, <2>1, <2>2, <2>3, ProducerMoves
  <1> QED BY <1>6, <1>7, <1>8, <1>9 DEF ReadNothing

LEMMA NeverReturnsStep == FrameInv /\ NeverReturns => FrameInv'
  <1> SUFFICES ASSUME FrameInv, NeverReturns PROVE FrameInv'
    OBVIOUS
  <1>1. /\ task["producer"].pc \in {"read", "reconnect"} /\ Len(task["producer"].hold) = 0
        /\ task["producer"].error \in {"none", "error"} /\ source.errors < MaxDecodeErrors
    BY DEF NeverReturns, At, FrameInv, Hands, Finished
  <1>2. /\ task["producer"] \in Task /\ task \in [Tasks -> Task] /\ source \in Source
        /\ task["producer"].hold = <<>>
    <2>1. task["producer"].hold \in Seq(Frames)
      BY FrameTypes DEF Tasks
    <2> QED BY <1>1, <2>1, HandIs, FrameTypes
  <1> DEFINE stuck == Moved(task["producer"], "stuck", <<>>)
  <1>3. stuck \in Task /\ stuck.pc = "stuck" /\ stuck.hold = <<>>
        /\ stuck.error = task["producer"].error
    <2> DEFINE x == task["producer"]
               h == <<>>
               pc == "stuck"
    <2>1. x \in Task /\ h \in Seq(Frames) /\ pc \in Working /\ stuck = Moved(x, pc, h)
      BY <1>2 DEF Working
    <2> HIDE DEF x, h, pc, stuck
    <2>2. stuck \in Task /\ stuck.pc = pc /\ stuck.hold = h /\ stuck.error = x.error
      BY <2>1, TaskMoves
    <2> QED BY <2>2 DEF x, h, pc
  <1>4. stuck = [task["producer"] EXCEPT !.pc = "stuck"]
    BY <1>2 DEF Moved, Task
  <1>5. task' = [task EXCEPT !["producer"] = stuck]
    BY <1>2, <1>4 DEF NeverReturns, Tasks
  <1>6. UNCHANGED <<setup, source, queue, run, consumed>>
    BY DEF NeverReturns
  <1> HIDE DEF stuck
  <1> QED BY <1>1, <1>2, <1>3, <1>5, <1>6, ProducerMoves

LEMMA ReconnectStep == FrameInv /\ Reconnect => FrameInv'
  <1> SUFFICES ASSUME FrameInv, Reconnect PROVE FrameInv'
    OBVIOUS
  <1>1. /\ task["producer"].pc = "reconnect" /\ task["producer"] \in Task
        /\ task \in [Tasks -> Task] /\ source \in Source
        /\ task["producer"].hold = <<>> /\ task["producer"].error \in {"none", "error"}
        /\ source.errors < MaxDecodeErrors /\ UNCHANGED <<setup, run, consumed>>
    <2>1. /\ task["producer"].pc = "reconnect" /\ Len(task["producer"].hold) = 0
          /\ task["producer"].error \in {"none", "error"} /\ source.errors < MaxDecodeErrors
      BY DEF Reconnect, At, FrameInv, Hands, Finished
    <2>2. task["producer"].hold = <<>>
      <3>1. task["producer"].hold \in Seq(Frames)
        BY FrameTypes DEF Tasks
      <3> QED BY <2>1, <3>1, HandIs
    <2> QED BY <2>1, <2>2, FrameTypes DEF Reconnect
  <1>2. "failed" \in Finished /\ <<>> \in Seq(Frames) /\ "read" \in Working
    BY DEF Finished, Working
  <1> DEFINE fail == Ended(task["producer"], "failed", "error")
             read == Moved(task["producer"], "read", <<>>)
  <1>3. fail \in Task /\ fail.pc = "failed" /\ fail.hold = <<>> /\ fail.error = "error"
    BY <1>1, <1>2, TaskEnds
  <1>4. read \in Task /\ read.pc = "read" /\ read.hold = <<>>
        /\ read.error = task["producer"].error
    <2> DEFINE x == task["producer"]
               h == <<>>
               pc == "read"
    <2>1. x \in Task /\ h \in Seq(Frames) /\ pc \in Working /\ read = Moved(x, pc, h)
      BY <1>1, <1>2
    <2> HIDE DEF x, h, pc, read
    <2>2. read \in Task /\ read.pc = pc /\ read.hold = h /\ read.error = x.error
      BY <2>1, TaskMoves
    <2> QED BY <2>2 DEF x, h, pc
  <1>5. read = [task["producer"] EXCEPT !.pc = "read"]
    BY <1>1 DEF Moved, Task
  <1>6. ASSUME StopProducing("error"), source' \in Source, source'.frames = source.frames
        PROVE  FrameInv'
    <2>1. task' = [task EXCEPT !["producer"] = fail] /\ UNCHANGED queue
      BY <1>6 DEF StopProducing, Ends, Ended
    <2> HIDE DEF fail
    <2> QED BY <1>1, <1>2, <1>3, <1>6, <2>1, ProducerMoves
  <1>7. CASE source.attempts < MaxAttempts
    <2>1. source.attempts + 1 \in 0..MaxAttempts /\ source.attempts # MaxAttempts
      BY <1>1, <1>7, FrameNumbers DEF Source
    <2>2. source' = [source EXCEPT !.attempts = source.attempts + 1]
      BY <2>1 DEF Reconnect, Attempts
    <2>3. source' \in Source /\ source'.frames = source.frames
          /\ source'.errors = source.errors
      BY <1>1, <2>1, <2>2 DEF Source
    <2>4. CASE task' = [task EXCEPT !["producer"].pc = "read"] /\ UNCHANGED queue
      <3>1. task' = [task EXCEPT !["producer"] = read]
        BY <1>1, <1>5, <2>4 DEF Tasks
      <3> HIDE DEF read
      <3> QED BY <1>1, <1>2, <1>4, <2>3, <2>4, <3>1, ProducerMoves
    <2>5. CASE UNCHANGED <<task, queue>>
      <3>1. task' = [task EXCEPT !["producer"] = task["producer"]]
        BY <1>1, <2>5
      <3> QED BY <1>1, <2>3, <2>5, <3>1, ProducerMoves
    <2>6. CASE StopProducing("error")
      BY <1>6, <2>3, <2>6
    <2> QED BY <2>1, <2>4, <2>5, <2>6 DEF Reconnect
  <1>8. CASE source.attempts = MaxAttempts
    <2>1. source' = [source EXCEPT !.state = "failed"] /\ StopProducing("error")
      <3>1. ~(source.attempts < MaxAttempts)
        BY <1>8, FrameNumbers
      <3> QED BY <3>1, Zenon DEF Reconnect
    <2>2. source' \in Source /\ source'.frames = source.frames
      BY <1>1, <2>1 DEF Source
    <2> QED BY <1>6, <2>1, <2>2
  <1> QED BY <1>7, <1>8 DEF Reconnect

\* What a consumer that is at work looks at.
LEMMA ConsumerAtWork ==
    ASSUME FrameInv, task["consumer"].pc \in {"get", "consume", "woken"}
    PROVE  /\ task \in [Tasks -> Task] /\ task["consumer"] \in Task
           /\ task["consumer"].error = "none" /\ ~At("consumer", "wait")
           /\ task["consumer"].hold \in Seq(Frames)
           /\ task["consumer"].pc # "consume"
                => task["consumer"].hold = <<>> /\ Held("consumer") = {}
           /\ Increasing(consumed) /\ Increasing(queue.items)
           /\ Below(Past, Held("consumer") \cup Queued) /\ Below(Held("consumer"), Queued)
  <1>1. /\ task["consumer"].error = "none" /\ ~At("consumer", "wait")
        /\ task["consumer"].pc # "consume" => Len(task["consumer"].hold) = 0
    BY DEF FrameInv, Hands, Finished, At
  <1>2. task["consumer"].hold \in Seq(Frames)
    BY FrameTypes DEF Tasks
  <1>3. task["consumer"].pc # "consume"
          => task["consumer"].hold = <<>> /\ Held("consumer") = {}
    BY <1>1, <1>2, HandIs DEF Held
  <1> QED BY <1>1, <1>2, <1>3, FrameTypes DEF FrameInv, InOrder, Below

LEMMA GetStep == FrameInv /\ StartGet => FrameInv'
  <1> SUFFICES ASSUME FrameInv, StartGet PROVE FrameInv'
    OBVIOUS
  <1> USE DEF Tasks
  <1>1. /\ task["consumer"].pc \in {"get", "woken"}
        /\ Get /\ UNCHANGED <<setup, source, run, consumed>>
    BY DEF StartGet, At
  <1>2. /\ task \in [Tasks -> Task] /\ task["consumer"] \in Task
        /\ task["consumer"].error = "none" /\ ~At("consumer", "wait")
        /\ task["consumer"].hold = <<>> /\ Held("consumer") = {}
        /\ Increasing(consumed) /\ Increasing(queue.items) /\ Below(Past, Queued)
    BY <1>1, ConsumerAtWork DEF Below
  <1>3. /\ queue \in Queue /\ queue.items \in Seq(Frames) /\ queue.waiting = Asleep
        /\ queue.dropped \in Nat /\ Len(queue.items) \in Nat
        /\ consumed \in Seq(Frames) /\ Len(consumed) \in Nat
    BY FrameTypes
  <1>4. Len(<<>>) = 0 /\ Elements(<<>>) = {} /\ <<>> \in Seq(Frames)
    BY DEF Elements
  <1>5. "consume" \in Working /\ "wait" \in Working /\ "done" \in Finished
    BY DEF Working, Finished
  <1>6. CASE ~Available /\ queue.closed
             /\ task' = [task EXCEPT !["consumer"] = Ends("consumer", "done", "none")]
             /\ UNCHANGED queue
    <2> DEFINE r == Ended(task["consumer"], "done", "none")
    <2>1. r \in Task /\ r.pc = "done" /\ r.hold = <<>> /\ r.error = "none"
      BY <1>2, <1>5, TaskEnds
    <2>2. task' = [task EXCEPT !["consumer"] = r]
      BY <1>6 DEF Ends, Ended
    <2> HIDE DEF r
    <2>3. /\ task' \in [Tasks -> Task] /\ task'["consumer"] = r
          /\ Woken("producer") /\ Asleep' = Asleep
      BY <1>2, <2>1, <2>2, OneTask DEF Woken
    <2>4. queue'.items = <<>> /\ Past' = Past /\ Queued' = Queued
      BY <1>1, <1>6 DEF Available, Past, Queued
    <2>5. Len(consumed') + Len(r.hold) + Len(queue'.items)
            = Len(consumed) + Len(task["consumer"].hold) + Len(queue.items)
      BY <1>1, <1>2, <1>6, <2>1
    <2>6. /\ Increasing(consumed') /\ Increasing(queue'.items)
          /\ Below(Past', Elements(r.hold) \cup Queued') /\ Below(Elements(r.hold), Queued')
          /\ Past' \cup Elements(r.hold) \cup Queued' \subseteq Past \cup Held("consumer") \cup Queued
      BY <1>1, <1>2, <1>4, <1>6, <2>1, <2>4 DEF Below
    <2>7. /\ queue' = queue /\ queue'.waiting = Asleep' /\ Len(r.hold) = 0
          /\ Len(queue'.items) <= Len(queue.items) /\ queue'.items = <<>> /\ queue.closed
      BY <1>3, <1>4, <1>6, <2>1, <2>3, <2>4
    <2>8. r \in Task /\ r.pc = "done" /\ r.error = "none" /\ consumed' \in Seq(Frames)
          /\ queue' \in Queue /\ queue'.closed = queue.closed /\ queue'.dropped = queue.dropped
      BY <1>1, <1>3, <2>1, <2>7
    <2> QED BY <1>1, <1>5, <2>3, <2>5, <2>6, <2>7, <2>8, ConsumerMoves
  <1>7. CASE ~Available /\ ~queue.closed /\ Sleep("consumer", task["consumer"])
    <2> DEFINE r == Moved(task["consumer"], "wait", <<>>)
    <2>1. r \in Task /\ r.pc = "wait" /\ r.hold = <<>> /\ r.error = "none"
      <3> DEFINE x == task["consumer"]
                 h == <<>>
                 pc == "wait"
      <3>1. x \in Task /\ h \in Seq(Frames) /\ pc \in Working /\ r = Moved(x, pc, h)
        BY <1>2, <1>4, <1>5
      <3> HIDE DEF x, h, pc, r
      <3>2. r \in Task /\ r.pc = pc /\ r.hold = h /\ r.error = x.error
        BY <3>1, TaskMoves
      <3> QED BY <1>2, <3>2 DEF x, h, pc
    <2>2. r = [task["consumer"] EXCEPT !.pc = "wait"]
      BY <1>2 DEF Moved, Task
    <2>3. task' = [task EXCEPT !["consumer"] = r]
          /\ queue' = [queue EXCEPT !.waiting = Asleep \cup {"consumer"}]
      BY <1>3, <1>7, <2>2 DEF Sleep
    <2> HIDE DEF r
    <2>4. /\ task' \in [Tasks -> Task] /\ task'["consumer"] = r /\ Woken("producer")
      BY <1>2, <2>1, <2>3, OneTask DEF Woken
    <2>5. Asleep' = Asleep \cup {"consumer"}
      BY <2>1, <2>4, <1>2, <2>3 DEF Asleep
    <2>6. /\ queue' \in Queue /\ queue'.items = queue.items /\ queue'.closed = queue.closed
          /\ queue'.dropped = queue.dropped /\ queue'.waiting = Asleep'
      BY <1>3, <2>3, <2>5 DEF Queue, Asleep
    <2>7. Past' = Past /\ Queued' = Queued
      BY <1>1, <2>6 DEF Past, Queued
    <2>8. Len(consumed') + Len(r.hold) + Len(queue'.items)
            = Len(consumed) + Len(task["consumer"].hold) + Len(queue.items)
      BY <1>1, <1>2, <2>1, <2>6
    <2>9. /\ Increasing(consumed') /\ Increasing(queue'.items)
          /\ Below(Past', Elements(r.hold) \cup Queued') /\ Below(Elements(r.hold), Queued')
          /\ Past' \cup Elements(r.hold) \cup Queued' \subseteq Past \cup Held("consumer") \cup Queued
      BY <1>1, <1>2, <1>4, <2>1, <2>6, <2>7 DEF Below
    <2>10. Len(r.hold) = 0 /\ Len(queue'.items) <= Len(queue.items)
      BY <1>3, <1>4, <2>1, <2>6
    <2>11. r \in Task /\ r.pc = "wait" /\ r.error = "none" /\ consumed' \in Seq(Frames)
      BY <1>1, <1>3, <2>1
    <2> QED BY <1>1, <2>4, <2>6, <2>8, <2>9, <2>10, <2>11, ConsumerMoves
  <1>8. CASE /\ Available
             /\ \E tasks \in Notified([task EXCEPT !["consumer"] =
                   [@ EXCEPT !.pc = "consume", !.hold = <<Head(queue.items)>>]]) :
                  /\ task' = tasks
                  /\ queue' = Awake([queue EXCEPT !.items = Tail(@)], tasks)
    <2> DEFINE f == Head(queue.items)
               s == Tail(queue.items)
               r == Moved(task["consumer"], "consume", <<f>>)
               q == [queue EXCEPT !.items = s]
    <2>1. /\ s \in Seq(Frames) /\ Len(s) = Len(queue.items) - 1
          /\ f \in Frames /\ f \in Queued /\ Elements(s) \subseteq Queued
          /\ Increasing(s) /\ Below({f}, Elements(s))
      BY <1>2, <1>3, <1>8, FrameNumbers, TailIs DEF Available, Queued
    <2>2. <<f>> \in Seq(Frames) /\ Len(<<f>>) = 1 /\ Elements(<<f>>) = {f}
      BY <2>1, SingleIs
    <2>3. r \in Task /\ r.pc = "consume" /\ r.hold = <<f>> /\ r.error = "none"
      <3> DEFINE x == task["consumer"]
                 h == <<f>>
                 pc == "consume"
      <3>1. x \in Task /\ h \in Seq(Frames) /\ pc \in Working /\ r = Moved(x, pc, h)
        BY <1>2, <2>2, <1>5
      <3> HIDE DEF x, h, pc, r
      <3>2. r \in Task /\ r.pc = pc /\ r.hold = h /\ r.error = x.error
        BY <3>1, TaskMoves
      <3> QED BY <1>2, <3>2 DEF x, h, pc
    <2>4. task' \in Notified([task EXCEPT !["consumer"] = r]) /\ queue' = Awake(q, task')
      BY <1>8 DEF Moved
    <2> HIDE DEF s, f
    <2>5. /\ q \in Queue /\ q.items = s /\ q.waiting = Asleep
          /\ q.closed = queue.closed /\ q.dropped = queue.dropped
      BY <1>3, <2>1 DEF Queue
    <2> HIDE DEF r, q
    <2>6. /\ task' \in [Tasks -> Task] /\ task'["consumer"] = r /\ Woken("producer")
          /\ queue' \in Queue /\ queue'.waiting = Asleep'
          /\ queue'.items = s /\ queue'.closed = queue.closed
          /\ queue'.dropped = queue.dropped
      <3>1. /\ task \in [Tasks -> Task] /\ queue.waiting = Asleep /\ "consumer" \in Tasks
            /\ "producer" \in Tasks \ {"consumer"} /\ ~At("consumer", "wait")
            /\ r \in Task /\ r.pc # "wait" /\ q \in Queue /\ q.waiting = Asleep
            /\ q.items = s /\ q.closed = queue.closed /\ q.dropped = queue.dropped
        BY <1>2, <1>3, <2>3, <2>5
      <3>2. task' \in Notified(Turned("consumer", r)) /\ queue' = Awake(q, task')
        BY <2>4 DEF Turned
      <3> HIDE DEF Tasks
      <3> QED BY ONLY <3>1, <3>2, Notifies
    <2>7. Past' = Past /\ Queued' = Elements(s) /\ Elements(r.hold) = {f}
      BY <1>1, <2>2, <2>3, <2>6 DEF Past, Queued
    <2>8. /\ Len(consumed') + Len(r.hold) + Len(queue'.items)
               = Len(consumed) + Len(task["consumer"].hold) + Len(queue.items)
          /\ Len(queue'.items) <= Len(queue.items)
      <3> DEFINE a == Len(consumed)
                 b == Len(queue.items)
                 c == Len(s)
      <3>1. a \in Nat /\ b \in Nat /\ c = b - 1 /\ Len(task["consumer"].hold) = 0
            /\ Len(consumed') = a /\ Len(r.hold) = 1 /\ Len(queue'.items) = c
        BY <1>1, <1>2, <1>3, <2>1, <2>2, <2>3, <2>6
      <3> HIDE DEF a, b, c
      <3>2. a + 1 + c = a + 0 + b /\ c <= b
        BY <3>1
      <3> QED BY <3>1, <3>2 DEF a, b, c
    <2>9. /\ Increasing(consumed') /\ Increasing(queue'.items)
          /\ Below(Past', Elements(r.hold) \cup Queued') /\ Below(Elements(r.hold), Queued')
          /\ Past' \cup Elements(r.hold) \cup Queued' \subseteq Past \cup Held("consumer") \cup Queued
      BY <1>1, <1>2, <2>1, <2>6, <2>7 DEF Below
    <2> QED BY <1>1, <1>2, <1>3, <2>2, <2>3, <2>6, <2>8, <2>9, ConsumerMoves
  <1> QED BY <1>1, <1>6, <1>7, <1>8 DEF Get

LEMMA ConsumeStep == FrameInv /\ Consume => FrameInv'
  <1> SUFFICES ASSUME FrameInv, Consume PROVE FrameInv'
    OBVIOUS
  <1> USE DEF Tasks
  <1>1. /\ task["consumer"].pc = "consume" /\ Len(task["consumer"].hold) = 1
        /\ consumed' = consumed \o task["consumer"].hold
        /\ UNCHANGED <<setup, source, queue, run>>
    BY DEF Consume, At, FrameInv, Hands
  <1>2. /\ task \in [Tasks -> Task] /\ task["consumer"] \in Task
        /\ task["consumer"].error = "none" /\ ~At("consumer", "wait")
        /\ task["consumer"].hold \in Seq(Frames)
        /\ Increasing(consumed) /\ Increasing(queue.items)
        /\ Below(Past, Held("consumer") \cup Queued) /\ Below(Held("consumer"), Queued)
    BY <1>1, ConsumerAtWork
  <1>3. /\ queue \in Queue /\ queue.items \in Seq(Frames) /\ queue.waiting = Asleep
        /\ queue.dropped \in Nat /\ Len(queue.items) \in Nat
        /\ consumed \in Seq(Frames) /\ Len(consumed) \in Nat
    BY FrameTypes
  <1>4. Len(<<>>) = 0 /\ Elements(<<>>) = {} /\ <<>> \in Seq(Frames) /\ "get" \in Working
    BY DEF Elements, Working
  <1> DEFINE r == Moved(task["consumer"], "get", <<>>)
  <1>5. r \in Task /\ r.pc = "get" /\ r.hold = <<>> /\ r.error = "none"
    <2> DEFINE x == task["consumer"]
               h == <<>>
               pc == "get"
    <2>1. x \in Task /\ h \in Seq(Frames) /\ pc \in Working /\ r = Moved(x, pc, h)
      BY <1>2, <1>4
    <2> HIDE DEF x, h, pc, r
    <2>2. r \in Task /\ r.pc = pc /\ r.hold = h /\ r.error = x.error
      BY <2>1, TaskMoves
    <2> QED BY <1>2, <2>2 DEF x, h, pc
  <1>6. task' = [task EXCEPT !["consumer"] = r]
    BY DEF Consume, Moved
  <1> HIDE DEF r
  <1>7. /\ task' \in [Tasks -> Task] /\ task'["consumer"] = r
        /\ Woken("producer") /\ Asleep' = Asleep
    BY <1>2, <1>5, <1>6, OneTask DEF Woken
  <1>8. /\ consumed' \in Seq(Frames)
        /\ Len(consumed') = Len(consumed) + Len(task["consumer"].hold)
        /\ Past' = Past \cup Held("consumer") /\ Increasing(consumed')
    <2>1. Increasing(task["consumer"].hold) /\ Below(Past, Held("consumer"))
      BY <1>1, <1>2, HandIs DEF Below
    <2> DEFINE s == consumed
               t == task["consumer"].hold
    <2>2. /\ s \in Seq(Frames) /\ t \in Seq(Frames) /\ Increasing(s) /\ Increasing(t)
          /\ Below(Elements(s), Elements(t))
      BY <1>2, <1>3, <2>1 DEF Past, Held
    <2> HIDE DEF s, t
    <2>3. /\ s \o t \in Seq(Frames) /\ Len(s \o t) = Len(s) + Len(t)
          /\ Elements(s \o t) = Elements(s) \cup Elements(t) /\ Increasing(s \o t)
      BY ONLY <2>2, FramesJoin
    <2> QED BY <1>1, <2>3 DEF s, t, Past, Held
  <1>9. Queued' = Queued /\ Elements(r.hold) = {} /\ Len(r.hold) = 0
    BY <1>1, <1>4, <1>5 DEF Queued
  <1>10. /\ Len(consumed') + Len(r.hold) + Len(queue'.items)
             = Len(consumed) + Len(task["consumer"].hold) + Len(queue.items)
        /\ Len(queue'.items) <= Len(queue.items)
    BY <1>1, <1>3, <1>8, <1>9
  <1>11. /\ Increasing(queue'.items)
         /\ Below(Past', Elements(r.hold) \cup Queued') /\ Below(Elements(r.hold), Queued')
         /\ Past' \cup Elements(r.hold) \cup Queued' \subseteq Past \cup Held("consumer") \cup Queued
    BY <1>1, <1>2, <1>8, <1>9 DEF Below
  <1>12. r \in Task /\ r.pc = "get" /\ r.error = "none" /\ queue' = queue
         /\ queue'.waiting = Asleep'
    BY <1>1, <1>3, <1>5, <1>7
  <1> QED BY <1>1, <1>3, <1>7, <1>8, <1>9, <1>10, <1>11, <1>12, ConsumerMoves

LEMMA ConsumeFailsStep == FrameInv /\ ConsumeFails => FrameInv'
  <1> SUFFICES ASSUME FrameInv, ConsumeFails PROVE FrameInv'
    OBVIOUS
  <1> USE DEF Tasks
  <1>1. /\ task["consumer"].pc = "consume"
        /\ UNCHANGED <<setup, source, queue, run, consumed>>
    BY DEF ConsumeFails, At
  <1>2. /\ task \in [Tasks -> Task] /\ task["consumer"] \in Task /\ ~At("consumer", "wait")
        /\ Increasing(consumed) /\ Increasing(queue.items) /\ Below(Past, Queued)
    BY <1>1, ConsumerAtWork DEF Below
  <1>3. /\ queue \in Queue /\ queue.items \in Seq(Frames) /\ queue.waiting = Asleep
        /\ queue.dropped \in Nat /\ Len(queue.items) \in Nat /\ consumed \in Seq(Frames)
    BY FrameTypes
  <1>4. Len(<<>>) = 0 /\ Elements(<<>>) = {} /\ "done" \in Finished /\ "failed" \in Finished
    BY DEF Elements, Finished
  <1>5. PICK e \in Failures : task' = [task EXCEPT !["consumer"] =
              Ends("consumer", IF e = "closed" /\ queue.closed THEN "done" ELSE "failed", e)]
    BY DEF ConsumeFails
  <1> DEFINE pc == IF e = "closed" /\ queue.closed THEN "done" ELSE "failed"
             r == Ended(task["consumer"], pc, e)
  <1>6. e \in {"none", "error", "closed"} /\ pc \in Finished /\ pc \in {"done", "failed"}
        /\ (pc = "failed" \/ (e = "closed" /\ queue.closed))
    BY <1>4, PipelineAssumption DEF PipelineAssumption
  <1>7. task' = [task EXCEPT !["consumer"] = r]
    BY <1>5 DEF Ends, Ended
  <1> HIDE DEF pc
  <1>8. r \in Task /\ r.pc = pc /\ r.hold = <<>> /\ r.error = e
    <2> DEFINE x == task["consumer"]
    <2>1. x \in Task /\ pc \in Finished /\ e \in {"none", "error", "closed"}
      BY <1>2, <1>6
    <2> HIDE DEF x
    <2>2. Ended(x, pc, e) \in Task /\ Ended(x, pc, e).pc = pc
          /\ Ended(x, pc, e).hold = <<>> /\ Ended(x, pc, e).error = e
      BY ONLY <2>1, TaskEnds, SMTT(30)
    <2> QED BY ONLY <2>2 DEF x, r
  <1> HIDE DEF r
  <1>9. /\ task' \in [Tasks -> Task] /\ task'["consumer"] = r
        /\ Woken("producer") /\ Asleep' = Asleep
    BY <1>2, <1>6, <1>7, <1>8, OneTask DEF Woken, Finished
  <1>10. Past' = Past /\ Queued' = Queued /\ Elements(r.hold) = {} /\ Len(r.hold) = 0
    BY <1>1, <1>4, <1>8 DEF Past, Queued
  <1>11. /\ Increasing(consumed') /\ Increasing(queue'.items)
         /\ Below(Past', Elements(r.hold) \cup Queued') /\ Below(Elements(r.hold), Queued')
         /\ Past' \cup Elements(r.hold) \cup Queued' \subseteq Past \cup Held("consumer") \cup Queued
    BY <1>1, <1>2, <1>10 DEF Below
  <1>12. /\ r \in Task /\ r.pc \in {"done", "failed"} /\ r.error = e
         /\ r.pc = "failed" \/ (r.error = "closed" /\ queue.closed)
         /\ r.pc \in Finished
    BY <1>6, <1>8
  <1>13. /\ queue' = queue /\ queue'.waiting = Asleep' /\ Len(queue'.items) <= Len(queue.items)
         /\ consumed' \in Seq(Frames)
    BY <1>1, <1>3, <1>9
  <1> QED BY <1>1, <1>3, <1>5, <1>9, <1>10, <1>11, <1>12, <1>13, ConsumerMoves DEF Finished

\* A step of run() that moves no frame: at most some are gone with their task.
LEMMA RunMoves ==
    ASSUME FrameInv, UNCHANGED <<setup, consumed>>,
           task' \in [Tasks -> Task], queue' \in Queue, source' \in Source, run' \in Run,
           queue'.items = queue.items, queue'.dropped = queue.dropped,
           source'.frames = source.frames, source'.errors = source.errors,
           \A t \in Tasks : task'[t].hold = task[t].hold \/ task'[t].hold = <<>>
    PROVE  FrameTypeOK' /\ InOrder' /\ Bounded'
  <1> USE DEF Tasks
  <1>1. FrameTypeOK'
    BY DEF FrameInv, FrameTypeOK
  <1>2. Bounded'
    BY DEF FrameInv, Bounded
  <1>3. Elements(<<>>) = {}
    BY DEF Elements
  <1>4. /\ Past' = Past /\ Queued' = Queued
        /\ Held("consumer")' \subseteq Held("consumer")
        /\ Held("producer")' \subseteq Held("producer")
    BY <1>3 DEF Past, Queued, Held
  <1>5. InOrder'
    BY <1>4 DEF FrameInv, InOrder, Below
  <1> QED BY <1>1, <1>2, <1>5

LEMMA RefuseStep == FrameInv /\ Refuse => FrameInv'
  <1> SUFFICES ASSUME FrameInv, Refuse PROVE FrameInv'
    OBVIOUS
  <1>1. /\ run.pc = "start" /\ UNCHANGED <<setup, source, queue, task, consumed>>
        /\ run' = [pc |-> "ended", result |-> "failure"] /\ run' \in Run
        /\ run'.pc = "ended" /\ run'.result = "failure"
    BY DEF Refuse, Run
  <1>2. task = [t \in Tasks |-> NoTask] /\ source.state = "created"
    BY <1>1 DEF FrameInv, Phases
  <1>3. \A t \in Tasks : task[t].pc = "none"
    BY <1>2 DEF NoTask
  <1>4. FrameTypeOK' /\ InOrder' /\ Bounded'
    BY <1>1, FrameTypes, RunMoves
  <1>5. Hands' /\ Lossless'
    BY <1>1 DEF FrameInv, Hands, Lossless, Line
  <1>6. Phases'
    BY <1>1, <1>2, <1>3 DEF Phases, At
  <1>7. Results'
    BY <1>1, <1>3 DEF Results, At
  <1> QED BY <1>4, <1>5, <1>6, <1>7 DEF FrameInv

LEMMA OpenFailsStep == FrameInv /\ OpenFails => FrameInv'
  <1> SUFFICES ASSUME FrameInv, OpenFails PROVE FrameInv'
    OBVIOUS
  <1>1. /\ run.pc = "start" /\ UNCHANGED <<setup, queue, task, consumed>>
        /\ source' = [source EXCEPT !.state = "failed"]
        /\ run' \in Run /\ run'.pc = "ended" /\ run'.result = "failure"
    BY DEF OpenFails, Run
  <1>2. source' \in Source /\ source'.state = "failed"
        /\ source'.frames = source.frames /\ source'.errors = source.errors
    BY <1>1, FrameTypes DEF Source
  <1>3. \A t \in Tasks : task[t].pc = "none"
    BY <1>1 DEF FrameInv, Phases, NoTask
  <1>4. FrameTypeOK' /\ InOrder' /\ Bounded'
    BY <1>1, <1>2, FrameTypes, RunMoves
  <1>5. Hands' /\ Lossless'
    BY <1>1, <1>2, ZenonT(40) DEF FrameInv, Hands, Lossless, Line
  <1>6. Phases'
    BY <1>1, <1>2, <1>3 DEF Phases, At
  <1>7. Results'
    BY <1>1, <1>3 DEF Results, At
  <1> QED BY <1>4, <1>5, <1>6, <1>7 DEF FrameInv

LEMMA OpenStep == FrameInv /\ Open => FrameInv'
  <1> SUFFICES ASSUME FrameInv, Open PROVE FrameInv'
    OBVIOUS
  <1> USE DEF Tasks
  <1>1. /\ run.pc = "start" /\ ~queue.closed /\ UNCHANGED <<setup, queue, consumed>>
        /\ source' = [source EXCEPT !.state = "running"]
        /\ task' = [task EXCEPT !["producer"].pc = "read", !["consumer"].pc = "get"]
        /\ run' = [run EXCEPT !.pc = "first"]
    BY DEF Open
  <1>2. source' \in Source /\ source'.frames = source.frames /\ source'.errors = source.errors
    BY <1>1, FrameTypes DEF Source
  <1>3. run' \in Run /\ run'.pc = "first" /\ run'.result = "none"
    <2>1. run.result = "none" /\ run \in Run
      BY <1>1, FrameTypes DEF FrameInv, Results
    <2> QED BY <1>1, <2>1 DEF Run
  <1>4. /\ task["producer"] = NoTask /\ task["consumer"] = NoTask
        /\ task \in [Tasks -> Task] /\ queue.waiting = Asleep
        /\ Len(queue.items) = 0 /\ queue.dropped = 0 /\ source.frames = 0 /\ Len(consumed) = 0
    BY <1>1, FrameTypes DEF FrameInv, Phases
  <1>5. /\ task'["producer"] = [NoTask EXCEPT !.pc = "read"]
        /\ task'["consumer"] = [NoTask EXCEPT !.pc = "get"]
    BY <1>1, <1>4
  <1>6. /\ task'["producer"].pc = "read" /\ task'["producer"].hold = <<>>
        /\ task'["producer"].error = "none"
        /\ task'["consumer"].pc = "get" /\ task'["consumer"].hold = <<>>
        /\ task'["consumer"].error = "none" /\ Len(<<>>) = 0
    BY <1>5 DEF NoTask
  <1>7. task' \in [Tasks -> Task]
    <2>1. [NoTask EXCEPT !.pc = "read"] \in Task /\ [NoTask EXCEPT !.pc = "get"] \in Task
      <3>1. NoTask \in Task
        BY <1>4
      <3> QED BY <3>1 DEF Task
    <2> DEFINE a == [NoTask EXCEPT !.pc = "read"]
               b == [NoTask EXCEPT !.pc = "get"]
    <2>2. a \in Task /\ b \in Task
      BY <2>1
    <2>3. task' = [[task EXCEPT !["producer"] = a] EXCEPT !["consumer"] = b]
      BY <1>1, <1>4
    <2> HIDE DEF a, b
    <2> QED BY <1>4, <2>2, <2>3
  <1>8. FrameTypeOK' /\ InOrder' /\ Bounded'
    BY <1>1, <1>2, <1>3, <1>6, <1>7, FrameTypes, RunMoves
  <1>9. Hands'
    <2>1. source.errors < MaxDecodeErrors /\ queue.waiting = {}
      BY <1>4 DEF FrameInv, Hands, NoTask, Finished, Asleep
    <2>2. {t \in Tasks : task'[t].pc = "wait"} = {} /\ queue' = queue
      BY <1>1, <1>6
    <2>3. /\ Len(task'["producer"].hold) = 0 /\ Len(task'["consumer"].hold) = 0
          /\ source'.errors < MaxDecodeErrors
      BY <1>2, <1>6, <2>1
    <2> QED BY <1>6, <2>1, <2>2, <2>3 DEF Hands, Finished
  <1>10. Lossless'
    <2>1. /\ Len(task'["producer"].hold) = 0 /\ Len(task'["consumer"].hold) = 0
          /\ Len(queue'.items) = 0 /\ queue'.dropped = 0 /\ source'.frames = 0
          /\ Len(consumed') = 0
      BY <1>1, <1>2, <1>4, <1>6
    <2>2. Line' = 0
      BY <2>1 DEF Line
    <2> QED BY <1>6, <2>1, <2>2 DEF Lossless
  <1>11. Phases' /\ Results'
    BY <1>1, <1>3, <1>6 DEF Phases, Results, At
  <1> QED BY <1>8, <1>9, <1>10, <1>11 DEF FrameInv

\* Those that sleep on the queue are woken, and keep what they have in hand.
LEMMA ShutWakes ==
    ASSUME FrameInv, Shut(task)
    PROVE  /\ task' \in [Tasks -> Task] /\ queue' \in Queue
           /\ \A t \in Tasks : /\ task'[t].hold = task[t].hold /\ task'[t].error = task[t].error
                               /\ \/ task'[t].pc = task[t].pc /\ task[t].pc # "wait"
                                  \/ task[t].pc = "wait" /\ task'[t].pc = "woken"
           /\ queue'.closed /\ queue'.waiting = {} /\ Asleep' = {}
           /\ queue'.items = queue.items /\ queue'.dropped = queue.dropped
  <1>1. task \in [Tasks -> Task] /\ queue \in Queue
    BY FrameTypes
  <1>2. queue' = [queue EXCEPT !.closed = TRUE, !.waiting = {}]
        /\ task' = [t \in Tasks |-> IF task[t].pc = "wait" THEN [task[t] EXCEPT !.pc = "woken"]
                                                           ELSE task[t]]
    BY DEF Shut
  <1>3. \A t \in Tasks :
          /\ task'[t] \in Task
          /\ task'[t].hold = task[t].hold /\ task'[t].error = task[t].error
          /\ \/ task'[t].pc = task[t].pc /\ task[t].pc # "wait"
             \/ task[t].pc = "wait" /\ task'[t].pc = "woken"
    <2> SUFFICES ASSUME NEW t \in Tasks
                 PROVE  /\ task'[t] \in Task
                        /\ task'[t].hold = task[t].hold /\ task'[t].error = task[t].error
                        /\ \/ task'[t].pc = task[t].pc /\ task[t].pc # "wait"
                           \/ task[t].pc = "wait" /\ task'[t].pc = "woken"
      OBVIOUS
    <2>1. task[t] \in Task
      BY <1>1
    <2>2. CASE task[t].pc = "wait"
      <3>1. task'[t] = [task[t] EXCEPT !.pc = "woken"]
        BY <1>2, <2>2
      <3> QED BY <2>1, <2>2, <3>1 DEF Task
    <2>3. CASE task[t].pc # "wait"
      <3>1. task'[t] = task[t]
        BY <1>2, <2>3
      <3> QED BY <2>1, <2>3, <3>1
    <2> QED BY <2>2, <2>3
  <1>4. task' \in [Tasks -> Task]
    BY <1>2, <1>3
  <1>5. /\ queue' \in Queue /\ queue'.closed /\ queue'.waiting = {}
        /\ queue'.items = queue.items /\ queue'.dropped = queue.dropped
    BY <1>1, <1>2 DEF Queue
  <1>6. Asleep' = {}
    BY <1>3 DEF Asleep
  <1> QED BY <1>3, <1>4, <1>5, <1>6

LEMMA ShutDownStep == FrameInv /\ ShutDown => FrameInv'
  <1> SUFFICES ASSUME FrameInv, ShutDown PROVE FrameInv'
    OBVIOUS
  <1> USE DEF Tasks
  <1>1. /\ run.pc = "first" /\ UNCHANGED <<setup, source, consumed>>
        /\ \E t \in Tasks : task[t].pc \in Finished
        /\ run' = [run EXCEPT !.pc = "all"] /\ Shut(task)
    BY DEF ShutDown
  <1>2. run' \in Run /\ run'.pc = "all" /\ run'.result = "none"
    <2>1. run.result = "none" /\ run \in Run
      BY <1>1, FrameTypes DEF FrameInv, Results
    <2> QED BY <1>1, <2>1 DEF Run
  <1>3. /\ task' \in [Tasks -> Task] /\ queue' \in Queue
        /\ \A t \in Tasks : /\ task'[t].hold = task[t].hold /\ task'[t].error = task[t].error
                            /\ \/ task'[t].pc = task[t].pc /\ task[t].pc # "wait"
                               \/ task[t].pc = "wait" /\ task'[t].pc = "woken"
        /\ queue'.closed /\ queue'.waiting = {} /\ Asleep' = {}
        /\ queue'.items = queue.items /\ queue'.dropped = queue.dropped
    BY <1>1, ShutWakes
  <1>4. FrameTypeOK' /\ InOrder' /\ Bounded'
    BY <1>1, <1>2, <1>3, FrameTypes, RunMoves
  <1>5. Hands'
    <2>1. Hands
      BY DEF FrameInv
    <2> QED BY <1>1, <1>3, <2>1 DEF Hands, Asleep, Finished
  <1>6. Lossless'
    <2>1. Line' = Line /\ source'.frames = source.frames
      BY <1>1, <1>3 DEF Line
    <2>2. task["consumer"].pc # "done"
      BY <1>1 DEF FrameInv, Phases, Lossless
    <2> QED BY <1>3, <2>1, <2>2 DEF FrameInv, Lossless
  <1>7. Phases'
    <2>1. /\ \A t \in Tasks : task[t].pc # "none" /\ task[t].pc # "cancelled"
          /\ task["consumer"].pc # "done"
      BY <1>1 DEF FrameInv, Phases, At, Lossless
    <2>2. task["producer"].pc \in Finished \/ task["consumer"].pc = "failed"
      BY <1>1, <2>1 DEF Finished
    <2>3. task'["producer"].pc \in Finished \/ task'["consumer"].pc = "failed"
      BY <1>3, <2>2 DEF Finished
    <2>4. \A t \in Tasks : task'[t].pc # "none" /\ task'[t].pc # "cancelled"
      BY <1>3, <2>1
    <2> QED BY <1>2, <1>3, <2>3, <2>4 DEF Phases, At
  <1>8. Results'
    BY <1>2 DEF Results
  <1> QED BY <1>4, <1>5, <1>6, <1>7, <1>8 DEF FrameInv

LEMMA JoinStep == FrameInv /\ Join => FrameInv'
  <1> SUFFICES ASSUME FrameInv, Join PROVE FrameInv'
    OBVIOUS
  <1>1. /\ run.pc = "all" /\ TasksDone /\ UNCHANGED <<setup, source, queue, task, consumed>>
        /\ run' = [pc |-> "close",
                   result |-> IF \E t \in Tasks : Real(t) THEN "failure" ELSE "ok"]
    BY DEF Join
  <1>2. /\ run' \in Run /\ run'.pc = "close" /\ run'.result \in {"ok", "failure"}
        /\ run'.result = "ok" => \A t \in Tasks : ~Real(t)
    BY <1>1 DEF Run
  <1>3. FrameTypeOK' /\ InOrder' /\ Bounded'
    BY <1>1, <1>2, FrameTypes, RunMoves
  <1>4. Hands' /\ Lossless'
    BY <1>1 DEF FrameInv, Hands, Lossless, Line
  <1>5. Phases'
    BY <1>1, <1>2 DEF FrameInv, Phases, TasksDone
  <1>6. Results'
    BY <1>1, <1>2 DEF FrameInv, Phases, Results, TasksDone, At, Real
  <1> QED BY <1>3, <1>4, <1>5, <1>6 DEF FrameInv

LEMMA CancelRunStep == FrameInv /\ CancelRun => FrameInv'
  <1> SUFFICES ASSUME FrameInv, CancelRun PROVE FrameInv'
    OBVIOUS
  <1> USE DEF Tasks
  <1>1. /\ UNCHANGED <<setup, source, consumed>>
        /\ task' = [t \in Tasks |-> IF task[t].pc \in Finished THEN task[t]
                                    ELSE Ended(task[t], "cancelled", "none")]
        /\ queue' = [queue EXCEPT !.waiting = {}]
        /\ run' = [pc |-> "cleanup", result |-> "cancelled"]
    BY DEF CancelRun, Ends, Ended
  <1>2. run' \in Run /\ run'.pc = "cleanup" /\ run'.result = "cancelled"
    BY <1>1 DEF Run
  <1>3. /\ queue' \in Queue /\ queue'.items = queue.items /\ queue'.waiting = {}
        /\ queue'.dropped = queue.dropped /\ queue'.closed = queue.closed
    BY <1>1, FrameTypes DEF Queue
  <1>4. \A t \in Tasks :
          /\ task'[t] \in Task /\ task'[t].pc \in Finished
          /\ \/ task'[t] = task[t]
             \/ /\ task[t].pc \notin Finished /\ task'[t].pc = "cancelled"
                /\ task'[t].hold = <<>> /\ task'[t].error = "none"
    <2> SUFFICES ASSUME NEW t \in Tasks
                 PROVE  /\ task'[t] \in Task /\ task'[t].pc \in Finished
                        /\ \/ task'[t] = task[t]
                           \/ /\ task[t].pc \notin Finished /\ task'[t].pc = "cancelled"
                              /\ task'[t].hold = <<>> /\ task'[t].error = "none"
      OBVIOUS
    <2>1. task[t] \in Task /\ "cancelled" \in Finished
      BY FrameTypes DEF Finished
    <2>2. CASE task[t].pc \in Finished
      BY <1>1, <2>1, <2>2
    <2>3. CASE task[t].pc \notin Finished
      <3>1. task'[t] = Ended(task[t], "cancelled", "none")
        BY <1>1, <2>3
      <3> QED BY <2>1, <2>3, <3>1, TaskEnds
    <2> QED BY <2>2, <2>3
  <1>5. task' \in [Tasks -> Task] /\ {t \in Tasks : task'[t].pc = "wait"} = {}
    <2>1. task' = [t \in Tasks |-> task'[t]]
      BY <1>1
    <2> QED BY <1>4, <2>1 DEF Finished
  <1>6. FrameTypeOK' /\ InOrder' /\ Bounded'
    BY <1>1, <1>2, <1>3, <1>4, <1>5, FrameTypes, RunMoves
  <1>7. Hands'
    <2>1. Len(<<>>) = 0
      OBVIOUS
    <2> QED BY <1>1, <1>3, <1>4, <1>5, <2>1 DEF FrameInv, Hands, Finished
  <1>8. Lossless'
    <2>1. CASE task'["producer"] = task["producer"] /\ task'["consumer"] = task["consumer"]
      BY <1>1, <1>3, <2>1 DEF FrameInv, Lossless, Line
    <2>2. CASE task'["producer"].pc = "cancelled" \/ task'["consumer"].pc = "cancelled"
      <3>1. task'["consumer"].pc = "done" => task'["consumer"] = task["consumer"]
        BY <1>4
      <3> QED BY <1>3, <2>2, <3>1 DEF FrameInv, Lossless
    <2> QED BY <1>4, <2>1, <2>2
  <1>9. Phases' /\ Results'
    BY <1>2, <1>4 DEF Phases, Results, TasksDone
  <1> QED BY <1>6, <1>7, <1>8, <1>9 DEF FrameInv

LEMMA CleanUpStep == FrameInv /\ CleanUp => FrameInv'
  <1> SUFFICES ASSUME FrameInv, CleanUp PROVE FrameInv'
    OBVIOUS
  <1> USE DEF Tasks
  <1>1. /\ run.pc = "cleanup" /\ UNCHANGED <<setup, source, consumed>>
        /\ TasksDone /\ run' = [run EXCEPT !.pc = "close"] /\ Shut(task)
    BY DEF CleanUp
  <1>2. run' \in Run /\ run'.pc = "close" /\ run'.result = "cancelled"
    <2>1. run.result = "cancelled" /\ run \in Run
      BY <1>1, FrameTypes DEF FrameInv, Results
    <2> QED BY <1>1, <2>1 DEF Run
  <1>3. /\ task' \in [Tasks -> Task] /\ queue' \in Queue
        /\ \A t \in Tasks : /\ task'[t].hold = task[t].hold /\ task'[t].error = task[t].error
                            /\ \/ task'[t].pc = task[t].pc /\ task[t].pc # "wait"
                               \/ task[t].pc = "wait" /\ task'[t].pc = "woken"
        /\ queue'.closed /\ queue'.waiting = {} /\ Asleep' = {}
        /\ queue'.items = queue.items /\ queue'.dropped = queue.dropped
    BY <1>1, ShutWakes
  <1>4. \A t \in Tasks : task'[t].pc = task[t].pc /\ task'[t].pc \in Finished
    BY <1>1, <1>3 DEF TasksDone, Finished
  <1>5. FrameTypeOK' /\ InOrder' /\ Bounded'
    BY <1>1, <1>2, <1>3, FrameTypes, RunMoves
  <1>6. Hands'
    <2>1. Hands
      BY DEF FrameInv
    <2> QED BY <1>1, <1>3, <1>4, <2>1 DEF Hands, Asleep, Finished
  <1>7. Lossless'
    <2>1. Line' = Line /\ source'.frames = source.frames
      BY <1>1, <1>3 DEF Line
    <2> QED BY <1>3, <1>4, <2>1 DEF FrameInv, Lossless
  <1>8. Phases' /\ Results'
    BY <1>2, <1>3, <1>4 DEF Phases, Results, TasksDone
  <1> QED BY <1>5, <1>6, <1>7, <1>8 DEF FrameInv

LEMMA CloseStep == FrameInv /\ Close => FrameInv'
  <1> SUFFICES ASSUME FrameInv, Close PROVE FrameInv'
    OBVIOUS
  <1>1. /\ run.pc = "close" /\ UNCHANGED <<setup, queue, task, consumed>>
        /\ source' = [source EXCEPT !.state = "closed"]
        /\ run' = [run EXCEPT !.pc = "ended"]
    BY DEF Close
  <1>2. run' \in Run /\ run'.pc = "ended" /\ run'.result = run.result
    <2>1. run \in Run
      BY FrameTypes
    <2> QED BY <1>1, <2>1 DEF Run
  <1>3. source' \in Source /\ source'.state = "closed"
        /\ source'.frames = source.frames /\ source'.errors = source.errors
    BY <1>1, FrameTypes DEF Source
  <1>4. FrameTypeOK' /\ InOrder' /\ Bounded'
    BY <1>1, <1>2, <1>3, FrameTypes, RunMoves
  <1>5. Hands' /\ Lossless'
    BY <1>1, <1>3 DEF FrameInv, Hands, Lossless, Line
  <1>6. Phases'
    BY <1>1, <1>2, <1>3 DEF FrameInv, Phases, TasksDone
  <1>7. Results'
    BY <1>1, <1>2 DEF FrameInv, Results, TasksDone, At, Real
  <1> QED BY <1>4, <1>5, <1>6, <1>7 DEF FrameInv

LEMMA FrameInit == Init => FrameInv
  <1> SUFFICES ASSUME Init PROVE FrameInv
    OBVIOUS
  <1> USE DEF Tasks
  <1>1. PICK closed \in BOOLEAN :
          queue = [items |-> <<>>, closed |-> closed, dropped |-> 0, waiting |-> {}]
    BY DEF Init
  <1>2. /\ setup \in Setup /\ consumed = <<>>
        /\ source = [state |-> "created", frames |-> 0, attempts |-> 0, errors |-> 0]
        /\ task = [t \in Tasks |-> NoTask]
        /\ run = [pc |-> "start", result |-> "none"]
    BY DEF Init
  <1>3. Len(<<>>) = 0 /\ <<>> \in Seq(Frames) /\ Elements(<<>>) = {} /\ Increasing(<<>>)
    BY DEF Elements, Increasing
  <1>4. /\ NoTask \in Task /\ NoTask.pc = "none" /\ NoTask.hold = <<>> /\ NoTask.error = "none"
    BY <1>3 DEF NoTask, Task
  <1>5. /\ task \in [Tasks -> Task] /\ \A t \in Tasks : task[t] = NoTask
    BY <1>2, <1>4
  <1>6. /\ queue \in Queue /\ queue.items = <<>> /\ queue.dropped = 0 /\ queue.waiting = {}
    BY <1>1, <1>3 DEF Queue
  <1>7. /\ source \in Source /\ source.frames = 0 /\ source.errors = 0
        /\ source.state = "created"
    <2>1. 0 \in 0..MaxFrames /\ 0 \in 0..MaxAttempts /\ 0 \in 0..MaxDecodeErrors
      BY FrameNumbers
    <2> QED BY <1>2, <2>1 DEF Source
  <1>8. run \in Run /\ run.pc = "start" /\ run.result = "none"
    BY <1>2 DEF Run
  <1>9. FrameTypeOK
    BY <1>2, <1>3, <1>5, <1>6, <1>7, <1>8 DEF FrameTypeOK
  <1>10. InOrder
    <2>1. Past = {} /\ Queued = {} /\ Held("consumer") = {} /\ Held("producer") = {}
      BY <1>2, <1>3, <1>4, <1>5, <1>6 DEF Past, Queued, Held
    <2> QED BY <1>2, <1>3, <1>6, <2>1 DEF InOrder, Below
  <1>11. Hands
    <2>1. {t \in Tasks : task[t].pc = "wait"} = {} /\ source.errors < MaxDecodeErrors
      BY <1>4, <1>5, <1>7, FrameNumbers
    <2> QED BY <1>3, <1>4, <1>5, <1>6, <2>1 DEF Hands, Finished
  <1>12. Bounded
    BY <1>3, <1>6, FrameNumbers DEF Bounded
  <1>13. Lossless
    <2>1. /\ Len(task["producer"].hold) = 0 /\ Len(task["consumer"].hold) = 0
          /\ Len(queue.items) = 0 /\ Len(consumed) = 0
      BY <1>2, <1>3, <1>4, <1>5, <1>6
    <2>2. Line = 0
      BY <1>6, <2>1 DEF Line
    <2> QED BY <1>4, <1>5, <1>7, <2>2 DEF Lossless
  <1>14. Phases /\ Results
    BY <1>2, <1>6, <1>7, <1>8 DEF Phases, Results
  <1> QED BY <1>9, <1>10, <1>11, <1>12, <1>13, <1>14 DEF FrameInv

LEMMA FrameStep == FrameInv /\ [Next]_pipelineVars => FrameInv'
  <1> SUFFICES ASSUME FrameInv, [Next]_pipelineVars PROVE FrameInv'
    OBVIOUS
  <1>1. CASE Producer
    BY <1>1, ReadFrameStep, ReadNothingStep, ReconnectStep, NeverReturnsStep,
       ResumePutStep DEF Producer, Reads
  <1>2. CASE Consumer
    BY <1>2, GetStep, ConsumeStep, ConsumeFailsStep DEF Consumer
  <1>3. CASE Orchestrate
    BY <1>3, RefuseStep, OpenStep, OpenFailsStep, ShutDownStep, JoinStep, CleanUpStep, CloseStep
       DEF Orchestrate
  <1>4. CASE CancelRun
    BY <1>4, CancelRunStep
  <1>5. CASE UNCHANGED pipelineVars
    <2>1. /\ setup' = setup /\ source' = source /\ queue' = queue /\ task' = task
          /\ run' = run /\ consumed' = consumed
      BY <1>5 DEF pipelineVars
    <2>2. FrameTypeOK' /\ InOrder' /\ Bounded'
      BY <2>1, FrameTypes, RunMoves
    <2>3. Hands' /\ Lossless'
      BY <2>1 DEF FrameInv, Hands, Lossless, Line
    <2>4. Phases' /\ Results'
      BY <2>1 DEF FrameInv, Phases, Results, At, TasksDone, Real
    <2> QED BY <2>2, <2>3, <2>4 DEF FrameInv
  <1> QED BY <1>1, <1>2, <1>3, <1>4, <1>5 DEF Next

\* A step of the pipeline with its detector and tracker is one of the pipeline.
LEMMA VisionStep == [VisionNext]_vars => [Next]_pipelineVars
  <1> SUFFICES ASSUME [VisionNext]_vars PROVE [Next]_pipelineVars
    OBVIOUS
  <1>1. CASE ReadTimedFrame
    BY <1>1 DEF ReadTimedFrame, Next, Producer, Reads
  <1>2. CASE PipelineStep
    BY <1>2 DEF PipelineStep, Next, Producer, Reads, Consumer
  <1>3. CASE StartPolicy
    BY <1>3 DEF StartPolicy, pipelineVars
  <1>4. CASE WarmUp
    BY <1>4 DEF WarmUp, pipelineVars
  <1>5. CASE ConsumeFrame
    <2>1. Consume \/ ConsumeFails
      BY <1>5 DEF ConsumeFrame, Track
    <2> QED BY <2>1 DEF Next, Consumer
  <1>6. CASE CloseVision
    BY <1>6 DEF CloseVision, pipelineVars
  <1>7. CASE UNCHANGED vars
    BY <1>7 DEF vars
  <1> QED BY <1>1, <1>2, <1>3, <1>4, <1>5, <1>6, <1>7 DEF VisionNext

LEMMA InvariantOfRuns == Spec => []FrameInv
  <1>1. Init => FrameInv
    BY FrameInit
  <1>2. FrameInv /\ [Next]_pipelineVars => FrameInv'
    BY FrameStep
  <1> QED BY <1>1, <1>2, PTL DEF Spec

LEMMA InvariantOfVision == VisionSpec => []FrameInv
  <1>1. VisionInit => FrameInv
    BY FrameInit DEF VisionInit
  <1>2. FrameInv /\ [VisionNext]_vars => FrameInv'
    BY FrameStep, VisionStep
  <1> QED BY <1>1, <1>2, PTL DEF VisionSpec

-----------------------------------------------------------------------------
(* What it comes to.                                                       *)

LEMMA AllAccounted == FrameInv => FramesAccounted
  <1> SUFFICES ASSUME FrameInv PROVE FramesAccounted
    OBVIOUS
  <1> USE DEF Tasks
  <1> DEFINE a == consumed
             b == task["consumer"].hold
             c == queue.items
             d == task["producer"].hold
             line == a \o b \o c \o d
  <1>1. /\ a \in Seq(Frames) /\ b \in Seq(Frames) /\ c \in Seq(Frames) /\ d \in Seq(Frames)
        /\ Len(a) \in Nat /\ Len(b) \in Nat /\ Len(c) \in Nat /\ Len(d) \in Nat
        /\ queue.dropped \in Nat
    BY FrameTypes
  <1>2. Len(b) <= 1 /\ Len(d) <= 1
    BY DEF FrameInv, Hands
  <1>3. Increasing(a) /\ Increasing(b) /\ Increasing(c) /\ Increasing(d)
    BY <1>1, <1>2, HandIs DEF FrameInv, InOrder
  <1>4. /\ Below(Elements(a), Elements(b))
        /\ Below(Elements(a) \cup Elements(b), Elements(c))
        /\ Below(Elements(a) \cup Elements(b) \cup Elements(c), Elements(d))
    BY DEF FrameInv, InOrder, Below, Past, Held, Queued
  <1>5. Line = Len(a) + Len(b) + Len(c) + Len(d) + queue.dropped
    BY DEF Line
  <1>6. run.pc = "first" /\ ~(\E t \in Tasks : task[t].pc \in Finished) => Line = source.frames
    BY DEF FrameInv, Lossless, Hands, Finished
  <1>7. Len(c) <= QueueSize /\ (setup.policy = "block" => queue.dropped = 0)
    BY DEF FrameInv, Bounded
  <1> HIDE DEF a, b, c, d
  <1>8. /\ a \o b \in Seq(Frames) /\ Len(a \o b) = Len(a) + Len(b)
        /\ Elements(a \o b) = Elements(a) \cup Elements(b) /\ Increasing(a \o b)
    BY ONLY <1>1, <1>3, <1>4, FramesJoin
  <1> DEFINE ab == a \o b
             abc == ab \o c
  <1>9. /\ ab \in Seq(Frames) /\ Len(ab) = Len(a) + Len(b)
        /\ Elements(ab) = Elements(a) \cup Elements(b) /\ Increasing(ab)
    BY <1>8
  <1> HIDE DEF ab
  <1>10. /\ abc \in Seq(Frames) /\ Len(abc) = Len(ab) + Len(c)
         /\ Elements(abc) = Elements(ab) \cup Elements(c) /\ Increasing(abc)
    <2>1. Below(Elements(ab), Elements(c))
      BY ONLY <1>4, <1>9
    <2> QED BY ONLY <1>1, <1>3, <1>9, <2>1, FramesJoin
  <1> HIDE DEF abc
  <1>11. Len(abc \o d) = Len(abc) + Len(d) /\ Increasing(abc \o d)
    <2>1. Below(Elements(abc), Elements(d))
      BY ONLY <1>4, <1>9, <1>10
    <2> QED BY ONLY <1>1, <1>3, <1>10, <2>1, FramesJoin
  <1>12. line = abc \o d
    BY DEF ab, abc
  <1>13. Len(line) + queue.dropped = Line /\ Increasing(line)
    BY <1>1, <1>5, <1>9, <1>10, <1>11, <1>12
  <1> HIDE DEF line
  <1>14. /\ \A i, j \in DOMAIN line : i < j => line[i] < line[j]
         /\ Len(queue.items) <= QueueSize
         /\ setup.policy = "block" => queue.dropped = 0
         /\ run.pc = "first" /\ ~(\E t \in Tasks : task[t].pc \in Finished)
              => Len(line) + queue.dropped = source.frames
    BY <1>6, <1>7, <1>13 DEF Increasing, c
  <1> QED BY <1>14 DEF FramesAccounted, line, a, b, c, d

LEMMA AllClosed == FrameInv => NothingLeftOpen
  BY DEF FrameInv, Phases, Hands, NothingLeftOpen, TasksDone, Finished

LEMMA AllTold == ASSUME "closed" \notin Failures PROVE FrameInv => ReturnTellsTruth
  <1> SUFFICES ASSUME FrameInv, run.pc \in {"close", "ended"}
               PROVE  /\ run.result = "ok" =>
                           /\ \A t \in Tasks : At(t, "done")
                           /\ Len(consumed) + queue.dropped = source.frames
                      /\ (run.result # "cancelled" /\ \E t \in Tasks : At(t, "failed"))
                           => run.result = "failure"
    BY DEF ReturnTellsTruth
  <1> USE DEF Tasks
  <1>1. \A t \in Tasks : task[t].error # "closed"
    BY DEF FrameInv, Hands
  <1>2. run.result = "ok" => \A t \in Tasks : task[t].pc = "done"
    BY <1>1 DEF FrameInv, Results, Real, At, TasksDone, Finished
  <1>3. run.result \in {"ok", "failure", "cancelled"}
    <2>1. run.result \in {"none", "ok", "failure", "cancelled"} /\ run.result # "none"
      BY DEF FrameInv, FrameTypeOK, Run, Results
    <2> QED BY <2>1
  <1>4. ASSUME run.result = "ok" PROVE Len(consumed) + queue.dropped = source.frames
    <2>1. /\ task["producer"].pc = "done" /\ task["consumer"].pc = "done"
      BY <1>2, <1>4
    <2>2. Line = source.frames /\ queue.items = <<>>
      BY <1>1, <2>1 DEF FrameInv, Lossless
    <2>3. /\ Len(task["producer"].hold) = 0 /\ Len(task["consumer"].hold) = 0
          /\ Len(queue.items) = 0
      BY <2>1, <2>2 DEF FrameInv, Hands
    <2>4. Len(consumed) \in Nat /\ queue.dropped \in Nat
      BY FrameTypes
    <2> QED BY <2>2, <2>3, <2>4 DEF Line
  <1> QED BY <1>2, <1>3, <1>4 DEF At

\* Every variable keeps its type, whatever the run does: what the tasks have in
\* hand, the queue and the budgets of the source (FrameTypeOK).
THEOREM TypeCorrect == Spec => []FrameTypeOK
  <1>1. FrameInv => FrameTypeOK
    BY DEF FrameInv
  <1> QED BY <1>1, InvariantOfRuns, PTL

\* However puts, gets, evictions, failures and the shutdown interleave, for a
\* queue of any size: the frames that were consumed, in hand or queued are in
\* the order they were produced, the queue keeps its limit, a blocking queue
\* drops nothing, and while both tasks are at work every frame that was read is
\* in one of these places or was counted as dropped (queue.py:128-157).
THEOREM FramesKeepTheirOrder == Spec => []FramesAccounted
  <1>1. FrameInv => FramesAccounted
    BY AllAccounted
  <1> QED BY <1>1, InvariantOfRuns, PTL

\* The same of the pipeline that detects and tracks in consume().
THEOREM VisionKeepsTheirOrder == VisionSpec => []FramesAccounted
  <1>1. FrameInv => FramesAccounted
    BY AllAccounted
  <1> QED BY <1>1, InvariantOfVision, PTL

\* run() that is over has left no task, no sleeper, and neither queue nor source
\* open, whatever it was that ended it (pipeline.py:115-121).
THEOREM NothingGoesOn == VisionSpec => []NothingLeftOpen
  <1>1. FrameInv => NothingLeftOpen
    BY AllClosed
  <1> QED BY <1>1, InvariantOfVision, PTL

\* And the caller is told how it ended: a normal return means that both tasks
\* came to their end and every frame was consumed or counted, a failed task that
\* the failure was raised; provided that consume() never raises the queue's own
\* QueueClosedError, which passes for the end of the queue (pipeline.py:91-99).
THEOREM RunTellsTheTruth == "closed" \notin Failures => (VisionSpec => []RunIsTruthful)
  <1> SUFFICES ASSUME "closed" \notin Failures PROVE VisionSpec => []RunIsTruthful
    OBVIOUS
  <1>1. FrameInv => RunIsTruthful
    BY AllClosed, AllTold DEF RunIsTruthful
  <1> QED BY <1>1, InvariantOfVision, PTL

-----------------------------------------------------------------------------
(* Tracks.  What a frame makes of them is a fold over the targets the      *)
(* backend lists; an induction over its steps is the least number at which *)
(* it could fail.                                                          *)

LEMMA LeastNatural ==
    ASSUME NEW T, T \subseteq Nat, T # {}
    PROVE  \E x \in T : \A y \in T : x <= y
  <1> DEFINE R == {ss \in Nat \X Nat : ss[1] < ss[2]}
  <1>1. IsWellFoundedOn(R, Nat)
    BY NatLessThanWellFounded DEF OpToRel
  <1>2. \E x \in T : \A y \in T : ~(<<y, x>> \in R)
    <2> HIDE DEF R
    <2> QED BY <1>1, WFMin DEF R
  <1>3. PICK x \in T : \A y \in T : ~(<<y, x>> \in R)
    BY <1>2
  <1>4. \A y \in T : x <= y
    <2> TAKE y \in T
    <2>1. x \in Nat /\ y \in Nat
      BY <1>3
    <2>2. y < x => <<y, x>> \in R
      BY <2>1
    <2> QED BY <1>3, <2>1, <2>2
  <1> QED BY <1>3, <1>4

LEMMA MaxIs ==
    ASSUME NEW S, NEW x \in S, S \subseteq Int, \A y \in S : x >= y
    PROVE  Max(S) = x
  <1>1. Max(S) \in S /\ \A y \in S : Max(S) >= y
    BY DEF Max
  <1>2. Max(S) \in Int /\ x \in Int /\ x >= Max(S) /\ Max(S) >= x
    BY <1>1
  <1> QED BY <1>2

\* The class a target is told with.
ClassOf(i, before, targets, detections, matched) ==
    IF matched[i] # 0 THEN detections[matched[i]] ELSE before.class[targets[i].id]

\* What the adapter starts from, and what it makes of the target i.
Nothing(before) == [tracker |-> before, failed |-> FALSE, told |-> [i \in Ids |-> "nothing"]]

Emit(d, i, before, targets, detections, matched) ==
    EmitTarget(targets[i], ClassOf(i, before, targets, detections, matched), d)

\* What is done after i of n targets is e[i].
Emitted(e, n, before, targets, detections, matched) ==
    /\ e[0] = Nothing(before)
    /\ \A i \in 1 .. n : e[i] = Emit(e[i - 1], i, before, targets, detections, matched)
    /\ Translate(before, targets, detections, matched)
         = IF e[n].failed THEN e[n]
           ELSE EmitTerminated(e[n], {targets[i].id : i \in DOMAIN targets})

LEMMA FoldOfTargets ==
    ASSUME NEW n \in Nat, NEW targets, DOMAIN targets = 1 .. n,
           NEW before, NEW detections, NEW matched
    PROVE  \E e : Emitted(e, n, before, targets, detections, matched)
  <1> DEFINE base == Nothing(before)
             Op(d, i) == Emit(d, i, before, targets, detections, matched)
             seq == [i \in DOMAIN targets |-> i]
             Body(g, k) ==
               [s \in SUBSET (1 .. k) |->
                   IF s = {} THEN base ELSE Op(g[s \ {Max(s)}], seq[Max(s)])]
             Bad == {k \in 0 .. n : ~\E g : g = Body(g, k)}
             next(g, k) == [s \in SUBSET (1 .. (k + 1)) |->
                 IF k + 1 \in s THEN Op(g[s \ {k + 1}], seq[k + 1]) ELSE g[s]]
             empty == [s \in SUBSET (1 .. 0) |-> base]
  <1>1. DOMAIN seq = 1 .. n /\ \A i \in 1 .. n : seq[i] = i
    OBVIOUS
  <1> HIDE DEF Op, seq
  <1>2. empty = Body(empty, 0)
    <2> HIDE DEF base
    <2> QED OBVIOUS
  <1>3. ASSUME NEW k \in Nat, NEW g, g = Body(g, k)
        PROVE  next(g, k) = Body(next(g, k), k + 1)
    <2> DEFINE h == next(g, k)
    <2>1. ASSUME NEW s \in SUBSET (1 .. (k + 1)), k + 1 \in s
          PROVE  h[s] = Body(h, k + 1)[s]
      <3>1. Max(s) = k + 1
        <4>1. s \subseteq Int /\ \A y \in s : k + 1 >= y
          OBVIOUS
        <4> QED BY <2>1, <4>1, MaxIs
      <3>2. s \ {k + 1} \in SUBSET (1 .. (k + 1)) /\ k + 1 \notin s \ {k + 1}
        OBVIOUS
      <3>3. h[s \ {k + 1}] = g[s \ {k + 1}]
        BY <3>2
      <3>4. h[s] = Op(g[s \ {k + 1}], seq[k + 1])
        BY <2>1
      <3>5. Body(h, k + 1)[s] = Op(h[s \ {Max(s)}], seq[Max(s)])
        <4> HIDE DEF h
        <4> QED BY <2>1
      <3> HIDE DEF h, Body
      <3> QED BY <3>1, <3>3, <3>4, <3>5
    <2>2. ASSUME NEW s \in SUBSET (1 .. (k + 1)), k + 1 \notin s
          PROVE  h[s] = Body(h, k + 1)[s]
      <3>1. s \in SUBSET (1 .. k)
        BY <2>2
      <3>2. h[s] = g[s]
        BY <2>2
      <3>3. g[s] = IF s = {} THEN base ELSE Op(g[s \ {Max(s)}], seq[Max(s)])
        <4>1. g[s] = Body(g, k)[s]
          BY <1>3
        <4> QED BY <3>1, <4>1
      <3>4. h[s \ {Max(s)}] = g[s \ {Max(s)}]
        BY <2>2
      <3>5. Body(h, k + 1)[s] = IF s = {} THEN base ELSE Op(h[s \ {Max(s)}], seq[Max(s)])
        <4> HIDE DEF h
        <4> QED OBVIOUS
      <3> HIDE DEF h, Body
      <3> QED BY <3>2, <3>3, <3>4, <3>5
    <2>3. \A s \in SUBSET (1 .. (k + 1)) : h[s] = Body(h, k + 1)[s]
      BY <2>1, <2>2
    <2> QED BY <2>3
  <1>4. Bad = {}
    <2> SUFFICES ASSUME Bad # {} PROVE FALSE
      OBVIOUS
    <2>1. PICK k \in Bad : \A y \in Bad : k <= y
      <3>1. Bad \subseteq Nat
        OBVIOUS
      <3> HIDE DEF Bad
      <3> QED BY <3>1, LeastNatural
    <2>2. k # 0
      BY <1>2
    <2>3. k - 1 \in Nat /\ k - 1 \in 0 .. n /\ k - 1 \notin Bad
      <3>1. k \in 0 .. n
        OBVIOUS
      <3>2. k - 1 \in 0 .. n /\ ~(k <= k - 1)
        BY <2>2, <3>1
      <3> HIDE DEF Bad
      <3> QED BY <2>1, <3>2
    <2>4. PICK g : g = Body(g, k - 1)
      BY <2>3
    <2>5. next(g, k - 1) = Body(next(g, k - 1), k)
      <3> HIDE DEF Body, next
      <3> QED BY <1>3, <2>3, <2>4
    <2> HIDE DEF Body, next
    <2> QED BY <2>1, <2>5
  <1> DEFINE G == CHOOSE g : g = Body(g, n)
  <1>5. G = Body(G, n)
    <2>1. \E g : g = Body(g, n)
      <3>1. n \in 0 .. n
        OBVIOUS
      <3>2. n \notin Bad
        BY <1>4
      <3> QED BY <3>1, <3>2
    <2> HIDE DEF Body
    <2> QED BY <2>1
  <1>6. Translate(before, targets, detections, matched)
          = IF G[1 .. n].failed THEN G[1 .. n]
            ELSE EmitTerminated(G[1 .. n], {targets[i].id : i \in DOMAIN targets})
    <2>1. FoldLeftDomain(LAMBDA d, i : Op(d, i), base, targets) = G[1 .. n]
      BY <1>1 DEF FoldLeftDomain, FoldLeft, MapThenFoldSet, seq
    <2> QED BY <2>1 DEF Translate, Op, Emit, ClassOf, Nothing
  <1> DEFINE e == [i \in 0 .. n |-> G[1 .. i]]
  <1>7. \A s \in SUBSET (1 .. n) :
            G[s] = IF s = {} THEN base ELSE Op(G[s \ {Max(s)}], seq[Max(s)])
    <2> HIDE DEF G
    <2> QED BY <1>5
  <1> HIDE DEF G, base
  <1>8. e[0] = base
    <2>1. 1 .. 0 = {} /\ {} \in SUBSET (1 .. n)
      OBVIOUS
    <2>2. e[0] = G[1 .. 0]
      OBVIOUS
    <2>3. G[{}] = base
      <3> HIDE DEF e
      <3> QED BY <1>7, <2>1
    <2> QED BY <2>1, <2>2, <2>3
  <1>9. ASSUME NEW i \in 1 .. n PROVE e[i] = Op(e[i - 1], seq[i])
    <2>1. Max(1 .. i) = i /\ 1 .. i # {} /\ 1 .. i \in SUBSET (1 .. n)
      <3>1. i \in 1 .. i /\ 1 .. i \subseteq Int /\ \A y \in 1 .. i : i >= y
        OBVIOUS
      <3>2. Max(1 .. i) = i
        BY <3>1, MaxIs
      <3>3. 1 .. i \in SUBSET (1 .. n)
        OBVIOUS
      <3> QED BY <3>1, <3>2, <3>3
    <2>2. (1 .. i) \ {i} = 1 .. (i - 1)
      OBVIOUS
    <2>3. e[i] = G[1 .. i] /\ e[i - 1] = G[1 .. (i - 1)]
      OBVIOUS
    <2> HIDE DEF e
    <2> QED BY <1>7, <2>1, <2>2, <2>3
  <1>10. e[n] = G[1 .. n]
    OBVIOUS
  <1> HIDE DEF e
  <1> QED BY <1>1, <1>6, <1>8, <1>9, <1>10 DEF Emitted, Op, base
\* What is done when k targets were emitted, if none has failed.
Carried(d, k, before, targets) ==
    /\ d = [tracker |-> d.tracker, failed |-> d.failed, told |-> d.told]
    /\ d.failed \in BOOLEAN
    /\ ~d.failed =>
         /\ d.tracker = [last |-> before.last, class |-> d.tracker.class]
         /\ d.tracker.class = [x \in Ids |-> d.tracker.class[x]]
         /\ d.told = [x \in Ids |-> d.told[x]]
         /\ \A x \in Ids :
              /\ before.class[x] # Untracked => d.tracker.class[x] = before.class[x]
              /\ (\E j \in 1 .. k : targets[j].id = x) =>
                   d.told[x] \in {"active", "lost"} /\ d.tracker.class[x] # Untracked
              /\ (\A j \in 1 .. k : targets[j].id # x) =>
                   d.told[x] = "nothing" /\ d.tracker.class[x] = before.class[x]

ReplacedBy(d, t, u) == [[d EXCEPT !.tracker = t] EXCEPT !.told = u]

LEMMA Replaced ==
    ASSUME NEW x, NEW y, NEW z, NEW t, NEW u,
           NEW d, d = [tracker |-> x, failed |-> y, told |-> z]
    PROVE  ReplacedBy(d, t, u) = [tracker |-> t, failed |-> y, told |-> u]
  <1> DEFINE g == [d EXCEPT !.tracker = t]
  <1>1. g = [tracker |-> t, failed |-> y, told |-> z]
    OBVIOUS
  <1> HIDE DEF g
  <1>2. [g EXCEPT !.told = u] = [tracker |-> t, failed |-> y, told |-> u]
    BY <1>1
  <1> QED BY <1>2 DEF g, ReplacedBy

\* The two fields that emitting a target changes.
MarkedAs(d, C, T, last, failed, id, class, sign) ==
    [d EXCEPT !.tracker.class[id] = class, !.told[id] = sign]
      = [tracker |-> [last |-> last, class |-> [C EXCEPT ![id] = class]],
         failed |-> failed, told |-> [T EXCEPT ![id] = sign]]

LEMMA Marked ==
    ASSUME NEW C, NEW T, NEW last, NEW failed, NEW id \in Ids, NEW class, NEW sign,
           C = [x \in Ids |-> C[x]], T = [x \in Ids |-> T[x]],
           NEW d, d = [tracker |-> [last |-> last, class |-> C], failed |-> failed, told |-> T]
    PROVE  MarkedAs(d, C, T, last, failed, id, class, sign)
  <1> DEFINE D == [C EXCEPT ![id] = class]
             U == [T EXCEPT ![id] = sign]
  <1>1. d.tracker = [last |-> last, class |-> C] /\ d.told = T /\ d.failed = failed
    OBVIOUS
  <1>2. [d.tracker EXCEPT !.class[id] = class] = [last |-> last, class |-> D]
    BY <1>1
  <1>3. [d EXCEPT !.tracker.class[id] = class, !.told[id] = sign]
          = [[d EXCEPT !.tracker = [d.tracker EXCEPT !.class[id] = class]] EXCEPT !.told = U]
    BY <1>1
  <1> DEFINE t == [d.tracker EXCEPT !.class[id] = class]
  <1> HIDE DEF t
  <1>4. [[d EXCEPT !.tracker = t] EXCEPT !.told = U]
          = [tracker |-> t, failed |-> failed, told |-> U]
    <2> HIDE DEF U
    <2>1. ReplacedBy(d, t, U) = [tracker |-> t, failed |-> failed, told |-> U]
      BY Replaced
    <2> QED BY <2>1 DEF ReplacedBy
  <1>5. t = [last |-> last, class |-> D]
    BY <1>2 DEF t
  <1> HIDE DEF D, U
  <1>6. [tracker |-> t, failed |-> failed, told |-> U]
          = [tracker |-> [last |-> last, class |-> D], failed |-> failed, told |-> U]
    BY <1>5
  <1>7. [[d EXCEPT !.tracker = [d.tracker EXCEPT !.class[id] = class]] EXCEPT !.told = U]
          = [[d EXCEPT !.tracker = t] EXCEPT !.told = U]
    BY DEF t
  <1> QED BY <1>3, <1>4, <1>6, <1>7 DEF D, U, MarkedAs

LEMMA EmitCarries ==
    ASSUME AllowClassSwitch = FALSE, NEW k \in Nat, NEW d, NEW before, NEW targets, NEW class,
           targets[k + 1].id \in Ids, Carried(d, k, before, targets)
    PROVE  Carried(EmitTarget(targets[k + 1], class, d), k + 1, before, targets)
  <1> DEFINE id == targets[k + 1].id
             sign == IF targets[k + 1].lost THEN "lost" ELSE "active"
             e == EmitTarget(targets[k + 1], class, d)
  <1>1. CASE d.failed \/ Fails(d.tracker, id, class)
    <2>1. e = [d EXCEPT !.failed = TRUE]
      BY <1>1 DEF EmitTarget
    <2>2. e = [tracker |-> d.tracker, failed |-> TRUE, told |-> d.told]
      BY <2>1 DEF Carried
    <2> HIDE DEF e
    <2>3. e.failed = TRUE /\ e.tracker = d.tracker /\ e.told = d.told
      BY <2>2
    <2>4. e = [tracker |-> e.tracker, failed |-> e.failed, told |-> e.told] /\ e.failed \in BOOLEAN
      BY <2>2, <2>3
    <2> QED BY <2>3, <2>4 DEF Carried, e
  <1>2. CASE ~d.failed /\ ~Fails(d.tracker, id, class)
    <2> DEFINE C == d.tracker.class
               T == d.told
    <2>1. /\ d = [tracker |-> [last |-> before.last, class |-> C], failed |-> d.failed, told |-> T]
          /\ C = [x \in Ids |-> C[x]] /\ T = [x \in Ids |-> T[x]]
      BY <1>2 DEF Carried
    <2>2. e = [d EXCEPT !.tracker.class[id] = class, !.told[id] = sign]
      BY <1>2 DEF EmitTarget
    <2> HIDE DEF e, sign
    <2>3. /\ e.tracker = [last |-> before.last, class |-> [C EXCEPT ![id] = class]]
          /\ e.failed = d.failed /\ e.told = [T EXCEPT ![id] = sign]
          /\ e = [tracker |-> e.tracker, failed |-> e.failed, told |-> e.told]
      <3> HIDE DEF C, T
      <3>1. id \in Ids
        OBVIOUS
      <3> HIDE DEF id
      <3> DEFINE last == before.last
                 failed == d.failed
      <3>2. /\ C = [x \in Ids |-> C[x]] /\ T = [x \in Ids |-> T[x]]
            /\ d = [tracker |-> [last |-> last, class |-> C], failed |-> failed, told |-> T]
        BY <2>1
      <3> HIDE DEF last, failed, C, T, id
      <3>3. MarkedAs(d, C, T, last, failed, id, class, sign)
        BY <3>1, <3>2, Marked
      <3>4. e = [tracker |-> [last |-> before.last, class |-> [C EXCEPT ![id] = class]],
                 failed |-> d.failed, told |-> [T EXCEPT ![id] = sign]]
        BY <2>2, <3>3 DEF last, failed, MarkedAs
      <3> QED BY <3>4
    <2>4. /\ e.tracker.class = [C EXCEPT ![id] = class]
          /\ e.tracker = [last |-> before.last, class |-> e.tracker.class]
      BY <2>3
    <2>5. class # Untracked /\ C[id] \in {Untracked, class}
      BY <1>2 DEF Fails
    <2>6. ASSUME NEW x \in Ids
          PROVE  /\ e.tracker.class[x] = IF x = id THEN class ELSE C[x]
                 /\ e.told[x] = IF x = id THEN sign ELSE T[x]
      <3> HIDE DEF C, T
      <3> QED BY <2>1, <2>3, <2>4
    <2>7. /\ e.tracker.class = [x \in Ids |-> e.tracker.class[x]]
          /\ e.told = [x \in Ids |-> e.told[x]]
      <3> HIDE DEF C, T
      <3> QED BY <2>1, <2>3, <2>4
    <2>8. \A x \in Ids :
            /\ before.class[x] # Untracked => C[x] = before.class[x]
            /\ (\E j \in 1 .. k : targets[j].id = x) =>
                 T[x] \in {"active", "lost"} /\ C[x] # Untracked
            /\ (\A j \in 1 .. k : targets[j].id # x) =>
                 T[x] = "nothing" /\ C[x] = before.class[x]
      BY <1>2 DEF Carried
    <2>9. sign \in {"active", "lost"} /\ id \in Ids
      BY DEF sign
    <2> HIDE DEF C, T
    <2>10. ASSUME NEW x \in Ids
           PROVE  /\ before.class[x] # Untracked => e.tracker.class[x] = before.class[x]
                  /\ (\E j \in 1 .. (k + 1) : targets[j].id = x) =>
                       e.told[x] \in {"active", "lost"} /\ e.tracker.class[x] # Untracked
                  /\ (\A j \in 1 .. (k + 1) : targets[j].id # x) =>
                       e.told[x] = "nothing" /\ e.tracker.class[x] = before.class[x]
      <3>1. CASE x = id
        <4>1. before.class[x] # Untracked => e.tracker.class[x] = before.class[x]
          BY <2>5, <2>6, <2>8, <3>1
        <4>2. k + 1 \in 1 .. (k + 1)
          OBVIOUS
        <4> QED BY <2>5, <2>6, <2>9, <3>1, <4>1, <4>2
      <3>2. CASE x # id
        <4>1. \A j \in 1 .. (k + 1) : targets[j].id = x => j \in 1 .. k
          BY <3>2
        <4>2. \A j \in 1 .. k : j \in 1 .. (k + 1)
          OBVIOUS
        <4>3. e.tracker.class[x] = C[x] /\ e.told[x] = T[x]
          BY <2>6, <3>2
        <4> QED BY <2>8, <4>1, <4>2, <4>3
      <3> QED BY <3>1, <3>2
    <2> QED BY <1>2, <2>3, <2>4, <2>7, <2>10 DEF Carried, e
  <1> QED BY <1>1, <1>2

\* What a frame makes of a tracker, if its targets could be translated.
Translates(before, listed, done) ==
    /\ done.tracker = [last |-> before.last, class |-> done.tracker.class]
    /\ done.tracker.class = [x \in Ids |-> done.tracker.class[x]]
    /\ \A x \in Ids :
         /\ x \in listed =>
              /\ done.told[x] \in {"active", "lost"} /\ done.tracker.class[x] # Untracked
              /\ before.class[x] # Untracked => done.tracker.class[x] = before.class[x]
         /\ x \notin listed =>
              /\ done.tracker.class[x] = Untracked
              /\ done.told[x] = IF before.class[x] # Untracked THEN "terminated" ELSE "nothing"

LEMMA TranslateTells ==
    ASSUME AllowClassSwitch = FALSE, NEW n \in Nat, NEW targets, DOMAIN targets = 1 .. n,
           \A i \in 1 .. n : targets[i].id \in Ids,
           NEW before, NEW detections, NEW matched,
           before = [last |-> before.last, class |-> before.class],
           before.class = [x \in Ids |-> before.class[x]],
           ~Translate(before, targets, detections, matched).failed
    PROVE  Translates(before, {targets[i].id : i \in DOMAIN targets},
                      Translate(before, targets, detections, matched))
  <1>1. PICK e : Emitted(e, n, before, targets, detections, matched)
    BY FoldOfTargets
  <1> DEFINE Bad == {i \in 0 .. n : ~Carried(e[i], i, before, targets)}
  <1>2. Carried(e[0], 0, before, targets)
    <2>1. e[0] = [tracker |-> before, failed |-> FALSE, told |-> [i \in Ids |-> "nothing"]]
      BY <1>1 DEF Emitted, Nothing
    <2>2. /\ e[0].tracker = before /\ e[0].failed = FALSE
          /\ e[0].told = [i \in Ids |-> "nothing"]
      BY <2>1
    <2>3. e[0] = [tracker |-> e[0].tracker, failed |-> e[0].failed, told |-> e[0].told]
      BY <2>1, <2>2
    <2>4. \A x \in Ids : e[0].told[x] = "nothing"
      BY <2>2
    <2>5. e[0].told = [x \in Ids |-> e[0].told[x]]
      BY <2>2, <2>4
    <2>6. ~\E j \in 1 .. 0 : targets[j].id \in Ids
      OBVIOUS
    <2> QED BY <2>2, <2>3, <2>4, <2>5, <2>6 DEF Carried
  <1>3. ASSUME NEW i \in 1 .. n, Carried(e[i - 1], i - 1, before, targets)
        PROVE  Carried(e[i], i, before, targets)
    <2> DEFINE k == i - 1
               class == ClassOf(i, before, targets, detections, matched)
    <2>1. k \in Nat /\ k + 1 = i
      OBVIOUS
    <2>2. e[i] = EmitTarget(targets[k + 1], class, e[k])
      BY <1>1, <2>1 DEF Emitted, Emit
    <2>3. targets[k + 1].id \in Ids
      BY <2>1
    <2> HIDE DEF k, class
    <2>4. Carried(e[k], k, before, targets)
      BY <1>3 DEF k
    <2> DEFINE d == e[k]
    <2>5. k \in Nat /\ targets[k + 1].id \in Ids /\ Carried(d, k, before, targets)
      BY <2>1, <2>3, <2>4
    <2> HIDE DEF d
    <2>6. Carried(EmitTarget(targets[k + 1], class, d), k + 1, before, targets)
      BY <2>5, EmitCarries
    <2> QED BY <2>1, <2>2, <2>6 DEF d
  <1>4. Bad = {}
    <2> SUFFICES ASSUME Bad # {} PROVE FALSE
      OBVIOUS
    <2>1. PICK k \in Bad : \A y \in Bad : k <= y
      <3>1. Bad \subseteq Nat
        OBVIOUS
      <3> HIDE DEF Bad
      <3> QED BY <3>1, LeastNatural
    <2>2. k \in 1 .. n
      BY <1>2
    <2>3. k - 1 \in 0 .. n /\ ~(k <= k - 1)
      BY <2>2
    <2>4. Carried(e[k - 1], k - 1, before, targets)
      BY <2>1, <2>3
    <2> QED BY <1>3, <2>1, <2>2, <2>4
  <1>5. Carried(e[n], n, before, targets)
    <2>1. n \in 0 .. n
      OBVIOUS
    <2> QED BY <1>4, <2>1
  <1> HIDE DEF Bad
  <1> DEFINE present == {targets[i].id : i \in DOMAIN targets}
             done == Translate(before, targets, detections, matched)
             d == e[n]
             gone == Seen(d.tracker) \ present
             C == d.tracker.class
             T == d.told
             D == [i \in Ids |-> IF i \in gone THEN Untracked ELSE C[i]]
             U == [i \in Ids |-> IF i \in gone THEN "terminated" ELSE T[i]]
  <1>6. ~d.failed /\ done = EmitTerminated(d, present)
    BY <1>1 DEF Emitted
  <1> HIDE DEF done
  <1>7. /\ d = [tracker |-> [last |-> before.last, class |-> C], failed |-> d.failed, told |-> T]
        /\ C = [x \in Ids |-> C[x]] /\ T = [x \in Ids |-> T[x]]
        /\ \A x \in Ids :
              /\ before.class[x] # Untracked => C[x] = before.class[x]
              /\ (\E j \in 1 .. n : targets[j].id = x) =>
                   T[x] \in {"active", "lost"} /\ C[x] # Untracked
              /\ (\A j \in 1 .. n : targets[j].id # x) =>
                   T[x] = "nothing" /\ C[x] = before.class[x]
    BY <1>5, <1>6 DEF Carried
  <1>8. /\ done.tracker = [last |-> before.last, class |-> D]
        /\ done.told = U
    <2>1. done = [d EXCEPT !.told = U, !.tracker.class = D]
      BY <1>6, Zenon DEF EmitTerminated, gone
    <2> HIDE DEF C, T, D, U, d
    <2> QED BY <1>7, <2>1
  <1>9. \A x \in Ids : x \in present <=> \E j \in 1 .. n : targets[j].id = x
    OBVIOUS
  <1>10. \A x \in Ids : x \in gone <=> C[x] # Untracked /\ x \notin present
    BY DEF Seen
  <1>11. \A x \in Ids : /\ done.tracker.class[x] = IF x \in gone THEN Untracked ELSE C[x]
                        /\ done.told[x] = IF x \in gone THEN "terminated" ELSE T[x]
    <2> HIDE DEF gone, C, T
    <2> QED BY <1>8
  <1>12. /\ done.tracker = [last |-> before.last, class |-> done.tracker.class]
         /\ done.tracker.class = [x \in Ids |-> done.tracker.class[x]]
    <2> HIDE DEF gone, C, T
    <2> QED BY <1>8
  <1> HIDE DEF C, T, D, U, d, gone, present
  <1>13. Translates(before, present, done)
    BY <1>7, <1>9, <1>10, <1>11, <1>12 DEF Translates
  <1> QED BY <1>13 DEF present, done
\* The consumer has not come to its end.
Alive == task["consumer"].pc \notin Finished

\* As long as it has not, the tracker, the backend and what was told of the tracks
\* are the same story: those the tracker has seen are those the backend follows and
\* those that were told of the last frame, in the class the tracker remembers, and
\* whoever was told to have ended has an id that is not given out again.
OneStory ==
    /\ tracker = [last |-> tracker.last, class |-> tracker.class]
    /\ tracker.class = [i \in Ids |-> tracker.class[i]]
    /\ backend.issued \in Nat /\ backend.held = Seen(tracker)
    /\ \A i \in backend.held : i <= backend.issued
    /\ \A i \in Ids :
         /\ Follows(track[i]) <=> i \in Seen(tracker)
         /\ Follows(track[i]) =>
              /\ track[i].class = tracker.class[i] /\ tracker.last # <<>>
              /\ track[i].index = tracker.last[1].index /\ track[i].time = tracker.last[1].time
         /\ track[i].state = "terminated" => i <= backend.issued
         /\ track[i].state \in {"nothing", "active", "lost", "terminated"}

StoryInv == /\ detector.loaded => detector.device # None
            /\ Alive => OneStory

LEMMA AliveBefore ==
    ASSUME FrameInv, [Next]_pipelineVars, ~Alive
    PROVE  ~Alive'
  <1> USE DEF Tasks, At
  <1>1. /\ task \in [Tasks -> Task] /\ task["consumer"].pc \in Finished
        /\ queue.waiting = {t \in Tasks : task[t].pc = "wait"}
        /\ run.pc = "start" => task["consumer"].pc = "none"
    BY DEF FrameInv, Hands, FrameTypeOK, Alive, Phases, NoTask
  <1>2. /\ "wait" \notin Finished /\ "none" \notin Finished
        /\ "get" \notin Finished /\ "woken" \notin Finished /\ "consume" \notin Finished
    BY DEF Finished
  <1>3. ASSUME task'["consumer"] = task["consumer"] PROVE ~Alive'
    BY <1>1, <1>3 DEF Alive
  <1>4. ASSUME NEW r, task' = [task EXCEPT !["producer"] = r]
        PROVE  task'["consumer"] = task["consumer"]
    BY <1>1, <1>4
  <1>5. ASSUME NEW r, task' \in Notified([task EXCEPT !["producer"] = r])
        PROVE  task'["consumer"] = task["consumer"]
    <2>1. "consumer" \notin queue.waiting
      BY <1>1, <1>2
    <2> DEFINE g == [task EXCEPT !["producer"] = r]
    <2>2. g["consumer"] = task["consumer"] /\ DOMAIN g = Tasks
      BY <1>1
    <2> HIDE DEF g
    <2>3. \/ task' = g
          \/ \E t \in queue.waiting : task' = [g EXCEPT ![t].pc = "woken"]
      BY <1>5 DEF Notified, g
    <2> QED BY <2>1, <2>2, <2>3
  <1>6. ASSUME NEW f, Put(f) PROVE task'["consumer"] = task["consumer"]
    <2>1. CASE Admit(f)
      <3>1. PICK r : task' \in Notified([task EXCEPT !["producer"] = r])
        BY <2>1 DEF Admit
      <3> QED BY <1>5, <3>1
    <2>2. CASE ~Admit(f)
      <3>1. \E r : task' = [task EXCEPT !["producer"] = r]
        BY <1>6, <2>2 DEF Put, Sleep
      <3> QED BY <1>4, <3>1
    <2> QED BY <2>1, <2>2
  <1>7. ASSUME NEW e, StopProducing(e) PROVE task'["consumer"] = task["consumer"]
    BY <1>4, <1>7 DEF StopProducing
  <1>8. ASSUME Producer PROVE task'["consumer"] = task["consumer"]
    <2>1. CASE ReadFrame \/ ResumePut
      BY <1>6, <2>1 DEF ReadFrame, ResumePut
    <2>2. CASE ReadEof \/ ReadLost
      BY <1>1, <2>2 DEF ReadEof, ReadLost
    <2>3. CASE ReadCorrupt \/ ReadFails
      BY <1>7, <2>3 DEF ReadCorrupt, ReadFails
    <2>4. CASE Reconnect
      BY <1>1, <1>7, <2>4 DEF Reconnect
    <2>5. CASE NeverReturns
      BY <1>1, <2>5 DEF NeverReturns
    <2> QED BY <1>8, <2>1, <2>2, <2>3, <2>4, <2>5 DEF Producer, Reads, ReadNothing
  <1>9. ~Consumer
    BY <1>1, <1>2 DEF Consumer, StartGet, Consume, ConsumeFails
  <1>10. ASSUME Orchestrate PROVE task'["consumer"] = task["consumer"]
    <2>1. ~Open
      BY <1>1, <1>2 DEF Open
    <2>2. CASE Shut(task)
      BY <1>1, <1>2, <2>2 DEF Shut
    <2> QED BY <1>10, <2>1, <2>2 DEF Orchestrate, Refuse, OpenFails, ShutDown, Join, CleanUp, Close
  <1>11. ASSUME CancelRun PROVE task'["consumer"] = task["consumer"]
    BY <1>1, <1>11 DEF CancelRun
  <1>12. ASSUME UNCHANGED pipelineVars PROVE task'["consumer"] = task["consumer"]
    BY <1>12 DEF pipelineVars
  <1> QED BY <1>3, <1>8, <1>9, <1>10, <1>11, <1>12 DEF Next

LEMMA TargetsAre ==
    ASSUME NEW held, NEW issued, NEW targets \in TargetLists(held, issued)
    PROVE  \E n \in Nat :
             /\ DOMAIN targets = 1 .. n
             /\ \A i \in 1 .. n : targets[i].id \in Ids /\ targets[i].id \in held \cup {issued + 1}
  <1>1. PICK S \in {T \in SUBSET (held \cup {issued + 1}) : T \subseteq Ids} : targets \in Listings(S)
    BY DEF TargetLists
  <1>2. Cardinality(S) \in Nat
    <2>1. IsFiniteSet(Ids)
      BY TrackingAssumption, FS_Interval DEF TrackingAssumption, Ids
    <2> QED BY <1>1, <2>1, FS_Subset, FS_CardinalityType
  <1> DEFINE n == Cardinality(S)
  <1> HIDE DEF n
  <1> DEFINE Listed(order, L) == [i \in 1..n |-> [id |-> order[i], lost |-> order[i] \in L]]
  <1>3. \E order \in Injection(1..n, S), L \in SUBSET S : targets = Listed(order, L)
    <2>1. targets \in Listings(S)
      BY <1>1
    <2> DEFINE All == {Listed(order, L) : order \in Injection(1..n, S), L \in SUBSET S}
    <2>2. Listings(S) = All
      BY DEF n, Listings
    <2> HIDE DEF All, Listed
    <2>3. targets \in All
      BY ONLY <2>1, <2>2
    <2> QED BY ONLY <2>3 DEF All
  <1>4. DOMAIN targets = 1 .. n /\ \A i \in 1 .. n : targets[i].id \in S
    <2>1. PICK order \in Injection(1..n, S), L \in SUBSET S : targets = Listed(order, L)
      BY ONLY <1>3
    <2>2. order \in [1..n -> S]
      BY DEF Injection
    <2>3. DOMAIN targets = 1 .. n /\ \A i \in 1 .. n : targets[i].id = order[i]
      BY ONLY <2>1
    <2> QED BY ONLY <2>2, <2>3
  <1> QED BY <1>1, <1>2, <1>4 DEF n

\* What a frame may do to the tracks.
Wholly ==
    \A i \in Ids :
      /\ Follows(track[i]) /\ track'[i].state # "terminated" =>
           /\ Follows(track'[i]) /\ track'[i].index = InHand.index
           /\ track'[i].index > track[i].index
           /\ track'[i].time >= track[i].time
           /\ track'[i].class = track[i].class
      /\ track[i].state = "terminated" => track'[i] = track[i]
      /\ track[i].state = "nothing" => track'[i].state # "terminated"
      /\ Follows(track'[i]) <=> i \in Seen(tracker')

LEMMA FrameIsTold ==
    ASSUME AllowClassSwitch = FALSE, OneStory, ~OutOfOrder,
           NEW detections, NEW matched,
           NEW targets \in TargetLists(backend.held, backend.issued),
           NEW done, done = Translate(Now, targets, detections, matched), ~done.failed,
           NEW listed, listed = {targets[i].id : i \in DOMAIN targets},
           tracker' = done.tracker, track' = Told(done),
           backend' = [held |-> listed, issued |-> IF backend.issued + 1 \in listed
                                          THEN backend.issued + 1 ELSE backend.issued]
    PROVE  OneStory' /\ Wholly
  <1> DEFINE f == InHand
             C == tracker.class
             D == tracker'.class
             L == tracker.last
  <1>1. /\ tracker = [last |-> L, class |-> C] /\ C = [i \in Ids |-> C[i]]
        /\ backend.issued \in Nat /\ \A i \in Seen(tracker) : i <= backend.issued
        /\ backend.held = Seen(tracker)
        /\ \A i \in Ids :
             /\ Follows(track[i]) <=> i \in Seen(tracker)
             /\ Follows(track[i]) =>
                  /\ track[i].class = C[i] /\ L # <<>>
                  /\ track[i].index = L[1].index /\ track[i].time = L[1].time
             /\ track[i].state = "terminated" => i <= backend.issued
             /\ track[i].state \in {"nothing", "active", "lost", "terminated"}
    BY DEF OneStory
  <1>2. Now = [last |-> <<f>>, class |-> C]
    BY <1>1 DEF Now, Advanced
  <1>3. L # <<>> => f.index > L[1].index /\ f.time >= L[1].time
    BY DEF OutOfOrder, ValidFrame, Advances
  <1> HIDE DEF f, C, L
  <1>4. PICK n \in Nat :
          /\ DOMAIN targets = 1 .. n
          /\ \A i \in 1 .. n : /\ targets[i].id \in Ids
                               /\ targets[i].id \in backend.held \cup {backend.issued + 1}
    BY TargetsAre
  <1>5. Translates(Now, listed, done)
    <2> DEFINE t == Now
    <2>1. t.last = <<f>> /\ t.class = C
      BY <1>2
    <2>2. t = [last |-> t.last, class |-> t.class] /\ t.class = [i \in Ids |-> t.class[i]]
      BY <1>1, <1>2, <2>1
    <2>3. ~Translate(t, targets, detections, matched).failed
      OBVIOUS
    <2> HIDE DEF t
    <2>4. Translates(t, {targets[i].id : i \in DOMAIN targets},
                     Translate(t, targets, detections, matched))
      BY <1>4, <2>2, <2>3, TranslateTells
    <2> QED BY <2>4 DEF t
  <1>6. /\ tracker' = [last |-> <<f>>, class |-> D]
        /\ D = [i \in Ids |-> D[i]]
        /\ \A i \in Ids :
             /\ i \in listed => /\ done.told[i] \in {"active", "lost"} /\ D[i] # Untracked
                                /\ C[i] # Untracked => D[i] = C[i]
             /\ i \notin listed => /\ D[i] = Untracked
                                   /\ done.told[i] = IF C[i] # Untracked THEN "terminated"
                                                     ELSE "nothing"
    <2>1. Now.last = <<f>> /\ Now.class = C
      BY <1>2
    <2> QED BY <1>5, <2>1 DEF Translates
  <1>7. /\ listed \subseteq Ids
        /\ \A i \in listed : i \in Seen(tracker) \/ i = backend.issued + 1
    BY <1>1, <1>4
  <1>8. ASSUME NEW i \in Ids
        PROVE  track'[i] = CASE done.told[i] = "nothing"    -> track[i]
                             [] done.told[i] = "terminated" -> [Unknown EXCEPT !.state = "terminated"]
                             [] OTHER -> [state |-> done.told[i], index |-> f.index,
                                          time |-> f.time, class |-> D[i]]
    BY DEF Told, f
  <1>9. ASSUME NEW i \in Ids, i \in listed
        PROVE  /\ track'[i].state = done.told[i] /\ track'[i].index = f.index
               /\ track'[i].time = f.time /\ track'[i].class = D[i] /\ Follows(track'[i])
    <2>1. done.told[i] \in {"active", "lost"}
      BY <1>6, <1>9
    <2>2. track'[i] = [state |-> done.told[i], index |-> f.index, time |-> f.time, class |-> D[i]]
      BY <1>8, <2>1
    <2> QED BY <2>1, <2>2 DEF Follows
  <1>10. ASSUME NEW i \in Ids, i \notin listed, C[i] # Untracked
         PROVE  track'[i].state = "terminated" /\ ~Follows(track'[i])
    <2>1. track'[i] = [Unknown EXCEPT !.state = "terminated"]
      BY <1>6, <1>8, <1>10
    <2> QED BY <2>1 DEF Unknown, Follows
  <1>11. ASSUME NEW i \in Ids, i \notin listed, C[i] = Untracked
         PROVE  track'[i] = track[i]
    BY <1>6, <1>8, <1>11
  <1>12. \A i \in Ids : i \in Seen(tracker) <=> C[i] # Untracked
    BY DEF Seen, C
  <1>13. \A i \in Ids : i \in Seen(tracker)' <=> i \in listed
    BY <1>6 DEF Seen
  <1>14. Seen(tracker) \subseteq Ids /\ Seen(tracker)' \subseteq Ids
    BY DEF Seen
  <1> HIDE DEF D
  <1>15. ASSUME NEW i \in Ids, track[i].state = "terminated"
         PROVE  i \notin listed /\ C[i] = Untracked /\ i <= backend.issued
    <2>1. i \notin Seen(tracker) /\ i <= backend.issued
      BY <1>1, <1>15 DEF Follows
    <2>2. i # backend.issued + 1
      <3>1. i \in Nat
        BY DEF Ids
      <3> QED BY <1>1, <2>1, <3>1
    <2> QED BY <1>7, <1>12, <2>1, <2>2
  <1>16. Wholly
    <2> SUFFICES ASSUME NEW i \in Ids
                 PROVE  /\ Follows(track[i]) /\ track'[i].state # "terminated" =>
                             /\ Follows(track'[i]) /\ track'[i].index = f.index
                             /\ track'[i].index > track[i].index
                             /\ track'[i].time >= track[i].time
                             /\ track'[i].class = track[i].class
                        /\ track[i].state = "terminated" => track'[i] = track[i]
                        /\ track[i].state = "nothing" => track'[i].state # "terminated"
                        /\ Follows(track'[i]) <=> i \in Seen(tracker')
      BY DEF Wholly, f
    <2>1. CASE i \in listed
      <3>1. track[i].state # "terminated" /\ Follows(track'[i]) /\ i \in Seen(tracker')
        BY <1>9, <1>13, <1>15, <2>1
      <3>2. track'[i].state # "terminated"
        BY <3>1 DEF Follows
      <3>3. ASSUME Follows(track[i])
            PROVE  /\ track'[i].index = f.index /\ track'[i].index > track[i].index
                   /\ track'[i].time >= track[i].time /\ track'[i].class = track[i].class
        <4>1. /\ C[i] # Untracked /\ track[i].class = C[i] /\ L # <<>>
              /\ track[i].index = L[1].index /\ track[i].time = L[1].time
          BY <1>1, <1>12, <3>3
        <4>2. D[i] = C[i]
          BY <1>6, <2>1, <4>1
        <4> QED BY <1>3, <1>9, <2>1, <4>1, <4>2
      <3> QED BY <3>1, <3>2, <3>3
    <2>2. CASE i \notin listed /\ C[i] # Untracked
      <3>1. track'[i].state = "terminated" /\ ~Follows(track'[i]) /\ i \notin Seen(tracker')
        BY <1>10, <1>13, <2>2
      <3>2. Follows(track[i])
        BY <1>1, <1>12, <2>2
      <3> QED BY <1>15, <2>2, <3>1, <3>2 DEF Follows
    <2>3. CASE i \notin listed /\ C[i] = Untracked
      <3>1. track'[i] = track[i] /\ ~Follows(track[i]) /\ i \notin Seen(tracker')
        BY <1>1, <1>11, <1>12, <1>13, <2>3
      <3> QED BY <3>1
    <2> QED BY <2>1, <2>2, <2>3
  <1>17. /\ backend'.held = listed /\ backend'.issued \in Nat
         /\ backend'.issued = IF backend.issued + 1 \in listed
                              THEN backend.issued + 1 ELSE backend.issued
    BY <1>1
  <1>18. /\ \A i \in listed : i <= backend'.issued
         /\ \A i \in Nat : i <= backend.issued => i <= backend'.issued
    <2> DEFINE old == backend.issued
               new == backend'.issued
    <2>1. /\ old \in Nat /\ new = IF old + 1 \in listed THEN old + 1 ELSE old
          /\ \A i \in Seen(tracker) : i <= old
          /\ \A i \in listed : i \in Seen(tracker) \/ i = old + 1
      BY <1>1, <1>7, <1>17
    <2>2. listed \subseteq Nat
      BY <1>7 DEF Ids
    <2> HIDE DEF old, new
    <2>3. ASSUME NEW i \in listed PROVE i <= new
      <3>1. CASE i = old + 1
        BY <2>1, <3>1
      <3>2. CASE i \in Seen(tracker)
        BY <2>1, <2>2, <3>2
      <3> QED BY <2>1, <3>1, <3>2
    <2>4. ASSUME NEW i \in Nat, i <= old PROVE i <= new
      BY <2>1, <2>4
    <2> QED BY <2>3, <2>4 DEF old, new
  <1>19. ASSUME NEW i \in Ids
         PROVE  /\ Follows(track'[i]) <=> i \in Seen(tracker)'
                /\ Follows(track'[i]) =>
                     /\ track'[i].class = tracker'.class[i] /\ tracker'.last # <<>>
                     /\ track'[i].index = tracker'.last[1].index
                     /\ track'[i].time = tracker'.last[1].time
                /\ track'[i].state = "terminated" => i <= backend'.issued
                /\ track'[i].state \in {"nothing", "active", "lost", "terminated"}
    <2>1. /\ tracker'.class = D /\ tracker'.last = <<f>> /\ tracker'.last # <<>>
          /\ tracker'.last[1] = f
      BY <1>6 DEF D
    <2>2. i \in Nat
      BY DEF Ids
    <2>3. CASE i \in listed
      <3>1. Follows(track'[i]) /\ i \in Seen(tracker)' /\ track'[i].state \in {"active", "lost"}
        BY <1>9, <1>13, <2>3 DEF Follows
      <3> QED BY <1>9, <2>1, <2>3, <3>1
    <2>4. CASE i \notin listed /\ C[i] # Untracked
      <3>1. track'[i].state = "terminated" /\ ~Follows(track'[i]) /\ i \notin Seen(tracker)'
        BY <1>10, <1>13, <2>4
      <3>2. i <= backend.issued
        BY <1>1, <1>12, <2>4
      <3> QED BY <1>18, <2>2, <3>1, <3>2
    <2>5. CASE i \notin listed /\ C[i] = Untracked
      <3>1. track'[i] = track[i] /\ ~Follows(track[i]) /\ i \notin Seen(tracker)'
        BY <1>1, <1>11, <1>12, <1>13, <2>5
      <3>2. track[i].state = "terminated" => i <= backend'.issued
        BY <1>1, <1>18, <2>2
      <3> QED BY <1>1, <3>1, <3>2
    <2> QED BY <2>3, <2>4, <2>5
  <1>20. OneStory'
    <2>1. /\ tracker' = [last |-> tracker'.last, class |-> tracker'.class]
          /\ tracker'.class = [i \in Ids |-> tracker'.class[i]]
      <3>1. tracker'.last = <<f>> /\ tracker'.class = D
        BY <1>6
      <3> QED BY <1>6, <3>1
    <2>2. backend'.held = Seen(tracker)'
      BY <1>7, <1>13, <1>14, <1>17
    <2> QED BY <1>17, <1>18, <1>19, <2>1, <2>2 DEF OneStory
  <1> QED BY <1>16, <1>20
LEMMA FailureEnds ==
    ASSUME FrameInv, ConsumeFails
    PROVE  ~Alive'
  <1>1. PICK e \in Failures : task' = [task EXCEPT !["consumer"] =
              Ends("consumer", IF e = "closed" /\ queue.closed THEN "done" ELSE "failed", e)]
    BY DEF ConsumeFails
  <1>2. task \in [Tasks -> Task] /\ task["consumer"] \in Task /\ "consumer" \in Tasks
    BY FrameTypes DEF Tasks
  <1>3. task'["consumer"].pc \in {"done", "failed"}
    BY <1>1, <1>2 DEF Ends, Task
  <1> QED BY <1>3 DEF Alive, Finished

LEMMA LoadedHasDevice ==
    ASSUME NEW d, NEW spec, NEW config, NEW host, d.loaded => d.device # None
    PROVE  LET e == Load(d, spec, config, host) IN e.loaded => e.device # None
  BY DEF Load, Loadable

LEMMA LoadsDevice ==
    ASSUME NEW host, NEW rows, detector.loaded => detector.device # None
    PROVE  LET d == Detecting(host, rows) IN
           /\ d.detector.loaded => d.detector.device # None
           /\ detector.loaded => d.detector = detector
           /\ d.found # None /\ equipment.governed => AssertDeviceStable(policy, detector)
  BY DEF Detecting, Load, Loadable

\* A frame whose consumer goes on was detected by the device that was meant and
\* translated.
LEMMA FrameIsTracked ==
    ASSUME AllowClassSwitch = FALSE, FrameInv, StoryInv, ConsumeFrame, Alive'
    PROVE  /\ OneStory' /\ Wholly
           /\ equipment.governed /\ detector.loaded => detector'.device = policy.device
  <1>1. OneStory /\ (detector.loaded => detector.device # None)
    BY DEF StoryInv, Alive, ConsumeFrame, At, Finished
  <1>2. ~ConsumeFails
    BY FailureEnds
  <1>3. PICK host, rows :
          LET d == Detecting(host, rows) IN
          detector' = d.detector /\ d.found # None /\ ~OutOfOrder /\ Track(d.found)
    BY <1>2 DEF ConsumeFrame
  <1> DEFINE d == Detecting(host, rows)
  <1>4. equipment.governed /\ detector.loaded => detector'.device = policy.device
    <2>1. /\ detector.loaded => d.detector = detector
          /\ equipment.governed => AssertDeviceStable(policy, detector)
      BY <1>1, <1>3, LoadsDevice
    <2> QED BY <1>1, <1>3, <2>1 DEF AssertDeviceStable
  <1> DEFINE seen == d.found
  <1>5. ~OutOfOrder /\ Track(seen)
    BY <1>3
  <1> HIDE DEF seen
  <1>6. PICK targets \in TargetLists(backend.held, backend.issued) :
          \E matched \in Associations(targets, seen) :
          LET listed == {targets[i].id : i \in DOMAIN targets}
              done   == Translate(Now, targets, seen, matched)
          IN  /\ tracker' = done.tracker
              /\ backend' = [held |-> listed, issued |-> IF backend.issued + 1 \in listed
                                              THEN backend.issued + 1 ELSE backend.issued]
              /\ ~done.failed /\ track' = Told(done)
    BY <1>2, <1>5 DEF Track
  <1>7. PICK matched :
          LET listed == {targets[i].id : i \in DOMAIN targets}
              done   == Translate(Now, targets, seen, matched)
          IN  /\ tracker' = done.tracker
              /\ backend' = [held |-> listed, issued |-> IF backend.issued + 1 \in listed
                                              THEN backend.issued + 1 ELSE backend.issued]
              /\ ~done.failed /\ track' = Told(done)
    BY <1>6
  <1> DEFINE listed == {targets[i].id : i \in DOMAIN targets}
             done   == Translate(Now, targets, seen, matched)
  <1>8. /\ tracker' = done.tracker /\ ~done.failed /\ track' = Told(done)
        /\ backend' = [held |-> listed, issued |-> IF backend.issued + 1 \in listed
                                                   THEN backend.issued + 1 ELSE backend.issued]
        /\ done = Translate(Now, targets, seen, matched)
        /\ listed = {targets[i].id : i \in DOMAIN targets}
    BY <1>7
  <1> HIDE DEF listed, done
  <1>9. OneStory' /\ Wholly
    BY <1>1, <1>5, <1>8, FrameIsTold
  <1> QED BY <1>4, <1>9

LEMMA NewStory ==
    ASSUME tracker' = NewTracker, backend' = NewBackend, track' = [i \in Ids |-> Unknown]
    PROVE  OneStory'
  <1>1. /\ tracker'.last = <<>> /\ tracker'.class = [i \in Ids |-> Untracked]
        /\ tracker' = [last |-> tracker'.last, class |-> tracker'.class]
    BY DEF NewTracker
  <1>2. \A i \in Ids : tracker'.class[i] = Untracked
    BY <1>1
  <1>3. tracker'.class = [i \in Ids |-> tracker'.class[i]]
    BY <1>1, <1>2
  <1>4. Seen(tracker)' = {}
    BY <1>2 DEF Seen
  <1>5. backend'.held = {} /\ backend'.issued = 0
    BY DEF NewBackend
  <1>6. \A i \in Ids : track'[i].state = "nothing"
    BY DEF Unknown
  <1> QED BY <1>1, <1>3, <1>4, <1>5, <1>6 DEF OneStory, Follows

LEMMA StoryInit == VisionInit => StoryInv
  <1> SUFFICES ASSUME VisionInit PROVE StoryInv
    OBVIOUS
  <1>1. /\ tracker.last = <<>> /\ tracker.class = [i \in Ids |-> Untracked]
        /\ tracker = [last |-> tracker.last, class |-> tracker.class]
    BY DEF VisionInit, NewTracker
  <1>2. \A i \in Ids : tracker.class[i] = Untracked
    BY <1>1
  <1>3. tracker.class = [i \in Ids |-> tracker.class[i]]
    BY <1>1, <1>2
  <1>4. Seen(tracker) = {}
    BY <1>2 DEF Seen
  <1>5. backend.held = {} /\ backend.issued = 0 /\ ~detector.loaded
    BY DEF VisionInit, NewBackend, Unloaded
  <1>6. \A i \in Ids : track[i].state = "nothing"
    BY DEF VisionInit, Unknown
  <1> QED BY <1>1, <1>3, <1>4, <1>5, <1>6 DEF StoryInv, OneStory, Follows

LEMMA StoryStep ==
    ASSUME AllowClassSwitch = FALSE, FrameInv, StoryInv, [VisionNext]_vars
    PROVE  StoryInv'
  <1>1. [Next]_pipelineVars
    BY VisionStep
  <1>2. Alive' => Alive
    BY <1>1, AliveBefore
  <1>3. ASSUME UNCHANGED <<tracker, backend, track>> PROVE Alive' => OneStory'
    BY <1>2, <1>3 DEF StoryInv, OneStory, Seen
  <1>4. CASE ReadTimedFrame
    BY <1>3, <1>4 DEF ReadTimedFrame, StoryInv
  <1>5. CASE PipelineStep
    BY <1>3, <1>5 DEF PipelineStep, StoryInv, visionVars
  <1>6. CASE StartPolicy
    BY <1>3, <1>6 DEF StartPolicy, StoryInv
  <1>7. CASE WarmUp
    <2>1. PICK host : detector' = Load(detector, equipment.model, equipment.config, host)
      BY <1>7 DEF WarmUp
    <2>2. detector'.loaded => detector'.device # None
      BY <2>1, LoadedHasDevice DEF StoryInv
    <2> QED BY <1>3, <1>7, <2>2 DEF WarmUp, StoryInv
  <1>8. CASE ConsumeFrame
    <2>1. PICK host, rows : detector' = Detecting(host, rows).detector
      BY <1>8 DEF ConsumeFrame
    <2>2. detector'.loaded => detector'.device # None
      BY <2>1, LoadsDevice DEF StoryInv
    <2> QED BY <1>8, <2>2, FrameIsTracked DEF StoryInv
  <1>9. CASE CloseVision
    BY <1>9, NewStory DEF CloseVision, StoryInv, Unloaded
  <1>10. CASE UNCHANGED vars
    BY <1>3, <1>10 DEF vars, visionVars, StoryInv
  <1> QED BY <1>4, <1>5, <1>6, <1>7, <1>8, <1>9, <1>10 DEF VisionNext

LEMMA FramesAreSound ==
    ASSUME AllowClassSwitch = FALSE, FrameInv, StoryInv, [VisionNext]_vars
    PROVE  TracksAreWhole /\ DeviceIsStable
  <1> SUFFICES ASSUME consumed' # consumed
               PROVE  Wholly /\ (equipment.governed /\ detector.loaded
                                   => detector'.device = policy.device)
    BY DEF TracksAreWhole, DeviceIsStable, Wholly
  <1>1. ConsumeFrame
    <2>1. ~ReadTimedFrame
      BY DEF ReadTimedFrame, ReadFrame
    <2>2. ~PipelineStep
      BY DEF PipelineStep, ReadNothing, ReadEof, ReadLost, ReadCorrupt, ReadFails, Reconnect,
             NeverReturns, ResumePut, StartGet, Orchestrate, Refuse, Open, OpenFails, ShutDown, Join, CleanUp,
             Close, CancelRun
    <2>3. ~StartPolicy /\ ~WarmUp /\ ~CloseVision /\ ~UNCHANGED vars
      BY DEF StartPolicy, WarmUp, CloseVision, vars, pipelineVars
    <2> QED BY <2>1, <2>2, <2>3 DEF VisionNext
  <1>2. Consume
    BY <1>1 DEF ConsumeFrame, Track, ConsumeFails
  <1>3. Alive'
    <2>1. task \in [Tasks -> Task] /\ task["consumer"] \in Task /\ "consumer" \in Tasks
      BY FrameTypes DEF Tasks
    <2>2. task'["consumer"].pc = "get"
      BY <1>2, <2>1 DEF Consume, Task
    <2> QED BY <2>2 DEF Alive, Finished
  <1> QED BY <1>1, <1>3, FrameIsTracked

\* For every size of the run and whatever is read, dropped, dated by two clocks or missed by
\* the detector, with a tracker that keeps classes (allow_class_switch is off by default,
\* tracking/base.py:118): each frame that is consumed tells the whole story of the tracks. One
\* begins at most once, keeps its class, is seen or lost for as long as it is followed and is
\* told to have ended at the first frame without it; and once the detector is loaded the device
\* that looked at the frame is the one of the policy.
THEOREM ObservationsStaySound ==
    AllowClassSwitch = FALSE => (VisionSpec => ObservationsAreSound)
  <1> SUFFICES ASSUME AllowClassSwitch = FALSE PROVE VisionSpec => ObservationsAreSound
    OBVIOUS
  <1>1. VisionInit => StoryInv
    BY StoryInit
  <1>2. FrameInv /\ StoryInv /\ [VisionNext]_vars => StoryInv'
    BY StoryStep
  <1>3. FrameInv /\ StoryInv /\ [VisionNext]_vars => TracksAreWhole /\ DeviceIsStable
    BY FramesAreSound
  <1>4. FrameInv /\ StoryInv /\ [VisionNext]_vars => [TracksAreWhole /\ DeviceIsStable]_vars
    BY <1>3
  <1> QED BY <1>1, <1>2, <1>4, InvariantOfVision, PTL DEF VisionSpec, ObservationsAreSound
=============================================================================
