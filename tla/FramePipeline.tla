----------------------------- MODULE FramePipeline -----------------------------
(***************************************************************************)
(* One run of the frame pipeline: a source (recorded file or RTSP stream), *)
(* the bounded queue and the consumer (pipeline.py, sources/queue.py,      *)
(* sources/base.py, file.py, rtsp.py).                                     *)
(*                                                                         *)
(* run() starts a producer and a consumer task on one event loop.  A step  *)
(* is what a task does between two awaits that suspend it.  The queue has  *)
(* one condition for both, and wakes one waiter per put or get.            *)
(***************************************************************************)
EXTENDS Naturals, Sequences, SequencesExt

CONSTANTS
    MaxFrames,        \* bound: frames a source delivers
    QueueSize,        \* maxsize
    MaxAttempts,      \* ReconnectPolicy.max_attempts
    MaxDecodeErrors,  \* max_consecutive_decode_errors
    Failures          \* what consume() may raise: "error", or the queue's own "closed"

ASSUME PipelineAssumption ==
    /\ MaxFrames \in Nat
    /\ {QueueSize, MaxAttempts, MaxDecodeErrors} \subseteq Nat \ {0}
    /\ Failures \subseteq {"error", "closed"}

VARIABLES
    setup,    \* kind of source and full policy, chosen once
    source,   \* the FrameSource
    queue,    \* the BoundedFrameQueue
    task,     \* the two tasks
    run,      \* how far run() came and how it ends
    consumed  \* frames consume() got, in order

pipelineVars == <<setup, source, queue, task, run, consumed>>

Tasks == {"producer", "consumer"}

Setup == [kind : {"file", "rtsp"}, policy : {"block", "drop_oldest"}]

Frames == 0 .. MaxFrames - 1

Source == [state    : {"created", "running", "draining", "failed", "closed"},
           frames   : 0 .. MaxFrames,        \* _frame_index
           attempts : 0 .. MaxAttempts,      \* since the last frame
           errors   : 0 .. MaxDecodeErrors]  \* in a row

Queue == [items : Seq(Frames), closed : BOOLEAN, dropped : Nat,
          waiting : SUBSET Tasks]            \* asleep on the condition

Finished == {"done", "failed", "cancelled"}

Task == [pc    : {"none", "read", "reconnect", "stuck", "get", "consume", "wait", "woken"}
                   \cup Finished,
         error : {"none", "error", "closed"},
         hold  : Seq(Frames)]                \* the frame in hand

NoTask == [pc |-> "none", error |-> "none", hold |-> <<>>]

Run == [pc     : {"start", "open", "first", "all", "cleanup", "close", "ended"},
        result : {"none", "ok", "failure", "cancelled"}]

\* The queue is the caller's; it may have been shut down before.
Init == /\ setup \in Setup
        /\ source = [state |-> "created", frames |-> 0, attempts |-> 0, errors |-> 0]
        /\ \E closed \in BOOLEAN :
             queue = [items |-> <<>>, closed |-> closed, dropped |-> 0, waiting |-> {}]
        /\ task = [t \in Tasks |-> NoTask]
        /\ run = [pc |-> "start", result |-> "none"]
        /\ consumed = <<>>

-----------------------------------------------------------------------------
(* The queue.                                                              *)
At(t, pc) == task[t].pc = pc
Full == Len(queue.items) >= QueueSize

Ends(t, pc, error) ==
    [task[t] EXCEPT !.pc = pc, !.error = error, !.hold = <<>>]

\* notify() wakes one task that sleeps.
Notified(tasks) ==
    IF queue.waiting = {} THEN {tasks}
    ELSE {[tasks EXCEPT ![t].pc = "woken"] : t \in queue.waiting}

\* The queue once a task was notified.
Awake(q, tasks) == [q EXCEPT !.waiting = {t \in @ : tasks[t].pc = "wait"}]

Sleep(t, record) ==
    /\ queue' = [queue EXCEPT !.waiting = @ \cup {t}]
    /\ task' = [task EXCEPT ![t] = [record EXCEPT !.pc = "wait"]]

\* Mutant of Evicted: the drop is not counted.
EvictedSilently == [queue EXCEPT !.items = Tail(@)]

\* The oldest frame makes room.
Evicted == [queue EXCEPT !.items = Tail(@), !.dropped = @ + 1]

\* The frame is admitted and the producer goes on reading.
Admit(f) ==
    LET room == IF setup.policy = "drop_oldest" /\ Full THEN Evicted ELSE queue
    IN \E tasks \in Notified([task EXCEPT !["producer"] =
                                [@ EXCEPT !.pc = "read", !.hold = <<>>]]) :
         /\ task' = tasks
         /\ queue' = Awake([room EXCEPT !.items = Append(@, f)], tasks)

\* put(): refused after the shutdown, which ends the producer benignly.
Put(f) ==
    \/ /\ queue.closed
       /\ task' = [task EXCEPT !["producer"] = Ends("producer", "done", "none")]
       /\ UNCHANGED queue
    \/ /\ ~queue.closed /\ setup.policy = "block" /\ Full
       /\ Sleep("producer", [task["producer"] EXCEPT !.hold = <<f>>])
    \/ /\ ~queue.closed /\ (setup.policy = "drop_oldest" \/ ~Full)
       /\ Admit(f)

\* Mutant of Available: a queue that is shut down is not drained.
AvailableWhileOpen == queue.items # <<>> /\ ~queue.closed

\* What is left may be drained after the shutdown.
Available == queue.items # <<>>

\* get(), which ends the consumer once the queue is shut down and drained.
Get ==
    \/ /\ Available
       /\ \E tasks \in Notified([task EXCEPT !["consumer"] =
                                   [@ EXCEPT !.pc = "consume", !.hold = <<Head(queue.items)>>]]) :
            /\ task' = tasks
            /\ queue' = Awake([queue EXCEPT !.items = Tail(@)], tasks)
    \/ /\ ~Available /\ queue.closed
       /\ task' = [task EXCEPT !["consumer"] = Ends("consumer", "done", "none")]
       /\ UNCHANGED queue
    \/ /\ ~Available /\ ~queue.closed
       /\ Sleep("consumer", task["consumer"])

-----------------------------------------------------------------------------
(* The source.                                                             *)
StopProducing(error) ==
    /\ task' = [task EXCEPT !["producer"] = Ends("producer", "failed", error)]
    /\ UNCHANGED queue

\* Both budgets start anew with a frame, and only with a frame.
ReadFrame ==
    /\ At("producer", "read") /\ source.frames < MaxFrames
    /\ source' = [source EXCEPT !.frames = @ + 1, !.attempts = 0, !.errors = 0]
    /\ Put(source.frames)
    /\ UNCHANGED <<setup, run, consumed>>

ReadEof ==
    /\ At("producer", "read") /\ setup.kind = "file"
    /\ source' = [source EXCEPT !.state = "draining"]
    /\ task' = [task EXCEPT !["producer"] = Ends("producer", "done", "none")]
    /\ UNCHANGED <<setup, queue, run, consumed>>

\* The end of a stream is a lost connection.
ReadLost ==
    /\ At("producer", "read") /\ setup.kind = "rtsp"
    /\ task' = [task EXCEPT !["producer"].pc = "reconnect"]
    /\ UNCHANGED <<setup, source, queue, run, consumed>>

\* A corrupt frame is skipped, unless there were too many of them.
ReadCorrupt ==
    /\ At("producer", "read")
    /\ LET last == source.errors + 1 = MaxDecodeErrors IN
         /\ source' = [source EXCEPT !.errors = @ + 1,
                                     !.state = IF last THEN "failed" ELSE @]
         /\ IF last THEN StopProducing("error") ELSE UNCHANGED <<task, queue>>
    /\ UNCHANGED <<setup, run, consumed>>

\* A decoder or storage failure, or, for a file, a time that is not known.
ReadFails ==
    /\ At("producer", "read")
    /\ \/ UNCHANGED source
       \/ setup.kind = "file" /\ source' = [source EXCEPT !.state = "failed"]
    /\ StopProducing("error")
    /\ UNCHANGED <<setup, run, consumed>>

\* Reads that give no frame.
ReadNothing == ReadEof \/ ReadLost \/ ReadCorrupt \/ ReadFails

Reads == ReadFrame \/ ReadNothing

\* Mutant of Attempts: a connection is taken for a recovery.
AttemptsAfter(connected) == IF connected THEN 0 ELSE source.attempts + 1

\* The attempts of one episode add up, also those that connected.
Attempts(connected) == source.attempts + 1

\* Back off, connect and open the decoder: it works, it fails, or it raises
\* what the loop does not expect.
Reconnect ==
    /\ At("producer", "reconnect")
    /\ \/ /\ source.attempts < MaxAttempts
          /\ \/ /\ source' = [source EXCEPT !.attempts = Attempts(TRUE)]
                /\ task' = [task EXCEPT !["producer"].pc = "read"]
                /\ UNCHANGED queue
             \/ /\ source' = [source EXCEPT !.attempts = Attempts(FALSE)]
                /\ \/ UNCHANGED <<task, queue>>
                   \/ StopProducing("error")
       \/ /\ source.attempts = MaxAttempts
          /\ source' = [source EXCEPT !.state = "failed"]
          /\ StopProducing("error")
    /\ UNCHANGED <<setup, run, consumed>>

\* Nothing but a cancellation ends a call of the source that never returns: a read,
\* or what the reconnection calls, has no timeout.
NeverReturns ==
    /\ At("producer", "read") \/ At("producer", "reconnect")
    /\ task' = [task EXCEPT !["producer"].pc = "stuck"]
    /\ UNCHANGED <<setup, source, queue, run, consumed>>

\* A producer that waited for room looks again.
ResumePut ==
    /\ At("producer", "woken")
    /\ Put(Head(task["producer"].hold))
    /\ UNCHANGED <<setup, source, run, consumed>>

-----------------------------------------------------------------------------
(* The consumer.                                                           *)
StartGet ==
    /\ At("consumer", "get") \/ At("consumer", "woken")
    /\ Get
    /\ UNCHANGED <<setup, source, run, consumed>>

\* consume() returns and the next frame is asked for.
Consume ==
    /\ At("consumer", "consume")
    /\ consumed' = consumed \o task["consumer"].hold
    /\ task' = [task EXCEPT !["consumer"] = [@ EXCEPT !.pc = "get", !.hold = <<>>]]
    /\ UNCHANGED <<setup, source, queue, run>>

\* consume() raises; its own QueueClosedError passes for a drained queue when
\* the queue is shut down.
ConsumeFails ==
    /\ At("consumer", "consume")
    /\ \E error \in Failures :
         task' = [task EXCEPT !["consumer"] =
                    Ends("consumer", IF error = "closed" /\ queue.closed
                                       THEN "done" ELSE "failed", error)]
    /\ UNCHANGED <<setup, source, queue, run, consumed>>

-----------------------------------------------------------------------------
(* run()                                                                   *)
Refuse ==
    /\ run.pc = "start" /\ queue.closed
    /\ run' = [pc |-> "ended", result |-> "failure"]
    /\ UNCHANGED <<setup, source, queue, task, consumed>>

Open ==
    /\ run.pc = "start" /\ ~queue.closed
    /\ source' = [source EXCEPT !.state = "running"]
    /\ task' = [task EXCEPT !["producer"].pc = "read", !["consumer"].pc = "get"]
    /\ run' = [run EXCEPT !.pc = "first"]
    /\ UNCHANGED <<setup, queue, consumed>>

OpenFails ==
    /\ run.pc = "start" /\ ~queue.closed
    /\ source' = [source EXCEPT !.state = "failed"]
    /\ run' = [pc |-> "ended", result |-> "failure"]
    /\ UNCHANGED <<setup, queue, task, consumed>>

\* notify_all() wakes whoever sleeps.
Shut(tasks) ==
    /\ queue' = [queue EXCEPT !.closed = TRUE, !.waiting = {}]
    /\ task' = [t \in Tasks |-> IF tasks[t].pc = "wait" THEN [tasks[t] EXCEPT !.pc = "woken"]
                                                        ELSE tasks[t]]

TasksDone == \A t \in Tasks : task[t].pc \in Finished

\* FIRST_COMPLETED: whichever task it is and however it ended.
ShutDown ==
    /\ run.pc = "first"
    /\ \E t \in Tasks : task[t].pc \in Finished
    /\ Shut(task)
    /\ run' = [run EXCEPT !.pc = "all"]
    /\ UNCHANGED <<setup, source, consumed>>

\* What _first_real_failure lets through.
Real(t) == At(t, "failed") /\ task[t].error # "closed"

\* ALL_COMPLETED.
Join ==
    /\ run.pc = "all"
    /\ TasksDone
    /\ run' = [pc |-> "close",
               result |-> IF \E t \in Tasks : Real(t) THEN "failure" ELSE "ok"]
    /\ UNCHANGED <<setup, source, queue, task, consumed>>

\* The caller cancels run(): the tasks that are left are cancelled, each at
\* the await it is suspended in.
CancelRun ==
    /\ run.pc \in {"first", "all"}
    /\ task' = [t \in Tasks |-> IF task[t].pc \in Finished THEN task[t]
                                ELSE Ends(t, "cancelled", "none")]
    /\ queue' = [queue EXCEPT !.waiting = {}]
    /\ run' = [pc |-> "cleanup", result |-> "cancelled"]
    /\ UNCHANGED <<setup, source, consumed>>

\* The gather is over and the queue is closed for good.
CleanUp ==
    /\ run.pc = "cleanup"
    /\ TasksDone
    /\ Shut(task)
    /\ run' = [run EXCEPT !.pc = "close"]
    /\ UNCHANGED <<setup, source, consumed>>

\* aclose(), and the result reaches the caller.
Close ==
    /\ run.pc = "close"
    /\ source' = [source EXCEPT !.state = "closed"]
    /\ run' = [run EXCEPT !.pc = "ended"]
    /\ UNCHANGED <<setup, queue, task, consumed>>

-----------------------------------------------------------------------------
Producer == Reads \/ Reconnect \/ NeverReturns \/ ResumePut
Consumer == StartGet \/ Consume \/ ConsumeFails
Orchestrate == Refuse \/ Open \/ OpenFails \/ ShutDown \/ Join \/ CleanUp \/ Close

Next == Producer \/ Consumer \/ Orchestrate \/ CancelRun

\* The event loop runs a task that can go on, and consume() returns or raises.  A
\* call of the source returns or does not; of open() and aclose() nothing is assumed.
Fairness == /\ WF_pipelineVars(Reads \/ Reconnect \/ NeverReturns)
            /\ WF_pipelineVars(ResumePut) /\ WF_pipelineVars(Consumer)
            /\ WF_pipelineVars(ShutDown \/ Join \/ CleanUp)

Spec == Init /\ [][Next]_pipelineVars /\ Fairness

-----------------------------------------------------------------------------
\* Every variable keeps its type.
FrameTypeOK ==
    /\ setup \in Setup /\ source \in Source /\ queue \in Queue
    /\ task \in [Tasks -> Task] /\ run \in Run
    /\ consumed \in Seq(Frames)

\* However puts, gets, evictions and the shutdown interleave, the frames that
\* were consumed and those queued are in the order they were produced, none
\* twice; a frame is missing only when it was dropped, and counted, or was in
\* hand of a task that ended before its time.  Backpressure never drops
\* (queue.py:13-28, 128-157).
FramesAccounted ==
    LET line == consumed \o task["consumer"].hold \o queue.items \o task["producer"].hold
    IN /\ \A i, j \in DOMAIN line : i < j => line[i] < line[j]
       /\ Len(queue.items) <= QueueSize
       /\ setup.policy = "block" => queue.dropped = 0
       /\ run.pc = "first" /\ ~(\E t \in Tasks : task[t].pc \in Finished)
            => Len(line) + queue.dropped = source.frames

\* run() returns normally only if all went well: both tasks ended by
\* themselves and every frame was consumed or counted as dropped; and it
\* raises when one of them failed (pipeline.py:91-99, 118-122).
ReturnTellsTruth ==
    run.pc \in {"close", "ended"} =>
        /\ run.result = "ok" =>
             /\ \A t \in Tasks : At(t, "done")
             /\ Len(consumed) + queue.dropped = source.frames
        /\ (run.result # "cancelled" /\ \E t \in Tasks : At(t, "failed"))
             => run.result = "failure"

\* When run() is over no task is left, nobody sleeps on the queue, and queue
\* and source are closed, however it ended (pipeline.py:115-121, base.py:246).
NothingLeftOpen ==
    run.pc = "ended" =>
        \/ source.state \in {"created", "failed"} /\ \A t \in Tasks : At(t, "none")
        \/ /\ source.state = "closed" /\ queue.closed /\ queue.waiting = {}
           /\ \A t \in Tasks : task[t].pc \in Finished

\* However the run ends, the caller is told how it ended and nothing goes on.
RunIsTruthful == ReturnTellsTruth /\ NothingLeftOpen

\* A call of the source that never returns.
\* A source that yields no more frames, a task that ended and a cancellation all
\* bring the run to its last call, aclose(): reconnection and decode errors have
\* budgets, and no task sleeps for ever on the condition both share.  Or a call of the
\* source never returns.  This exception is real: run() waits for such a producer also
\* after the consumer has failed (pipeline.py:110-114), although it promises to
\* cancel the sibling (pipeline.py:92-94); only a cancellation of run() ends that.
RunEnds ==
    (source.frames = MaxFrames \/ run.result # "none" \/ \E t \in Tasks : task[t].pc \in Finished)
        ~> (run.pc \in {"close", "ended"} \/ At("producer", "stuck"))
=============================================================================
