---------------------------- MODULE VisionPipeline ----------------------------
(***************************************************************************)
(* The frame pipeline with the consumer it is made for: of every frame the *)
(* detections, and of these the tracks.  consume() raises what detector    *)
(* and tracker raise, which ends the run.  Both are called without         *)
(* anything in them that suspends the task.                                *)
(***************************************************************************)
EXTENDS FramePipeline, Detection, Tracking

CONSTANTS
    Equipment, \* what a pipeline may be made of: configuration of the detector, the
               \* model asked for, session of the tracker (the source has 1), policy or not
    Hosts,     \* the accelerators a probe may find
    Outputs,   \* rows the model may return for a frame, None when it raises
    Skew       \* by how much the clock of the server is ahead of the camera's

ASSUME VisionAssumption == Skew \in Nat /\ None \in Outputs

VARIABLES
    equipment,  \* chosen once, with the model that was resolved
    clock,      \* clock[f + 1]: event_time of frame f, until that is consumed
    policy,     \* the InferenceExecutionPolicy
    detector,   \* the YOLOv8Adapter
    tracker,    \* the ByteTrackAdapter
    backend,    \* the ids it follows and those it has given out
    track       \* history: of each id the last that was told

visionVars == <<equipment, clock, policy, detector, tracker, backend, track>>
vars == <<pipelineVars, visionVars>>

Unknown == [state |-> "nothing", index |-> 0, time |-> 0, class |-> Untracked]

NewBackend == [held |-> {}, issued |-> 0]

VisionInit ==
    /\ Init
    /\ \E e \in Equipment : \E d \in Resolve(e.id, e.version) :
         equipment = [config |-> e.config, session |-> e.session, governed |-> e.governed,
                      model |-> d]
    /\ clock = <<>>
    /\ policy = NotStarted /\ detector = Unloaded
    /\ tracker = NewTracker /\ backend = NewBackend
    /\ track = [i \in Ids |-> Unknown]

-----------------------------------------------------------------------------
\* The time a frame came with; in a stream those that have none get the server's.
EventTime(f, stamped) == IF stamped \/ setup.kind = "file" THEN f ELSE f + Skew

ReadTimedFrame ==
    /\ ReadFrame
    /\ \E stamped \in BOOLEAN : clock' = Append(clock, EventTime(source.frames, stamped))
    /\ UNCHANGED <<equipment, policy, detector, tracker, backend, track>>

\* The frames that are read but for a time, the queue and run(): see FramePipeline.
PipelineStep ==
    /\ \/ ReadNothing \/ Reconnect \/ NeverReturns \/ ResumePut
       \/ StartGet \/ Orchestrate \/ CancelRun
    /\ UNCHANGED visionVars

-----------------------------------------------------------------------------
(* Before the run the application may start the policy and warm up.        *)
StartPolicy ==
    /\ run.pc = "start" /\ equipment.governed /\ ~policy.started
    /\ \E host \in Hosts : policy' = Started(policy, equipment.config, host)
    /\ policy'.started
    /\ UNCHANGED <<pipelineVars, equipment, clock, detector, tracker, backend, track>>

WarmUp ==
    /\ run.pc = "start" /\ ~detector.loaded
    /\ AssertDeviceStable(policy, detector)
    /\ \E host \in Hosts :
         detector' = Load(detector, equipment.model, equipment.config, host)
    /\ detector'.loaded
    /\ UNCHANGED <<pipelineVars, equipment, clock, policy, tracker, backend, track>>

-----------------------------------------------------------------------------
(* consume(): detect() and update().                                       *)
Packet(f) == [index |-> f, time |-> clock[f + 1], session |-> 1]
InHand == Packet(Head(task["consumer"].hold))

\* What is in the frame, or None; the policy looks at the device before the
\* detector, which then may load.
Detecting(host, rows) ==
    LET loaded == Load(detector, equipment.model, equipment.config, host)
        refused == equipment.governed /\ ~AssertDeviceStable(policy, detector)
    IN [detector |-> IF refused THEN detector ELSE loaded,
        found    |-> IF refused THEN None ELSE Detect(loaded, rows)]

\* A frame out of order leaves no trace, one that is in order counts as seen.
OutOfOrder == ~ValidFrame(tracker, equipment.session, InHand)

Now == Advanced(tracker, InHand)

Told(done) ==
    [i \in Ids |->
        CASE done.told[i] = "nothing"    -> track[i]
          [] done.told[i] = "terminated" -> [Unknown EXCEPT !.state = "terminated"]
          [] OTHER -> [state |-> done.told[i], index |-> InHand.index,
                       time |-> InHand.time, class |-> done.tracker.class[i]]]

\* The backend lists its targets and the adapter makes observations of them.
Track(detections) ==
    \E targets \in TargetLists(backend.held, backend.issued) :
      \E matched \in Associations(targets, detections) :
        LET listed == {targets[i].id : i \in DOMAIN targets}
            done   == Translate(Now, targets, detections, matched)
        IN  /\ tracker' = done.tracker
            /\ backend' = [held |-> listed, issued |-> IF backend.issued + 1 \in listed
                                                       THEN backend.issued + 1 ELSE backend.issued]
            /\ IF done.failed THEN ConsumeFails /\ UNCHANGED track
               ELSE Consume /\ track' = Told(done)

ConsumeFrame ==
    /\ At("consumer", "consume")
    /\ \E d \in {Detecting(host, rows) : host \in Hosts, rows \in Outputs} :
         /\ detector' = d.detector
         /\ \/ /\ d.found = None
               /\ ConsumeFails
               /\ UNCHANGED <<tracker, backend, track>>
            \/ /\ d.found # None /\ OutOfOrder
               /\ ConsumeFails
               /\ UNCHANGED <<tracker, backend, track>>
            \/ /\ d.found # None /\ ~OutOfOrder
               /\ Track(d.found)
            \/ /\ d.found # None /\ ~OutOfOrder   \* the backend cannot be had, or raises
               /\ ConsumeFails
               /\ tracker' = Now
               /\ UNCHANGED <<backend, track>>
    /\ clock' = [clock EXCEPT ![InHand.index + 1] = 0]
    /\ UNCHANGED <<equipment, policy>>

\* After the run the application closes what it started.
CloseVision ==
    /\ run.pc = "ended"
    /\ detector' = Unloaded /\ policy' = NotStarted
    /\ tracker' = NewTracker /\ backend' = NewBackend
    /\ track' = [i \in Ids |-> Unknown]
    /\ UNCHANGED <<pipelineVars, equipment, clock>>

-----------------------------------------------------------------------------
VisionNext == ReadTimedFrame \/ PipelineStep \/ StartPolicy \/ WarmUp \/ ConsumeFrame \/ CloseVision

\* As for the pipeline; a frame that is consumed is worked on to its end.
VisionFairness ==
    /\ WF_vars(ReadTimedFrame \/ ((ReadNothing \/ Reconnect \/ NeverReturns) /\ UNCHANGED visionVars))
    /\ WF_vars(ResumePut /\ UNCHANGED visionVars)
    /\ WF_vars(ConsumeFrame \/ (StartGet /\ UNCHANGED visionVars))
    /\ WF_vars((ShutDown \/ Join \/ CleanUp) /\ UNCHANGED visionVars)

VisionSpec == VisionInit /\ [][VisionNext]_vars /\ VisionFairness

-----------------------------------------------------------------------------
Follows(t) == t.state \in {"active", "lost"}

\* Whatever is read, dropped by the queue, dated by two clocks or missed by the
\* backend, what is told of a track is one story: with every frame that is consumed
\* each track that was told and has not ended is told once more, later, never
\* earlier, in the class it had, and its end is told once and is the last of it;
\* nobody is ended who was not told (bytetrack_adapter.py:350-495).
TracksAreWhole ==
    consumed' # consumed =>
      \A i \in Ids :
        /\ Follows(track[i]) /\ track'[i].state # "terminated" =>
             /\ Follows(track'[i]) /\ track'[i].index = InHand.index
             /\ track'[i].index > track[i].index
             /\ track'[i].time >= track[i].time
             /\ track'[i].class = track[i].class
        /\ track[i].state = "terminated" => track'[i] = track[i]
        /\ track[i].state = "nothing" => track'[i].state # "terminated"
        /\ Follows(track'[i]) <=> i \in Seen(tracker')

\* The policy never lets a frame be detected on a device it did not select, but
\* for the first: it asks the detector before that has loaded (policy.py:247-262).
DeviceIsStable ==
    consumed' # consumed /\ equipment.governed /\ detector.loaded
      => detector'.device = policy.device

\* What is told of the tracks of any two frames is whole, and of frames that were
\* looked at by the device that was meant.
ObservationsAreSound == [][TracksAreWhole /\ DeviceIsStable]_vars
=============================================================================
