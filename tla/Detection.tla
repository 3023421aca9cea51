------------------------------- MODULE Detection -------------------------------
(***************************************************************************)
(* What is detected in a frame: the registry of approved models, the       *)
(* YOLO adapter and the execution policy around it (intelligence/          *)
(* detectors).  The SDK is a choice over what it may return.  Pixels,      *)
(* confidences and coordinates are kept only as far as they decide         *)
(* between an observation and an error.                                    *)
(***************************************************************************)
EXTENDS Naturals, Sequences, FiniteSets

CONSTANTS
    None,
    Registry,       \* the models that are registered
    Artifacts,      \* of each URI the file: its state and the names its model has
    MaxDetections   \* max_detections

\* An id and a version are registered once (register refuses the second).
ASSUME DetectionAssumption ==
    /\ MaxDetections \in Nat \ {0}
    /\ \A d \in Registry : d.uri \in DOMAIN Artifacts
    /\ \A d, e \in Registry : d.id = e.id /\ d.version = e.version => d = e

-----------------------------------------------------------------------------
(* The registry: what resolves may be used.                                *)
Versions(id) == {d \in Registry : d.id = id}

\* Without a version there must be no choice; only active models are served.
Resolve(id, version) ==
    {d \in Versions(id) :
        /\ version = None => Cardinality(Versions(id)) = 1
        /\ version # None => d.version = version
        /\ d.state = "active"}

-----------------------------------------------------------------------------
(* Devices.                                                                *)

\* The best there is when it is left open, never another than was asked for but
\* with leave to fall back; host are the accelerators a probe finds.
ResolveDevice(config, host) ==
    CASE config.device = "cpu"    -> "cpu"
      [] config.device = "auto"   -> IF "cuda" \in host THEN "cuda"
                                     ELSE IF "mps" \in host THEN "mps" ELSE "cpu"
      [] config.device \in host   -> config.device
      [] OTHER                    -> IF config.fallback THEN "cpu" ELSE None

-----------------------------------------------------------------------------
(* The adapter: the device and the model are acquired once, at first use.  *)
Unloaded == [loaded |-> FALSE, device |-> None, names |-> <<>>]

NamesOf(sequence) == {sequence[i] : i \in DOMAIN sequence}

\* The file is compared with its digest where it is at hand, and its table of
\* names with the declared one, in any order.
Loadable(spec, device) ==
    LET artifact == Artifacts[spec.uri] IN
    /\ artifact.state \in {"sound", "remote"}
    /\ device # None
    /\ artifact.names # <<>> /\ "" \notin NamesOf(artifact.names)
    /\ NamesOf(artifact.names) = spec.names

\* Load(detector, ...) is the detector once it could be loaded, else it is not
\* loaded, and the call fails.
Load(detector, spec, config, host) ==
    LET device == ResolveDevice(config, host) IN
    IF detector.loaded \/ ~Loadable(spec, device) THEN detector
    ELSE [loaded |-> TRUE, device |-> device, names |-> Artifacts[spec.uri].names]

\* Corners in order and a size, within the image but for what rounding adds.
WellFormed(row, names) ==
    /\ row.class \in DOMAIN names
    /\ row.box \in {"inside", "rounded"} /\ row.confidence \in {"inside", "rounded"}

\* A row that is malformed fails the frame, also one past the limit.
Translated(rows, names) ==
    IF \E i \in DOMAIN rows : ~WellFormed(rows[i], names) THEN None
    ELSE [i \in 1 .. (IF Len(rows) < MaxDetections THEN Len(rows) ELSE MaxDetections) |->
            names[rows[i].class]]

\* The classes detected in a frame, or None.  Rows is None when the image cannot
\* be decoded or the model raises.
Detect(detector, rows) ==
    IF ~detector.loaded \/ rows = None THEN None ELSE Translated(rows, detector.names)

-----------------------------------------------------------------------------
(* The policy selects a device once and refuses a detector that reports    *)
(* another.  A detector that is not loaded reports none.                   *)
NotStarted == [started |-> FALSE, device |-> None]

Started(policy, config, host) ==
    LET device == ResolveDevice(config, host) IN
    IF policy.started \/ device = None THEN policy
    ELSE [started |-> TRUE, device |-> device]

AssertDeviceStable(policy, detector) ==
    policy.started /\ detector.device \in {None, policy.device}
=============================================================================
