------------------------ MODULE ConfigurationValidation ------------------------
(***************************************************************************)
(* The validation engine (domain/configuration/validation) and the         *)
(* contract a version is hydrated into.  A content is a set of entities of *)
(* eight kinds; ids are numbers, in the order of the names they stand for. *)
(* A finding is the code of a rule and the entity it is about.             *)
(***************************************************************************)
EXTENDS Geometry

CONSTANTS
    None,
    CameraStatus    \* the resolver: physical camera -> status, <<>> when there is none

-----------------------------------------------------------------------------
(* Entities.  Each kind uses its own part of the record.                   *)

Entity(kind, id, geometry) ==
    [kind |-> kind, id |-> id, geometry |-> geometry,
     zone |-> None,                            \* of an entrance or area: the zone it is in
     cameras |-> {},                           \* cameras an entity is restricted to
     tables |-> {}, contained |-> {},          \* of a zone: its tables, and all else in it
     camera |-> None, zones |-> {}, privacy |-> {}, exclusion |-> {},  \* of a camera
     direction |-> "bidirectional",            \* of an entrance
     action |-> "blur", tasks |-> {}]          \* of privacy and exclusion ROIs

Camera(id, physical, zones, privacy, exclusion) ==
    [Entity("camera", id, None) EXCEPT !.camera = physical, !.zones = zones,
                                       !.privacy = privacy, !.exclusion = exclusion]

Of(content, kind) == {e \in content : e.kind = kind}
Ids(entities) == {e.id : e \in entities}
GeometryEntities(content) == {e \in content : e.geometry # None}

\* What the entities read back must have: all but cameras a geometry, and each the
\* constructor accepts.
HydratesEntities(content) ==
    /\ \A e \in content : e.kind = "camera" \/ e.geometry # None
    /\ \A e \in GeometryEntities(content) : Constructible(e.geometry, None)

\* What the contract of a version demands besides.
Hydrates(content, status) ==
    /\ HydratesEntities(content)
    /\ \A d, e \in content : d.id = e.id => d = e
    /\ status = "published" => Of(content, "camera") # {}

-----------------------------------------------------------------------------
(* Policies of pairs of kinds.                                             *)

RejectsOverlap(k1, k2) == k1 = "table" /\ k2 = "table"

RequiresContainment(kind) == kind \in {"table", "queue_area", "service_area"}

WarningCodes == {"ZONE_UNCOVERED", "CAMERA_NO_CONFIGURED_COVERAGE"}

Finding(code, e) == [code |-> code, of |-> e.id]
IsError(finding) == finding.code \notin WarningCodes

-----------------------------------------------------------------------------
(* Stages.                                                                 *)

\* No id twice, over all kinds.
Structural(content) ==
    {Finding("DUPLICATE_IDENTIFIER", e) :
        e \in {x \in content : \E d \in content : d # x /\ d.id = x.id}}

\* Mutant of ReferencesOf: what a zone contains is not looked up.
ReferencesOfCameras(e) == e.zones \cup e.privacy \cup e.exclusion \cup e.cameras

\* All ids an entity refers to.  Whether what has the id is of the kind the
\* reference is for is not asked.
ReferencesOf(e) ==
    e.zones \cup e.privacy \cup e.exclusion \cup e.tables \cup e.contained \cup e.cameras
    \cup (IF e.zone = None THEN {} ELSE {e.zone})

References(content) ==
    {Finding("MISSING_REFERENCE", e) :
        e \in {x \in content : ReferencesOf(x) \ Ids(content) # {}}}

Coordinates(content) ==
    LET cameras == Ids(Of(content, "camera"))
        Stray(e) == e.geometry.scope = "camera" /\ e.geometry.camera \notin cameras
        Bound(e) == e.geometry.scope = "venue" /\ e.geometry.camera # None
    IN  {Finding("CAMERA_REFERENCE_INVALID", e) : e \in {x \in GeometryEntities(content) : Stray(x)}}
        \cup {Finding("COORDINATE_SPACE_INVALID", e) :
                e \in {x \in GeometryEntities(content) : Bound(x)}}

\* The types and spaces of geometry a kind allows.
Permits(kind, g) ==
    CASE kind \in {"zone", "table", "queue_area", "service_area"} ->
           g.type = "polygon" /\ g.space = "venue_local"
      [] kind = "entrance" -> g.type \in {"linestring", "polygon"} /\ g.space = "venue_local"
      [] kind \in {"privacy_roi", "exclusion_roi"} -> g.type = "polygon"
      [] kind = "camera" -> g.type = "point" /\ g.space = "venue_local"

Geometries(content) ==
    LET all      == GeometryEntities(content)
        fitting  == {e \in all : Permits(e.kind, e.geometry)}
        polygons == {e \in fitting : e.geometry.type = "polygon"}
    IN  {Finding("ENTITY_GEOMETRY_CONTRACT_VIOLATION", e) : e \in all \ fitting}
        \cup {Finding("GEOMETRY_SELF_INTERSECTION", e) :
                e \in {x \in polygons : SelfIntersecting(Ring(x.geometry))}}
        \cup {Finding("GEOMETRY_ZERO_AREA", e) :
                e \in {x \in polygons : Degenerate(Ring(x.geometry))}}

\* Overlaps and containment, each pair once, in the order of the ids.
Spatial(content) ==
    LET polygons == {e \in GeometryEntities(content) : e.geometry.type = "polygon"}
        Clashes(e) == \E d \in polygons :
            /\ d.id > e.id /\ RejectsOverlap(e.kind, d.kind)
            /\ MeaningfulOverlap(e.geometry, d.geometry)
        Leaves(e) == \E z \in Of(content, "zone") :
            /\ z.id = e.zone /\ RequiresContainment(e.kind) /\ z.geometry.type = "polygon"
            /\ \/ e.geometry.type # "polygon"
               \/ ~Within(Ring(z.geometry), Ring(e.geometry))
    IN  {Finding("TABLE_OVERLAP", e) : e \in {x \in polygons : Clashes(x)}}
        \cup {Finding("INVALID_CONTAINMENT", e) : e \in {x \in GeometryEntities(content) : Leaves(x)}}

Uncovered(content) ==
    LET cameras == Of(content, "camera")
    IN  {Finding("ZONE_UNCOVERED", z) :
            z \in {x \in Of(content, "zone") : \A c \in cameras : x.id \notin c.zones}}
        \cup {Finding("CAMERA_NO_CONFIGURED_COVERAGE", c) : c \in {x \in cameras : x.zones = {}}}

\* Without a resolver of physical cameras nothing is checked of them.
Cameras(content) ==
    LET cameras == Of(content, "camera")
        zones   == Ids(Of(content, "zone"))
    IN  IF CameraStatus = <<>> THEN {}
        ELSE {Finding("CAMERA_REFERENCE_INVALID", c) :
                c \in {x \in cameras : x.camera \notin DOMAIN CameraStatus}}
             \cup {Finding("CAMERA_UNAVAILABLE", c) :
                c \in {x \in cameras : x.camera \in DOMAIN CameraStatus
                         /\ CameraStatus[x.camera] \in {"retired", "disabled", "unavailable", "inactive"}}}
             \cup {Finding("CROSS_VERSION_REFERENCE", c) : c \in {x \in cameras : ~(x.zones \subseteq zones)}}
             \cup Uncovered(content)

\* The ROIs of a camera: those that name it; those that name none are kept apart.
RoisOf(content, kind, camera) ==
    {e \in Of(content, kind) : IF e.cameras = {} THEN camera = None ELSE camera \in e.cameras}

PrivacyPolicy(content) ==
    LET keys == {None} \cup UNION {e.cameras : e \in content}
        Conflicting(c) == Cardinality({p.action : p \in RoisOf(content, "privacy_roi", c)}) > 1
        Masks(x) == \E c \in keys : /\ x \in RoisOf(content, "exclusion_roi", c)
                                    /\ "detection" \in x.tasks
                                    /\ \E p \in RoisOf(content, "privacy_roi", c) :
                                         p.geometry.space = x.geometry.space
    IN  {[code |-> "PRIVACY_POLICY_CONFLICT", of |-> c] : c \in {k \in keys : Conflicting(k)}}
        \cup {Finding("EXCLUSION_POLICY_CONFLICT", x) :
                x \in {e \in Of(content, "exclusion_roi") : Masks(e)}}

\* The compatibility with computer vision warns of what is not covered.
CvCompatibility(content) == Uncovered(content)

GeometryFailureCodes ==
    {"GEOMETRY_EMPTY", "GEOMETRY_INVALID", "GEOMETRY_SELF_INTERSECTION", "GEOMETRY_ZERO_AREA",
     "GEOMETRY_TYPE_INVALID", "GEOMETRY_NOT_CLOSED", "GEOMETRY_OUT_OF_RANGE",
     "COORDINATE_SPACE_INVALID", "COORDINATE_MIXED_SPACES"}

\* The stage of spatial relations is left out when geometry or references failed.
RunAllValidators(content) ==
    LET geometryOk   == {f.code : f \in Geometries(content)} \cap GeometryFailureCodes = {}
        referencesOk == References(content) = {}
    IN  Structural(content) \cup References(content) \cup Coordinates(content)
        \cup Geometries(content)
        \cup (IF geometryOk /\ referencesOk THEN Spatial(content) ELSE {})
        \cup Cameras(content) \cup PrivacyPolicy(content) \cup CvCompatibility(content)

Valid(content) == \A f \in RunAllValidators(content) : ~IsError(f)
=============================================================================
