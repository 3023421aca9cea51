----------------------------- MODULE SpatialEngine -----------------------------
(***************************************************************************)
(* Where a track is, and which lines it crosses (intelligence/spatial): a  *)
(* point of one camera is evaluated against the pinned configuration.  An  *)
(* error ends the evaluation; the first one raised is the answer.          *)
(***************************************************************************)
EXTENDS ConfigurationValidation, SequencesExt

\* What an evaluation raises, by name (exceptions.py).
Errors == {"invalid_input", "not_published", "camera_not_in_configuration",
           "reference_integrity", "boundary_policy_undefined", "venue_point_required",
           "transition_scope", "transition_order", "line_not_applicable", "invalid_line"}

ASSUME NoErrorAssumption == None \notin Errors

Observation(status, zone, table, contained) ==
    [error |-> None, status |-> status, zone |-> zone, table |-> table,
     contained |-> contained]

Raise(error) ==
    [error |-> error, status |-> None, zone |-> None, table |-> None, contained |-> {}]

\* The first answer that is one.
Else(first, then) == IF first # None THEN first ELSE then

Least(S) == CHOOSE n \in S : \A m \in S : n <= m

Point(p, space) == [at |-> p, space |-> space]

ValidPoint(point) == point.space = "image_normalized" => InUnit(point.at)

-----------------------------------------------------------------------------
(* What the camera of the point declares.                                  *)

\* The profiles the resolution of a physical camera may end at: the first of a list
\* that no query has ordered, when several profiles name the camera.
ResolveCamera(content, physical) ==
    LET found == {c \in Of(content, "camera") : c.camera = physical}
    IN  IF found = {} THEN {None} ELSE found

Declared(content, kind, refs) == {e \in Of(content, kind) : e.id \in refs}

\* A reference that names no entity of its kind, or one of the wrong geometry.
BrokenRefs(content, kind, refs) ==
    \/ ~(refs \subseteq Ids(Of(content, kind)))
    \/ \E e \in Declared(content, kind, refs) : ~Permits(kind, e.geometry)

\* A priority is a sequence of ids, each once, all of them declared.
BrokenPriority(priority, declared) ==
    IF ~IsInjective(priority) THEN "invalid_input"
    ELSE IF Range(priority) \subseteq declared THEN None ELSE "reference_integrity"

\* All errors of reference before anything is located.
ReferenceError(content, camera, zonePriority, tablePriority) ==
    LET zoneTables == UNION {z.tables : z \in Of(content, "zone")}
        tables     == Ids(Of(content, "table"))
        broken     == \/ ~(zoneTables \subseteq tables)
                      \/ BrokenRefs(content, "zone", camera.zones)
                      \/ BrokenRefs(content, "table", tables)
                      \/ BrokenRefs(content, "privacy_roi", camera.privacy)
                      \/ BrokenRefs(content, "exclusion_roi", camera.exclusion)
    IN  Else(BrokenPriority(zonePriority, camera.zones),
        Else(BrokenPriority(tablePriority, tables),
             IF broken THEN "reference_integrity" ELSE None))

-----------------------------------------------------------------------------
(* Passes over ROIs, zones and tables, in the order of their ids.          *)

Location(point, e) ==
    IF ~ValidPolygon(e.geometry) THEN "invalid" ELSE Locate(point.at, Ring(e.geometry))

\* A boundary has no policy, and what is not a polygon breaks the reference.
Undefined(location) ==
    CASE location = "boundary" -> "boundary_policy_undefined"
      [] location = "invalid"  -> "reference_integrity"
      [] OTHER                 -> None

\* The first ROI of the space of the point that does not have it outside.
RoiPass(point, rois) ==
    LET hits == {r \in rois : r.geometry.space = point.space /\ Location(point, r) # "outside"}
        hit  == CHOOSE r \in hits : r.id = Least(Ids(hits))
    IN  IF hits = {} THEN [error |-> None, roi |-> None]
        ELSE [error |-> Undefined(Location(point, hit)), roi |-> hit.id]

\* The one that has the point inside, or the first of a priority that does.  Null
\* with several and no priority: the point is ambiguous.
Membership(point, entities, priority) ==
    LET unclear == {e \in entities : Location(point, e) \in {"boundary", "invalid"}}
        inside  == Ids({e \in entities : Location(point, e) = "inside"})
        chosen  == SelectSeq(priority, LAMBDA id : id \in inside)
        first   == CHOOSE e \in unclear : e.id = Least(Ids(unclear))
        primary == IF Cardinality(inside) = 1 THEN Least(inside)
                   ELSE IF Cardinality(inside) > 1 /\ chosen # <<>> THEN chosen[1] ELSE None
    IN  [error |-> IF unclear = {} THEN None ELSE Undefined(Location(point, first)),
         in |-> primary, ambiguous |-> Cardinality(inside) > 1 /\ primary = None]

\* A table is reported whether or not a zone is; an ambiguity of either is one of both.
Combined(content, zones, tables) ==
    IF zones.ambiguous \/ tables.ambiguous THEN Observation("ambiguous", None, None, {})
    ELSE IF zones.in = None THEN Observation("outside", None, tables.in, {})
    ELSE Observation("inside", zones.in, tables.in,
                     (CHOOSE z \in Of(content, "zone") : z.id = zones.in).tables)

DeclaresVenueGeometry(content, camera) ==
    \/ camera.zones # {} \/ Of(content, "table") # {}
    \/ \E r \in Declared(content, "privacy_roi", camera.privacy)
             \cup Declared(content, "exclusion_roi", camera.exclusion) :
         r.geometry.space = "venue_local"

\* Mutant of Evaluate: exclusion is looked at before privacy.
EvaluateExclusionFirst(content, status, camera, point, zonePriority, tablePriority) ==
    LET privacy   == RoiPass(point, Declared(content, "privacy_roi", camera.privacy))
        exclusion == RoiPass(point, Declared(content, "exclusion_roi", camera.exclusion))
        zones     == Membership(point, Declared(content, "zone", camera.zones), zonePriority)
        tables    == Membership(point, Of(content, "table"), tablePriority)
        error     == ReferenceError(content, camera, zonePriority, tablePriority)
    IN  IF ~ValidPoint(point) THEN Raise("invalid_input")
        ELSE IF status # "published" THEN Raise("not_published")
        ELSE IF camera = None THEN Raise("camera_not_in_configuration")
        ELSE IF error # None THEN Raise(error)
        ELSE IF exclusion.error # None THEN Raise(exclusion.error)
        ELSE IF exclusion.roi # None THEN Observation("excluded", None, None, {})
        ELSE IF privacy.error # None THEN Raise(privacy.error)
        ELSE IF privacy.roi # None THEN Observation("privacy", None, None, {})
        ELSE IF zones.error # None \/ tables.error # None
             THEN Raise(Else(zones.error, tables.error))
        ELSE Combined(content, zones, tables)

\* evaluate_spatial, for the profile the camera was resolved to.
Evaluate(content, status, camera, point, zonePriority, tablePriority) ==
    LET privacy   == RoiPass(point, Declared(content, "privacy_roi", camera.privacy))
        exclusion == RoiPass(point, Declared(content, "exclusion_roi", camera.exclusion))
        zones     == Membership(point, Declared(content, "zone", camera.zones), zonePriority)
        tables    == Membership(point, Of(content, "table"), tablePriority)
        error     == ReferenceError(content, camera, zonePriority, tablePriority)
    IN  IF ~ValidPoint(point) THEN Raise("invalid_input")
        ELSE IF status # "published" THEN Raise("not_published")
        ELSE IF camera = None THEN Raise("camera_not_in_configuration")
        ELSE IF error # None THEN Raise(error)
        ELSE IF privacy.error # None THEN Raise(privacy.error)
        ELSE IF privacy.roi # None THEN Observation("privacy", None, None, {})
        ELSE IF exclusion.error # None THEN Raise(exclusion.error)
        ELSE IF exclusion.roi # None THEN Observation("excluded", None, None, {})
        ELSE IF point.space = "image_normalized" /\ DeclaresVenueGeometry(content, camera)
             THEN Raise("venue_point_required")
        ELSE IF zones.error # None \/ tables.error # None
             THEN Raise(Else(zones.error, tables.error))
        ELSE Combined(content, zones, tables)

-----------------------------------------------------------------------------
(* Line crossings.                                                         *)

Crossing(error, state, direction) == [error |-> error, state |-> state, direction |-> direction]
NoCrossing == Crossing(None, "no_crossing", "unknown")

AppliesTo(line, camera) ==
    IF line.geometry.scope = "camera" THEN line.geometry.camera = camera.id
    ELSE line.cameras = {} \/ camera.id \in line.cameras

\* The movement from p to q crosses the edge: their ends are on different sides
\* of each other, and the ends of the edge are not on the way.
CrossesEdge(p, q, e) ==
    LET a == SideOfLine(p, q, e[1])
        b == SideOfLine(p, q, e[2])
    IN  /\ SideOfLine(e[1], e[2], p) # SideOfLine(e[1], e[2], q)
        /\ a # "on_line" /\ b # "on_line" /\ a # b

\* Mutant of ClassifyCrossing: forward is taken for from the right to the left.
ClassifyCrossingSwapped(p, q, vertices, directional) ==
    LET edges   == [i \in 1..(Len(vertices) - 1) |-> <<vertices[i], vertices[i + 1]>>]
        touched == \E i \in DOMAIN edges : OnSegment(edges[i][1], edges[i][2], p)
                                           \/ OnSegment(edges[i][1], edges[i][2], q)
        crossed == {i \in DOMAIN edges : CrossesEdge(p, q, edges[i])}
        edge    == edges[Least(crossed)]
    IN  IF touched \/ crossed = {} THEN NoCrossing
        ELSE Crossing(None, "crossed",
            IF ~directional THEN "unknown"
            ELSE IF SideOfLine(edge[1], edge[2], q) = "left" THEN "forward" ELSE "reverse")

\* A point on the line is no crossing.  Of several edges the first decides.
ClassifyCrossing(p, q, vertices, directional) ==
    LET edges   == [i \in 1..(Len(vertices) - 1) |-> <<vertices[i], vertices[i + 1]>>]
        touched == \E i \in DOMAIN edges : OnSegment(edges[i][1], edges[i][2], p)
                                           \/ OnSegment(edges[i][1], edges[i][2], q)
        crossed == {i \in DOMAIN edges : CrossesEdge(p, q, edges[i])}
        edge    == edges[Least(crossed)]
    IN  IF touched \/ crossed = {} THEN NoCrossing
        ELSE Crossing(None, "crossed",
            IF ~directional THEN "unknown"
            ELSE IF /\ SideOfLine(edge[1], edge[2], p) = "left"
                    /\ SideOfLine(edge[1], edge[2], q) = "right"
                 THEN "forward" ELSE "reverse")

\* evaluate_line_crossing: prev and cur are observations [frame, time, point] of one
\* track and session.
EvaluateCrossing(content, status, camera, prev, cur, line) ==
    IF \/ ~ValidPoint(prev.point) \/ ~ValidPoint(cur.point)
       \/ prev.point.space # cur.point.space THEN Crossing("invalid_input", None, None)
    ELSE IF status # "published" THEN Crossing("not_published", None, None)
    ELSE IF camera = None THEN Crossing("camera_not_in_configuration", None, None)
    ELSE IF prev.track # cur.track THEN Crossing("transition_scope", None, None)
    ELSE IF cur.frame = prev.frame \/ cur.time < prev.time
         THEN Crossing("transition_order", None, None)
    ELSE IF line \notin Of(content, "entrance")
         THEN Crossing("reference_integrity", None, None)
    ELSE IF ~AppliesTo(line, camera) THEN Crossing("line_not_applicable", None, None)
    ELSE IF ~ValidLineString(line.geometry) THEN Crossing("invalid_line", None, None)
    ELSE IF line.geometry.space # cur.point.space
         THEN Crossing(IF cur.point.space = "image_normalized"
                       THEN "venue_point_required" ELSE "invalid_line", None, None)
    ELSE ClassifyCrossing(prev.point.at, cur.point.at, line.geometry.coordinates,
                               line.direction # "bidirectional")
=============================================================================
