---------------------------- MODULE SpatialTracking ----------------------------
(***************************************************************************)
(* A content is validated and published as it is; a session is pinned to   *)
(* it and follows one track of one camera over its frames: each position   *)
(* is evaluated against the configuration, each movement against all of    *)
(* its entrance lines.                                                     *)
(***************************************************************************)
EXTENDS SpatialEngine

CONSTANTS
    Layouts,               \* contents a version may be given
    Positions, Spaces,     \* points a track may be at, in one space for a session
    Physical,              \* the camera of the session
    MaxFrames              \* bound

\* Every entity has an id, and the points of its geometry are on the grid.
ASSUME LayoutsAssumption ==
    \A c \in Layouts : \A e \in c :
        /\ e.id \in Nat /\ e.id # None
        /\ e.geometry # None => e.geometry.coordinates \in Seq(Int \X Int)

ASSUME SpacesAssumption == Spaces \subseteq {"venue_local", "image_normalized"}

VARIABLES
    layout, stage,         \* the version
    space,                 \* of the points of the session
    path,                  \* observations of the track, in the order of the frames
    seen,                  \* the evaluation of the last, and
    crossings              \* history: of each line the crossings the track made

spatialVars == <<layout, stage, space, path, seen, crossings>>

SpatialInit ==
    /\ layout \in Layouts /\ stage = "draft"
    /\ space \in Spaces
    /\ path = <<>> /\ seen = None
    /\ crossings = [e \in Of(layout, "entrance") |-> <<>>]

\* The verdict decides: an error leaves the draft a draft.
Validate ==
    /\ stage = "draft" /\ Hydrates(layout, stage)
    /\ Valid(layout)
    /\ stage' = "validated"
    /\ UNCHANGED <<layout, space, path, seen, crossings>>

PublishContent ==
    /\ stage = "validated"
    /\ stage' = "published"
    /\ UNCHANGED <<layout, space, path, seen, crossings>>

\* In an image the feet of a box that starts at its top stand for the track.
BoxAt(p) == <<p[1], 0, p[1], p[2]>>
Visible(p) == space = "image_normalized" => ValidBox(BoxAt(p))
PointAt(p) ==
    Point(IF space = "image_normalized" THEN ExtractPoint(BoxAt(p), "footpoint") ELSE p, space)

Sighting(p) == [track |-> 1, frame |-> Len(path) + 1, time |-> Len(path) + 1, point |-> PointAt(p)]

\* A frame of the track: where it is, and which lines it has crossed since the last.
Frame ==
    /\ stage = "published" /\ Len(path) < MaxFrames
    /\ Hydrates(layout, stage)
    /\ \E p \in Positions, camera \in ResolveCamera(layout, Physical) :
         /\ Visible(p)
         /\ path' = Append(path, Sighting(p))
         /\ seen' = Evaluate(layout, stage, camera, PointAt(p), <<>>, <<>>)
         /\ crossings' = [e \in DOMAIN crossings |->
              IF path = <<>> THEN crossings[e]
              ELSE Append(crossings[e], EvaluateCrossing(layout, stage, camera,
                                            path[Len(path)], Sighting(p), e))]
    /\ UNCHANGED <<layout, stage, space>>

SpatialNext == Validate \/ PublishContent \/ Frame

SpatialSpec == SpatialInit /\ [][SpatialNext]_spatialVars

-----------------------------------------------------------------------------
(* Properties.                                                             *)

\* An id that is referred to as what it is not, which validation does not ask.
Misused ==
    LET others(kind) == Ids(layout) \ Ids(Of(layout, kind))
    IN  \/ \E c \in Of(layout, "camera") :
             \/ c.zones \cap others("zone") # {} \/ c.privacy \cap others("privacy_roi") # {}
             \/ c.exclusion \cap others("exclusion_roi") # {}
        \/ \E z \in Of(layout, "zone") : z.tables \cap others("table") # {}

\* What is validated evaluates: no reference is found broken, and no line invalid,
\* once a track is followed, but for an id of another kind and for an entrance that
\* is a polygon, which validation allows (validators.py:482, engine.py:416).
ValidatedEvaluates ==
    /\ seen # None /\ ~Misused => seen.error # "reference_integrity"
    /\ \A e \in DOMAIN crossings, i \in 1..(Len(path) - 1) :
         /\ crossings[e][i].error # "reference_integrity"
         /\ crossings[e][i].error = "invalid_line" => e.geometry.type = "polygon"

\* A point within a privacy region its camera declares, in each profile it has, is
\* never told as anything but private, whatever else is there (engine.py: privacy
\* has "supreme precedence").
PrivacyIsSupreme ==
    seen # None /\ seen.error = None /\ seen.status # "privacy" =>
        \A r \in Of(layout, "privacy_roi") :
            \/ r.geometry.space # space
            \/ \E c \in ResolveCamera(layout, Physical) : r.id \notin c.privacy
            \/ Locate(path[Len(path)].point.at, Ring(r.geometry)) = "outside"

\* engine.py: "results never depend on database or list ordering".  They do when
\* two profiles of a version name one physical camera, which validation allows.
OrderDoesNotMatter ==
    seen # None =>
        \A c \in ResolveCamera(layout, Physical) :
            seen = Evaluate(layout, stage, c, path[Len(path)].point, <<>>, <<>>)

\* What the crossings of a line have to do with where the track is: if it was never
\* on the line, which is straight, and went from one side to the other only between
\* the ends, it has crossed it forward once more often than in reverse when it is now
\* on the right and started on the left, and so on.
Balances(e) ==
    LET line      == e.geometry.coordinates
        Where(i)  == path[i].point.at
        Side(i)   == SideOfLine(line[1], line[2], Where(i))
        Passes(i) == {SideOfLine(Where(i), Where(i + 1), line[1]),
                      SideOfLine(Where(i), Where(i + 1), line[2])} = {"left", "right"}
        Count(d)  == Cardinality({i \in DOMAIN crossings[e] : crossings[e][i].direction = d})
        Value(s)  == IF s = "right" THEN 1 ELSE 0
    IN  (/\ path # <<>> /\ e.geometry.type = "linestring" /\ Len(line) = 2
         /\ e.direction # "bidirectional"
         /\ \A i \in DOMAIN path : Side(i) # "on_line"
         /\ \A i \in 1..(Len(path) - 1) : Side(i) # Side(i + 1) => Passes(i)
         /\ \A i \in DOMAIN crossings[e] : crossings[e][i].error = None)
        => Count("forward") - Count("reverse") = Value(Side(Len(path))) - Value(Side(1))

\* No crossing of a line is counted twice, missed or turned round.
CrossingsBalance == \A e \in DOMAIN crossings : Balances(e)
=============================================================================
