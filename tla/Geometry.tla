------------------------------- MODULE Geometry -------------------------------
(***************************************************************************)
(* Plane geometry of configured entities and observed points, on a grid of *)
(* integers: what lies within a tolerance of 1e-9 coincides.  A point is   *)
(* <<x, y>>; normalized coordinates run from 0 to Unit.                    *)
(***************************************************************************)
EXTENDS Integers, Sequences, FiniteSets, Functions

CONSTANT Unit    \* 1.0 in normalized coordinates, on the grid

ASSUME UnitAssumption == Unit \in Nat \ {0}

-----------------------------------------------------------------------------
(* Segments.                                                               *)

\* Twice the signed area of abp: positive when p is to the left of a -> b.
SignedSide(a, b, p) == (b[1] - a[1]) * (p[2] - a[2]) - (b[2] - a[2]) * (p[1] - a[1])

SideOfLine(a, b, p) ==
    CASE SignedSide(a, b, p) > 0 -> "left"
      [] SignedSide(a, b, p) < 0 -> "right"
      [] OTHER -> "on_line"

Between(u, v, w) == (u <= w /\ w <= v) \/ (v <= w /\ w <= u)

\* The distance of p to the segment is 0.
OnSegment(a, b, p) ==
    SignedSide(a, b, p) = 0 /\ Between(a[1], b[1], p[1]) /\ Between(a[2], b[2], p[2])

\* Each has its ends strictly on both sides of the other.
ProperlyIntersect(a, b, c, d) ==
    /\ {SideOfLine(a, b, c), SideOfLine(a, b, d)} = {"left", "right"}
    /\ {SideOfLine(c, d, a), SideOfLine(c, d, b)} = {"left", "right"}

-----------------------------------------------------------------------------
(* Geometries.                                                             *)

Geometry(type, space, scope, coordinates, camera) ==
    [type |-> type, space |-> space, scope |-> scope, coordinates |-> coordinates,
     camera |-> camera]

InUnit(p) == p[1] \in 0..Unit /\ p[2] \in 0..Unit

\* What the constructor of GeometryModel accepts; noCamera stands for no reference.
Constructible(g, noCamera) ==
    /\ Len(g.coordinates) >= CASE g.type = "point" -> 1 [] g.type = "linestring" -> 2
                               [] g.type = "polygon" -> 4
    /\ g.type = "point" => Len(g.coordinates) = 1
    /\ g.scope = "camera" => g.space = "image_normalized" /\ g.camera # noCamera
    /\ g.scope = "venue" => g.space = "venue_local"
    /\ g.space = "image_normalized" => \A i \in DOMAIN g.coordinates : InUnit(g.coordinates[i])

\* The ring of a polygon: closed when it was not.
Ring(g) ==
    IF g.coordinates[1] = g.coordinates[Len(g.coordinates)] THEN g.coordinates
    ELSE Append(g.coordinates, g.coordinates[1])

\* The edges of a closed ring, and of a line.
Edges(ring) == {<<ring[i], ring[i + 1]>> : i \in 1..(Len(ring) - 1)}

TwiceArea(ring) ==
    FoldFunction(+, 0, [i \in 1..(Len(ring) - 1) |->
                            ring[i][1] * ring[i + 1][2] - ring[i + 1][1] * ring[i][2]])

Degenerate(ring) == TwiceArea(ring) = 0

SelfIntersecting(ring) ==
    LET n == Len(ring) - 1
        Adjacent(i, j) == j = i + 1 \/ (i = 1 /\ j = n)
    IN  \E i, j \in 1..n :
          i < j /\ ~Adjacent(i, j)
                /\ ProperlyIntersect(ring[i], ring[i + 1], ring[j], ring[j + 1])

\* validate_polygon and validate_linestring, which the engines run again.
ValidPolygon(g) ==
    /\ g.type = "polygon"
    /\ Cardinality({Ring(g)[i] : i \in DOMAIN Ring(g)}) >= 3
    /\ ~Degenerate(Ring(g))
    /\ g.space = "image_normalized" => \A i \in DOMAIN g.coordinates : InUnit(g.coordinates[i])

ValidLineString(g) ==
    /\ g.type = "linestring" /\ Len(g.coordinates) >= 2
    /\ g.space = "image_normalized" => \A i \in DOMAIN g.coordinates : InUnit(g.coordinates[i])

-----------------------------------------------------------------------------
(* Points and polygons.                                                    *)

\* The ray from p to the right meets an edge which the height of p divides.
RayMeets(p, a, b) ==
    /\ (a[2] > p[2]) # (b[2] > p[2])
    /\ IF b[2] > a[2] THEN SignedSide(a, b, p) > 0 ELSE SignedSide(a, b, p) < 0

Locate(p, ring) ==
    IF \E e \in Edges(ring) : OnSegment(e[1], e[2], p) THEN "boundary"
    ELSE IF Cardinality({i \in 1..(Len(ring) - 1) : RayMeets(p, ring[i], ring[i + 1])}) % 2 = 1
         THEN "inside" ELSE "outside"

\* point_in_ring of the validator: the boundary counts.
PointInRing(p, ring) == Locate(p, ring) # "outside"

\* All vertices of one in the other.  For an outer ring that is not convex the
\* edges between them may leave it.
Within(outer, inner) == \A i \in DOMAIN inner : PointInRing(inner[i], outer)

\* An edge of one convex ring has all of the other on its outer side.
SeparatedBy(ring, other) ==
    LET s == IF TwiceArea(ring) > 0 THEN 1 ELSE -1
    IN  \E e \in Edges(ring) :
          e[1] # e[2] /\ \A i \in DOMAIN other : s * SignedSide(e[1], e[2], other[i]) <= 0

\* Clipping one convex ring by another leaves an area.  The clip keeps what is to
\* the left of each edge: of a ring drawn clockwise it keeps nothing.
ClipArea(subject, clip) ==
    TwiceArea(clip) > 0 /\ ~SeparatedBy(subject, clip) /\ ~SeparatedBy(clip, subject)

MeaningfulOverlap(g1, g2) ==
    g1.type = "polygon" /\ g2.type = "polygon" /\ ClipArea(Ring(g1), Ring(g2))

-----------------------------------------------------------------------------
(* The point that stands for a bounding box <<x_min, y_min, x_max, y_max>>,*)
(* of which the middle is on the grid.                                     *)
ValidBox(box) ==
    /\ \A i \in DOMAIN box : box[i] \in 0..Unit
    /\ box[1] <= box[3] /\ box[2] <= box[4]

ExtractPoint(box, policy) ==
    <<(box[1] + box[3]) \div 2,
      IF policy = "centroid" THEN (box[2] + box[4]) \div 2 ELSE box[4]>>
=============================================================================
