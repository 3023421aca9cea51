-------------------------- MODULE MCSpatialTracking --------------------------
(* A zone with two tables, a queue and an entrance line, and what may be    *)
(* wrong with them; two regions of the image; or one of which the second    *)
(* profile of the camera knows nothing.                                     *)
EXTENDS SpatialTracking

Box(x1, y1, x2, y2) == <<<<x1, y1>>, <<x2, y1>>, <<x2, y2>>, <<x1, y2>>>>
Clockwise(x1, y1, x2, y2) == <<<<x1, y1>>, <<x1, y2>>, <<x2, y2>>, <<x2, y1>>>>

Venue(coordinates) == Geometry("polygon", "venue_local", "venue", coordinates, None)
Image(coordinates) == Geometry("polygon", "image_normalized", "camera", coordinates, 1)
Line(coordinates)  == Geometry("linestring", "venue_local", "venue", coordinates, None)

ZoneAt(id, ring, tables) ==
    [Entity("zone", id, Venue(ring)) EXCEPT !.tables = tables]
Queue(ring) == [Entity("queue_area", 6, Venue(ring)) EXCEPT !.zone = 2]
Entrance(geometry) == [Entity("entrance", 7, geometry) EXCEPT !.direction = "in"]
Privacy(id, geometry) == [Entity("privacy_roi", id, geometry) EXCEPT !.cameras = {1}]
Exclusion(geometry, tasks) ==
    [Entity("exclusion_roi", 9, geometry) EXCEPT !.cameras = {1}, !.tasks = tasks]

Cross == Box(1, -1, 3, 5)

TwoProfiles ==
    {Camera(1, Physical, {}, {8}, {}), Camera(2, Physical, {}, {}, {}),
     Privacy(8, Image(Box(1, 1, 3, 3)))}

\* One of each choice: sound ones, ones validation rejects, ones it lets pass.
MCContents ==
    {{Camera(1, Physical, zones, {8} \cap rois, {9} \cap rois),
      ZoneAt(2, Box(0, 0, 6, 4), tables), Entity("table", 3, Venue(Box(1, 1, 3, 3))),
      Entity("table", 4, Venue(second)), Queue(queue), Entrance(line)}
     \cup (IF 8 \in rois THEN {Privacy(8, Venue(Box(3, 1, 8, 5)))} ELSE {})
     \cup (IF 9 \in rois THEN {Exclusion(Venue(Box(0, 0, 8, 8)), {"counting"})} ELSE {}) :
        zones \in {{2}, {3}},
        tables \in {{3, 4}, {7}, {5}},
        second \in {Box(3, 1, 5, 3), Cross, Clockwise(0, 1, 4, 3)},
        queue \in {Box(0, 2, 2, 4), Box(0, 2, 2, 6)},
        line \in {Line(<<<<3, 4>>, <<3, -9>>>>), Venue(Box(0, 0, 1, 1))},
        rois \in {{}, {8, 9}}}
    \cup {{Camera(1, Physical, {}, {8}, {9}), Privacy(8, Image(Box(1, 1, 3, 3))),
           Exclusion(Image(ring), tasks)} :
            ring \in {Box(0, 0, 4, 4), <<<<0, 0>>, <<4, 4>>, <<4, 0>>, <<0, 4>>>>},
            tasks \in {{"counting"}, {"detection"}}}
    \cup {{ZoneAt(2, Box(0, 0, 4, 4), {})}, TwoProfiles}

MCCameraStatus == <<>>

MCPositions == ({1, 2, 4, 7} \X {2, 3, 5}) \cup {<<3, 2>>}
=============================================================================
