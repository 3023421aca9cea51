--------------------------- MODULE MCVisionPipeline ---------------------------
(* Small instances of VisionPipeline: two versions of a model, one of them  *)
(* with the wrong names; up to two persons or a chair in a frame.           *)
EXTENDS VisionPipeline

Errors == {"error"}

Model(version, state, uri) ==
    [id |-> "yolo", version |-> version, state |-> state, uri |-> uri,
     names |-> {"person", "chair"}]

MCRegistry == {Model("v1", "active", "sound"), Model("v2", "active", "other"),
               Model("v3", "disabled", "sound")}

MCArtifacts == [sound |-> [state |-> "sound", names |-> <<"chair", "person">>],
                other |-> [state |-> "sound", names |-> <<"person">>]]

Made(version, fallback, session, governed) ==
    [config |-> [device |-> "cuda", fallback |-> fallback],
     id |-> "yolo", version |-> version, session |-> session, governed |-> governed]

\* One that works, and of each kind that cannot work one: the wrong names, no version
\* to choose, a disabled model, another session.
MCEquipment == {Made("v1", TRUE, 1, TRUE), Made("v2", TRUE, 1, FALSE),
                Made(None, TRUE, 1, FALSE), Made("v3", TRUE, 1, FALSE),
                Made("v1", FALSE, 2, FALSE)}

MCHosts == {{}, {"cuda"}}

Row(class, box) == [class |-> class, box |-> box, confidence |-> "inside"]

MCOutputs == {None, <<>>, <<Row(1, "inside")>>, <<Row(2, "rounded")>>,
              <<Row(2, "inside"), Row(1, "outside")>>}
=============================================================================
