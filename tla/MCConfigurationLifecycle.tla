----------------------- MODULE MCConfigurationLifecycle -----------------------
EXTENDS ConfigurationLifecycle, TLC

CONSTANTS camera, zone, nothing, r1, r2

\* The camera and the zone are kept in a table each; a venue needs a camera.
OwnTable == camera :> 1 @@ zone :> 2
NeedsCamera == {{camera}, {camera, zone}}

\* One table with the camera alone.
OneTable == camera :> 1
OnlyCamera == {{camera}}

\* A revision that no content has.
Unchecked == {nothing}
=============================================================================
