--------------------------- MODULE MCCameraModel ---------------------------
(* The camera grid with two cameras, both of which the deployment wants    *)
(* split in two.                                                           *)
EXTENDS CameraModel, TLC

CONSTANTS c1, c2

AllAuto == (c1 :> 2) @@ (c2 :> 2)

\* The cameras are treated alike.
Symmetry == Permutations(Cameras)

\* Readings are stored in the rows, but no other field ever depends on them:
\* the states are told apart by everything else.
WithoutReadings ==
    <<[r \in DOMAIN cameras |-> [cameras[r] EXCEPT !.deviceInfo = NoReading]],
      nextSlotId, nextSplitGroupId, autoSplitAppliedSlotIds, retired>>

=============================================================================
