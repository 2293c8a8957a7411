------------------------- MODULE MCSubtitleManifests -------------------------
(* The model of SubtitleManifests that TLC checks. *)
EXTENDS SubtitleManifests

CONSTANTS p1, d1, a1, w1, w2

OneOwner == [d \in Devices |-> p1]
OneDevice == [a \in Artifacts |-> d1]
=============================================================================
