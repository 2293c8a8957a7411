------------------------ MODULE MCSubtitleDelivery ------------------------
(* The models of SubtitleDelivery that TLC checks. *)
EXTENDS SubtitleDelivery, TLC

CONSTANTS a1, a2, r1, r2, k1, w1

Interchangeable == Permutations({a1, a2}) \cup Permutations({r1, r2})
===========================================================================
