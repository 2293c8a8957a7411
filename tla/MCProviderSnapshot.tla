------------------------- MODULE MCProviderSnapshot -------------------------
(* The model of ProviderSnapshot that TLC checks: model values for clients. *)
EXTENDS ProviderSnapshot, TLC

CONSTANTS w1, w2, r1, r2, c1

OneWriter == {w1}
TwoWriters == {w1, w2}
OneReader == {r1}
TwoReaders == {r1, r2}
OneClearer == {c1}
Nobody == {}

\* Writers differ in nothing but their names, and so do readers.
Interchangeable == Permutations({w1, w2}) \cup Permutations({r1, r2})
=============================================================================
