------------------------- MODULE MCPairingActivation -------------------------
(* The models of PairingActivation that TLC checks. *)
EXTENDS PairingActivation, TLC

CONSTANTS b1, b2, q1, p1, p2, t1, t2, k1, f1, f2

TwoBrowsers == {b1, b2}
OnePoller == {q1}
TwoProfiles == {p1, p2}
TwoTokens == {t1, t2}
OnePairing == {k1}
TwoConfigs == {f1, f2}
TwoIdentities == (f1 :> p1) @@ (f2 :> p2)

\* Rivals on one user code, and retries that change the configuration.
RivalRetries == [token : {t1, t2}, pairing : {k1}, config : {f1, f2}]

\* The browsers; and everything that comes in twos, together.
Interchangeable ==
    Permutations({b1, b2}) \cup
    {(t1 :> t2) @@ (t2 :> t1) @@ (f1 :> f2) @@ (f2 :> f1) @@ (p1 :> p2) @@ (p2 :> p1)}
=============================================================================
