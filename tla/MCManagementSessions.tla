------------------------ MODULE MCManagementSessions ------------------------
(* The model of ManagementSessions that TLC checks. *)
EXTENDS ManagementSessions, TLC

CONSTANTS c1, c2, p1, p2, t1, t2, k1, k2, f1, f2

TwoCallers == {c1, c2}
TwoProfiles == {p1, p2}
TwoTokens == {t1, t2}
TwoPairings == {k1, k2}
TwoConfigs == {f1, f2}

\* Both configurations are of the first profile; the other has plain sessions.
OneIdentity == (f1 :> p1) @@ (f2 :> p1)

\* A browser that retries, retries with another configuration, and a
\* second browser whose retry window closes earlier.
Browsers ==
    {[token |-> t1, pairing |-> k1, config |-> f1],
     [token |-> t1, pairing |-> k1, config |-> f2],
     [token |-> t2, pairing |-> k2, config |-> f2]}

Windows == (t1 :> 3) @@ (t2 :> 1)

Interchangeable == Permutations({c1, c2})
=============================================================================
