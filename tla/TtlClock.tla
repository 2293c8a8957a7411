------------------------------ MODULE TtlClock ------------------------------
(***************************************************************************)
(* The clock of the Redis server and the names that the TTL repositories   *)
(* share.  A key whose expiry is u exists while now <= u; the scripts      *)
(* compare `expiresAt <= now` themselves, so that in the instant u the key *)
(* is there and counts as expired.                                         *)
(***************************************************************************)
EXTENDS Integers, FiniteSets

CONSTANTS
    Pairings,   \* pairing ids
    Tokens,     \* activation retry tokens, chosen by browsers
    Configs,    \* configurations; a pairing is activated with one of them
    Profiles,   \* durable profiles
    ProfileOf,  \* the profile that provisioning gives to a configuration
    None        \* no pairing, token, configuration or profile

ASSUME NamesAssumption ==
    /\ ProfileOf \in [Configs -> Profiles]
    /\ None \notin Pairings \cup Tokens \cup Configs \cup Profiles

VARIABLE now

\* What a script takes as expired.
Over(u) == u <= now

\* What Redis has dropped by the time t.
DroppedAt(u, t) == u < t

Earlier(a, b) == IF a <= b THEN a ELSE b

Later(a, b) == IF a >= b THEN a ELSE b
=============================================================================
