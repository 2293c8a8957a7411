--------------------------- MODULE PlaybackClaims ---------------------------
(***************************************************************************)
(* The claim of one device of a profile in Redis, the attempts to make it, *)
(* and the scripts on them.                                                *)
(*                                                                         *)
(* A request begins or joins the attempt of its player and holds a lease   *)
(* on it until the player was told (the attempt is disclosed) or cannot be *)
(* told.  When the last lease goes without a disclosure the attempt is     *)
(* abandoned, and its claim is released.  A script is one step; its reply  *)
(* is an operator of its own, ...Reply, because the callers differ in what *)
(* they make of it.                                                        *)
(***************************************************************************)
EXTENDS Integers

CONSTANTS
    None,
    Attempts,       \* one per play of the player, each with a session of its own
    Requests,       \* the calls of the player: several of them may repeat an attempt
    Negative,       \* what a claim finds without a context of its own
    MaxInvalidations    \* bound: the profile's contexts are invalidated less often

Results == {"claimed", "ambiguous", "expired", "not_found"}

VARIABLES
    generation,     \* the playback generation of the profile
    device,         \* the generation of the device; 0 while Redis has none
    protocol,       \* the version that writers of claims have to speak
    launched,       \* when the player started each play
    attempts,       \* the attempts, with the leases on them
    claim,          \* the claim of the device
    active,         \* the attempt that the last writer of version 6 claimed for
    sessionKeys     \* the attempts whose session has its key

NoAttempt == [state |-> "none", result |-> "none", generation |-> 0, device |-> 0,
              live |-> {}, lapsed |-> {}, listed |-> FALSE]

NoClaim == [attempt |-> None, status |-> "none", released |-> FALSE, superseded |-> None]

ClaimsInit ==
    /\ generation = 1
    /\ device = 0
    /\ protocol = 5
    /\ launched \in {f \in [Attempts -> {1, 2}] : \E a \in Attempts : f[a] = 1}
    /\ attempts = [a \in Attempts |-> NoAttempt]
    /\ claim = NoClaim
    /\ active = None
    /\ sessionKeys = {}

\* The claim that attempt a made stands.
Holds(a) == claim.attempt = a /\ claim.status = "claimed" /\ ~claim.released

DeviceIs(d) == device \in {0, d}

\* Releasing what attempt a claimed takes its session's key with it.
ReleaseClaim(a) ==
    IF Holds(a) THEN /\ claim' = [claim EXCEPT !.released = TRUE]
                     /\ sessionKeys' = sessionKeys \ {a}
    ELSE UNCHANGED <<claim, sessionKeys>>

Abandoned(rec) == [rec EXCEPT !.state = "abandoned", !.result = "not_found",
                              !.lapsed = {}, !.listed = FALSE]

-----------------------------------------------------------------------------
(* playback-attempt-begin                                                    *)

\* An attempt of an earlier binding is forgotten.
Found(a, g, d) ==
    IF attempts[a].generation = g /\ attempts[a].device = d THEN attempts[a] ELSE NoAttempt

\* The attempt has an answer, and nobody is left to give it.
Orphaned(rec) == rec.state = "pending" /\ rec.live = {} /\ rec.result # "pending"

BeginReply(a, g, d) ==
    LET rec == Found(a, g, d)
    IN IF generation # g THEN "generation_changed"
       ELSE IF ~DeviceIs(d) THEN "device_generation_changed"
       ELSE IF rec.state = "none" THEN "begun"
       ELSE IF rec.state = "disclosed" THEN "disclosed"
       ELSE IF rec.state = "abandoned" \/ Orphaned(rec) THEN "abandoned"
       ELSE "retry"

\* Mutant: an orphaned attempt is abandoned, and its claim kept.
BeginKeepingClaim(a, r, g, d) ==
    LET rec == Found(a, g, d)
        joined == [rec EXCEPT !.live = @ \cup {r}, !.lapsed = {}, !.listed = TRUE]
        put(x) == attempts' = [attempts EXCEPT ![a] = x]
    IN /\ CASE BeginReply(a, g, d) = "begun" ->
                    /\ put([joined EXCEPT !.state = "pending", !.result = "pending",
                                          !.generation = g, !.device = d])
                    /\ UNCHANGED <<claim, sessionKeys>>
            [] BeginReply(a, g, d) = "retry" -> put(joined) /\ UNCHANGED <<claim, sessionKeys>>
            [] BeginReply(a, g, d) = "abandoned" ->
                    put(Abandoned(rec)) /\ UNCHANGED <<claim, sessionKeys>>
            [] OTHER -> UNCHANGED <<attempts, claim, sessionKeys>>
       /\ UNCHANGED <<generation, device, protocol, launched, active>>

BeginAttempt(a, r, g, d) ==
    LET rec == Found(a, g, d)
        joined == [rec EXCEPT !.live = @ \cup {r}, !.lapsed = {}, !.listed = TRUE]
        put(x) == attempts' = [attempts EXCEPT ![a] = x]
    IN /\ CASE BeginReply(a, g, d) = "begun" ->
                    /\ put([joined EXCEPT !.state = "pending", !.result = "pending",
                                          !.generation = g, !.device = d])
                    /\ UNCHANGED <<claim, sessionKeys>>
            [] BeginReply(a, g, d) = "retry" -> put(joined) /\ UNCHANGED <<claim, sessionKeys>>
            [] BeginReply(a, g, d) = "abandoned" -> put(Abandoned(rec)) /\ ReleaseClaim(a)
            [] OTHER -> UNCHANGED <<attempts, claim, sessionKeys>>
       /\ UNCHANGED <<generation, device, protocol, launched, active>>

-----------------------------------------------------------------------------
(* playback-claim (version 5, behind its fence) and playback-claim-v6         *)

\* Mutant: a writer of version 5 is not stopped by the gate.
Unfenced(v) == v = 6 => protocol = 6

Admitted(v) == protocol = v

\* Only version 6 knows which attempt made the claim.
Owned(a, v) == v = 5 \/ active \in {None, a}

SamePlay(a) == claim.attempt # None /\ launched[claim.attempt] = launched[a]

\* A newer play has claimed.
Overtaken(a) == claim.attempt # None /\ launched[a] < launched[claim.attempt]

\* The attempt whose standing claim a new claim of attempt a replaces.
Superseded(a) ==
    IF claim.status = "claimed" /\ ~claim.released /\ claim.attempt # a
    THEN claim.attempt ELSE None

\* Why the script does not get to the claims.
Refusal(a, r, g, d, v) ==
    LET rec == attempts[a]
        givenUp == rec.state = "abandoned" \/ (rec.state = "pending" /\ r \notin rec.live)
    IN IF v = 5 /\ ~Admitted(v) THEN "writer_protocol_changed"
       ELSE IF generation # g THEN "generation_changed"
       ELSE IF ~Admitted(v) THEN "writer_protocol_changed"
       ELSE IF rec.generation # g \/ rec.device # d THEN "claim_attempt_changed"
       ELSE IF givenUp THEN "attempt_abandoned"
       ELSE IF ~DeviceIs(d) THEN "device_generation_changed"
       ELSE "none"

\* What attempt a is answered from what is stored, if anything.
Replay(a, v) ==
    LET rec == attempts[a]
        stored == IF claim.released THEN "not_found" ELSE claim.status
    IN IF v = 6 /\ rec.result # "pending"
       THEN IF rec.result = "claimed" /\ ~(Holds(a) /\ Owned(a, v)) THEN "not_found"
            ELSE rec.result
       ELSE IF SamePlay(a) /\ Owned(a, v)
       THEN IF claim.attempt = a THEN stored ELSE "claim_request_conflict"
       ELSE IF Overtaken(a) THEN "not_found"
       ELSE "none"

\* The reply to a script that expects to replace the claim of attempt `expected`,
\* when the contexts match as `found` says.
ClaimReply(a, r, g, d, v, expected, found) ==
    LET refusal == Refusal(a, r, g, d, v)
    IN IF refusal # "none" THEN refusal
       ELSE IF Replay(a, v) # "none" THEN Replay(a, v)
       ELSE IF found = "claimed" /\ Superseded(a) # expected THEN "retry"
       ELSE IF found = "claimed" /\ a \in sessionKeys THEN "session_collision"
       ELSE found

\* playback_attempt_finalize: an answer without a claim needs no lease.
Answered(rec, result) ==
    IF result = "claimed" THEN [rec EXCEPT !.result = result]
    ELSE [rec EXCEPT !.result = result, !.state = "disclosed",
                     !.live = {}, !.lapsed = {}, !.listed = FALSE]

\* Version 6 leaves the attempt that has its answer alone.
Answer(a, v, reply) ==
    IF v = 6 /\ attempts[a].result # "pending" THEN UNCHANGED attempts
    ELSE attempts' = [attempts EXCEPT ![a] = Answered(@, reply)]

Claim(a, r, g, d, v, expected, found) ==
    LET reply == ClaimReply(a, r, g, d, v, expected, found)
        reached == Refusal(a, r, g, d, v) = "none"
        made == reached /\ Replay(a, v) = "none" /\ reply \in Results
    IN /\ device' = IF reached THEN d ELSE device
       /\ IF reached /\ reply \in Results THEN Answer(a, v, reply) ELSE UNCHANGED attempts
       /\ IF made
          THEN /\ claim' = [attempt |-> a, status |-> reply, released |-> FALSE,
                            superseded |-> IF reply = "claimed" THEN expected ELSE None]
               /\ sessionKeys' = IF reply = "claimed" THEN sessionKeys \cup {a} ELSE sessionKeys
               /\ active' = IF v = 6 THEN a ELSE active
          ELSE UNCHANGED <<claim, sessionKeys, active>>
       /\ UNCHANGED <<generation, protocol, launched>>

-----------------------------------------------------------------------------
(* playback-attempt-disclose, -abandon and -reconcile                        *)

BoundNow(rec) == rec.generation = generation /\ rec.device = device

\* The player may be told.
Discloses(a, r) ==
    /\ BoundNow(attempts[a])
    /\ \/ attempts[a].state = "disclosed"
       \/ /\ attempts[a].state = "pending" /\ attempts[a].result = "claimed"
          /\ r \in attempts[a].live

DiscloseAttempt(a, r) ==
    /\ attempts' = IF Discloses(a, r)
                   THEN [attempts EXCEPT ![a].state = "disclosed", ![a].live = {},
                                         ![a].lapsed = {}, ![a].listed = FALSE]
                   ELSE attempts
    /\ UNCHANGED <<generation, device, protocol, launched, claim, active, sessionKeys>>

\* Request r holds a lease of the attempt, lapsed or not, that it can give back.
Leases(a, r) ==
    /\ BoundNow(attempts[a]) /\ attempts[a].state = "pending"
    /\ r \in attempts[a].live \cup attempts[a].lapsed

\* No other request has a lease on the attempt.
Last(a, r) == Leases(a, r) /\ attempts[a].live \subseteq {r}

\* The reply that the caller takes for "the claim is gone".
AbandonReleases(a, r) == Last(a, r) /\ Holds(a)

AbandonAttempt(a, r) ==
    /\ IF Last(a, r)
       THEN /\ attempts' = [attempts EXCEPT ![a] = Abandoned([@ EXCEPT !.live = {}])]
            /\ ReleaseClaim(a)
       ELSE /\ attempts' = IF Leases(a, r)
                           THEN [attempts EXCEPT ![a].live = @ \ {r}, ![a].lapsed = {}]
                           ELSE attempts
            /\ UNCHANGED <<claim, sessionKeys>>
    /\ UNCHANGED <<generation, device, protocol, launched, active>>

\* The reconciliation has something to do for the attempt.
Due(a) == attempts[a].listed /\ (attempts[a].lapsed # {} \/ attempts[a].live = {})

ReconcileAttempt(a) ==
    /\ Due(a)
    /\ IF attempts[a].live # {}
       THEN attempts' = [attempts EXCEPT ![a].lapsed = {}] /\ UNCHANGED <<claim, sessionKeys>>
       ELSE attempts' = [attempts EXCEPT ![a] = Abandoned(@)] /\ ReleaseClaim(a)
    /\ UNCHANGED <<generation, device, protocol, launched, active>>

-----------------------------------------------------------------------------
(* Time, invalidation and the rollout of version 6                           *)

\* The lease of request r runs out.
LapseLease(a, r) ==
    /\ r \in attempts[a].live
    /\ attempts' = [attempts EXCEPT ![a].live = @ \ {r}, ![a].lapsed = @ \cup {r}]
    /\ UNCHANGED <<generation, device, protocol, launched, claim, active, sessionKeys>>

\* A standing claim ends with its context; its attempt stays a while longer.
ExpireClaim ==
    /\ claim.status = "claimed"
    /\ claim' = NoClaim
    /\ active' = None
    /\ sessionKeys' = sessionKeys \ {claim.attempt}
    /\ UNCHANGED <<generation, device, protocol, launched, attempts>>

\* What getActiveClaim returns a claim for.
IsActive(a, g) == generation = g /\ Holds(a) /\ a \in sessionKeys

DropClaim ==
    /\ claim' = NoClaim
    /\ sessionKeys' = IF claim.status = "claimed" THEN sessionKeys \ {claim.attempt}
                      ELSE sessionKeys

InvalidateProfile ==
    /\ generation < MaxInvalidations
    /\ generation' = generation + 1
    /\ DropClaim
    /\ UNCHANGED <<device, protocol, launched, attempts, active>>

InvalidateDevice(d) ==
    /\ device <= d
    /\ device' = d
    /\ DropClaim
    /\ UNCHANGED <<generation, protocol, launched, attempts, active>>

AdvanceProtocol ==
    /\ protocol = 5
    /\ protocol' = 6
    /\ UNCHANGED <<generation, device, launched, attempts, claim, active, sessionKeys>>
=============================================================================
