--------------------------- MODULE HistoryClaims ---------------------------
(***************************************************************************)
(* The handling of a player's claim, from the reservation of a history     *)
(* grant in PostgreSQL over the claim in Redis back to the grant, its      *)
(* response, the disclosure and the answer.                                *)
(*                                                                         *)
(* A grant of the ledger belongs to an attempt of the player, so Attempts  *)
(* are the Grants.  The claim runs in a connection of its own: when the    *)
(* player hangs up the connection is cut, and the script that was on its   *)
(* way may still run, whatever is cleaned up meanwhile.                    *)
(***************************************************************************)
EXTENDS HistoryLedger

CONSTANTS
    Requests,           \* the calls of the player: several of them may repeat an attempt
    Negative,           \* what a claim finds without a context of its own
    MaxInvalidations,   \* bound: the profile's contexts are invalidated less often
    Retries,            \* how often a claim is tried against a moving predecessor
    MaxBreaks           \* bound: calls that the player cuts off, and servers that die

Attempts == Grants

VARIABLES generation, device, protocol, launched, attempts, claim, active, sessionKeys

INSTANCE PlaybackClaims

ASSUME NegativeAssumption == Negative \subseteq Results \ {"claimed"}

VARIABLES
    requests,   \* where each request is, with its local variables
    ghosts,     \* the scripts that are left in connections that were cut
    bindings,   \* the playback generation that each grant was reserved under
    authority,  \* the source that each grant was finalized with
    responses,  \* the response that is stored with each grant
    told,       \* what the player was told of each attempt
    breaks      \* calls cut off and crashes so far

handling == <<requests, ghosts, bindings, authority, responses, told, breaks>>

redis == <<generation, device, protocol, launched, attempts, claim, active, sessionKeys>>

vars == <<ledgerVars, redis, handling>>

Idle == [pc |-> "idle", att |-> None, generation |-> 0, history |-> 0, version |-> 0,
         expected |-> None, tries |-> 0, owner |-> FALSE, result |-> "none", replay |-> "none"]

NoSource == [result |-> "none", superseded |-> None]

NoGhost == [script |-> "none", att |-> None, generation |-> 0, version |-> 0, expected |-> None]

Init ==
    /\ LedgerInit
    /\ ClaimsInit
    /\ requests = [r \in Requests |-> Idle]
    /\ ghosts = [r \in Requests |-> NoGhost]
    /\ bindings = [a \in Attempts |-> 0]
    /\ authority = [a \in Attempts |-> NoSource]
    /\ responses = [a \in Attempts |-> "none"]
    /\ told = [a \in Attempts |-> {}]
    /\ breaks = 0

\* The device of a player is of generation 1, until the owner revokes it.
Device == 1

At(r, pc) == requests[r].pc = pc

Become(r, q) == requests' = [requests EXCEPT ![r] = q]

Goto(r, pc) == requests' = [requests EXCEPT ![r].pc = pc]

\* A request forgets what it no longer needs.
Settled(q) == [q EXCEPT !.version = 0, !.expected = None, !.tries = 0]

Failing(q) == [Settled(q) EXCEPT !.pc = "free", !.replay = "none"]

Done == [Idle EXCEPT !.pc = "done"]

Finish(r) == Become(r, Done)

KeepLedger == UNCHANGED <<ledgerVars, bindings, authority, responses>>
KeepClaims == UNCHANGED redis
KeepRest == UNCHANGED <<ghosts, told, breaks>>

-----------------------------------------------------------------------------
(* The reservation                                                           *)

SameReservation(r) ==
    LET q == requests[r]
    IN grants[q.att].generation = q.history /\ bindings[q.att] = q.generation

\* The player claims: its binding is read from both stores, and a grant reserved.
ReserveGrant(r, a) ==
    LET fresh == grants[a].status = "none"
        again == /\ bindings[a] = generation /\ GrantCurrent(a)
                 /\ grants[a].status \in {"reserved", "active"}
    IN /\ At(r, "idle") /\ profile.bound
       /\ IF fresh
          THEN /\ Reserve(a)
               /\ bindings' = [bindings EXCEPT ![a] = generation]
          ELSE UNCHANGED <<ledgerVars, bindings>>
       /\ IF fresh \/ again
          THEN Become(r, [Idle EXCEPT !.pc = "begin", !.att = a, !.generation = generation,
                                      !.history = profile.generation, !.replay = responses[a]])
          ELSE Finish(r)
       /\ UNCHANGED <<authority, responses>> /\ KeepClaims /\ KeepRest

-----------------------------------------------------------------------------
(* The claim, in a connection of its own                                     *)

\* The attempt is answered in the negative, or the claim fails: what the request
\* holds of the attempt is given back, and then its reservation.
BeginClaim(r) ==
    LET q == requests[r]
        reply == BeginReply(q.att, q.generation, Device)
    IN /\ At(r, "begin")
       /\ BeginAttempt(q.att, r, q.generation, Device)
       /\ Become(r, CASE reply \in {"begun", "retry", "disclosed"} ->
                             [q EXCEPT !.pc = "claim", !.version = protocol,
                                       !.owner = reply # "disclosed"]
                      [] reply = "abandoned" ->
                             [q EXCEPT !.pc = "finalize", !.result = "not_found"]
                      [] OTHER -> Failing(q))
       /\ KeepLedger /\ KeepRest

RunClaim(r, found) ==
    LET q == requests[r]
        reply == ClaimReply(q.att, r, q.generation, Device, q.version, q.expected, found)
        again == [q EXCEPT !.tries = @ + 1]
    IN /\ At(r, "claim")
       /\ Claim(q.att, r, q.generation, Device, q.version, q.expected, found)
       /\ Become(r, CASE reply \in {"retry", "writer_protocol_changed"} /\ again.tries = Retries ->
                             Failing(q)
                      [] reply = "retry" /\ again.tries < Retries ->
                             [again EXCEPT !.expected = Superseded(q.att)]
                      [] reply = "writer_protocol_changed" /\ again.tries < Retries ->
                             [again EXCEPT !.version = protocol]
                      [] reply = "claimed" -> [Settled(q) EXCEPT !.pc = "active", !.result = reply]
                      [] reply \in Negative ->
                             [Settled(q) EXCEPT !.pc = "finalize", !.result = reply, !.owner = FALSE]
                      [] reply = "attempt_abandoned" ->
                             [Settled(q) EXCEPT !.pc = "finalize", !.result = "not_found",
                                                !.owner = FALSE]
                      [] OTHER -> Failing(q))
       /\ KeepLedger /\ KeepRest

\* The player hangs up: the connection is cut with a script on its way.
Abort(r) ==
    LET q == requests[r]
    IN /\ q.pc \in {"begin", "claim"} /\ breaks < MaxBreaks
       /\ ghosts' = [ghosts EXCEPT ![r] =
                        [script |-> q.pc, att |-> q.att, generation |-> q.generation,
                         version |-> q.version, expected |-> q.expected]]
       /\ Become(r, Failing(q))
       /\ breaks' = breaks + 1
       /\ KeepLedger /\ KeepClaims /\ UNCHANGED told

\* The script of a cut connection arrives after all; it may never.
GhostArrives(r, found) ==
    LET s == ghosts[r]
    IN /\ s.script # "none"
       /\ \/ s.script = "begin" /\ BeginAttempt(s.att, r, s.generation, Device)
          \/ /\ s.script = "claim"
             /\ Claim(s.att, r, s.generation, Device, s.version, s.expected, found)
       /\ ghosts' = [ghosts EXCEPT ![r] = NoGhost]
       /\ KeepLedger /\ UNCHANGED <<requests, told, breaks>>

\* releaseOwned, for a claim that failed or was cut off.
Free(r) ==
    /\ At(r, "free")
    /\ AbandonAttempt(requests[r].att, r)
    /\ Become(r, [requests[r] EXCEPT !.pc = "withdraw", !.owner = FALSE])
    /\ KeepLedger /\ KeepRest

-----------------------------------------------------------------------------
(* The grant                                                                 *)

\* The source that the grant is about: the standing claim, and what it replaced.
ReadActive(r) ==
    LET q == requests[r]
    IN /\ At(r, "active")
       /\ Become(r, IF IsActive(q.att, q.generation)
                    THEN [q EXCEPT !.pc = "finalize", !.expected = claim.superseded]
                    ELSE [q EXCEPT !.pc = "withdraw", !.replay = "none"])
       /\ KeepLedger /\ KeepClaims /\ KeepRest

\* Mutant: a grant that is active already is taken for finalized alike.
FinalizedAtAll(q) == grants[q.att].status = "active" /\ GrantCurrent(q.att)

Source(q) == [result |-> q.result, superseded |-> IF q.result = "claimed" THEN q.expected ELSE None]

\* A grant that is active already has to be finalized with the same source.
FinalizedAlike(q) ==
    /\ grants[q.att].status = "active" /\ GrantCurrent(q.att)
    /\ authority[q.att] = Source(q)

\* The session to replace may have been replaced by another.
Replaceable(q) == Source(q).superseded # None => replaced[Source(q).superseded] = None

FinalizeGrant(r) ==
    LET q == requests[r]
        fresh == grants[q.att].status = "reserved" /\ GrantCurrent(q.att) /\ Replaceable(q)
    IN /\ At(r, "finalize")
       /\ IF fresh
          THEN /\ \E kind \in Kinds :
                     /\ (kind = "negative") <=> (q.result # "claimed")
                     /\ Finalize(q.att, kind, Source(q).superseded)
               /\ authority' = [authority EXCEPT ![q.att] = Source(q)]
          ELSE UNCHANGED <<ledgerVars, authority>>
       /\ Become(r, IF fresh \/ FinalizedAlike(q)
                    THEN [Settled(q) EXCEPT !.pc = IF q.result = "claimed" THEN "recheck"
                                                   ELSE "commit"]
                    ELSE [Settled(q) EXCEPT !.pc = "withdraw", !.replay = "none"])
       /\ UNCHANGED <<bindings, responses>> /\ KeepClaims /\ KeepRest

\* Mutant: what a retry has finalized meanwhile is given up with it.
WithdrawFinalized(r) ==
    LET q == requests[r]
        a == q.att
    IN /\ At(r, "withdraw")
       /\ IF grants[a].status \in {"reserved", "active"} /\ BindingCurrent(a) /\ SameReservation(r)
          THEN /\ grants' = [grants EXCEPT ![a].status = "revoked"]
               /\ UNCHANGED <<profile, replaced, sessions, receipts, outbox, history>>
          ELSE UNCHANGED ledgerVars
       /\ IF q.owner THEN Goto(r, "giveUp") ELSE Finish(r)
       /\ UNCHANGED <<bindings, authority, responses>> /\ KeepClaims /\ KeepRest

\* The claim failed: the reservation is given up, then the claim.
Withdraw(r) ==
    LET q == requests[r]
        a == q.att
    IN /\ At(r, "withdraw")
       /\ IF grants[a].status = "reserved" /\ BindingCurrent(a) /\ SameReservation(r)
          THEN Abandon(a)
          ELSE UNCHANGED ledgerVars
       /\ IF q.owner THEN Goto(r, "giveUp") ELSE Finish(r)
       /\ UNCHANGED <<bindings, authority, responses>> /\ KeepClaims /\ KeepRest

-----------------------------------------------------------------------------
(* The answer                                                                *)

\* The subtitles of the session that was replaced are withdrawn for the claim that
\* still stands; the player may have hung up.
Recheck(r) ==
    LET q == requests[r]
    IN /\ At(r, "recheck")
       /\ \/ IsActive(q.att, generation) /\ Goto(r, "commit")
          \/ Goto(r, IF q.owner THEN "giveUp" ELSE "done")
       /\ KeepLedger /\ KeepClaims /\ KeepRest

\* The first response that is stored is the one that every retry returns.
CommitResponse(r) ==
    LET q == requests[r]
        a == q.att
        answer == IF q.replay # "none" THEN q.replay ELSE q.result
        stands == GrantCurrent(a) /\ grants[a].status \in {"active", "released"}
        agreed == stands /\ responses[a] \in {"none", answer}
    IN /\ At(r, "commit")
       /\ responses' = IF agreed THEN [responses EXCEPT ![a] = answer] ELSE responses
       /\ Become(r, IF agreed THEN [q EXCEPT !.pc = IF q.owner THEN "disclose" ELSE "respond",
                                             !.result = answer, !.replay = "none"]
                    ELSE [q EXCEPT !.pc = IF q.owner THEN "giveUp" ELSE "done"])
       /\ UNCHANGED <<ledgerVars, bindings, authority>> /\ KeepClaims /\ KeepRest

\* Mutant: the answer goes out although the claim could not be disclosed.
TellsAnyway(r) ==
    /\ At(r, "disclose")
    /\ DiscloseAttempt(requests[r].att, r)
    /\ Goto(r, "respond")
    /\ KeepLedger /\ KeepRest

DiscloseClaim(r) ==
    LET q == requests[r]
    IN /\ At(r, "disclose")
       /\ DiscloseAttempt(q.att, r)
       /\ Goto(r, IF Discloses(q.att, r) THEN "respond" ELSE "giveUp")
       /\ KeepLedger /\ KeepRest

\* The answer leaves while the row of the device is locked, unless the player has
\* hung up.
Respond(r) ==
    LET q == requests[r]
    IN /\ At(r, "respond")
       /\ \/ /\ profile.bound
             /\ told' = [told EXCEPT ![q.att] = @ \cup {q.result}]
             /\ Finish(r)
          \/ /\ Goto(r, IF q.owner THEN "giveUp" ELSE "done")
             /\ UNCHANGED told
       /\ KeepLedger /\ KeepClaims /\ UNCHANGED <<ghosts, breaks>>

\* releaseOwned, for a claim that was made and cannot be told.
GiveUp(r) ==
    LET q == requests[r]
    IN /\ At(r, "giveUp")
       /\ AbandonAttempt(q.att, r)
       /\ IF AbandonReleases(q.att, r) THEN Goto(r, "revoke") ELSE Finish(r)
       /\ KeepLedger /\ KeepRest

RevokeGrant(r) ==
    LET a == requests[r].att
    IN /\ At(r, "revoke")
       /\ IF grants[a].status \in {"none", "revoked"} THEN UNCHANGED ledgerVars
          ELSE RevokeSession(a)
       /\ Finish(r)
       /\ UNCHANGED <<bindings, authority, responses>> /\ KeepClaims /\ KeepRest

Crash(r) ==
    /\ requests[r].pc \notin {"idle", "done"} /\ breaks < MaxBreaks
    /\ Finish(r)
    /\ breaks' = breaks + 1
    /\ KeepLedger /\ KeepClaims /\ UNCHANGED <<ghosts, told>>

-----------------------------------------------------------------------------
(* The rest of the system                                                    *)

\* The owner revokes the device; a worker then invalidates it in Redis.
Revoke == RevokeDevice /\ UNCHANGED <<redis, handling>>

FenceRevoked ==
    /\ ~profile.bound
    /\ InvalidateDevice(Device + 1)
    /\ UNCHANGED <<ledgerVars, handling>>

Environment ==
    /\ \/ \E a \in Attempts : ReconcileAttempt(a)
       \/ \E a \in Attempts, r \in Requests : LapseLease(a, r)
       \/ ExpireClaim
       \/ InvalidateProfile
       \/ AdvanceProtocol
    /\ UNCHANGED <<ledgerVars, handling>>

Step(r) ==
    \/ BeginClaim(r) \/ Free(r) \/ ReadActive(r) \/ FinalizeGrant(r)
    \/ Withdraw(r) \/ Recheck(r) \/ CommitResponse(r) \/ DiscloseClaim(r) \/ Respond(r)
    \/ GiveUp(r) \/ RevokeGrant(r)
    \/ \E found \in {"claimed"} \cup Negative : RunClaim(r, found)

Next ==
    \/ \E r \in Requests :
          \/ \E a \in Attempts : ReserveGrant(r, a)
          \/ Step(r)
          \/ Abort(r) \/ Crash(r)
          \/ \E found \in {"claimed"} \cup Negative : GhostArrives(r, found)
    \/ Revoke \/ FenceRevoked
    \/ Environment

Spec == Init /\ [][Next]_vars

-----------------------------------------------------------------------------
(* Properties                                                                *)

\* The types.  No event is sent here, so nothing waits for Trakt and nothing is merged.
Answers == {"none"} \cup Results

GrantType ==
    [status : {"none", "reserved", "active", "released", "revoked", "superseded"},
     kind : Kinds \cup {None}, generation : Nat, state : {"none", "playing"},
     revision : Nat, terminal : {None}]

AttemptType ==
    [state : {"none", "pending", "disclosed", "abandoned"},
     result : {"none", "pending"} \cup Results, generation : Nat, device : {0, Device},
     live : SUBSET Requests, lapsed : SUBSET Requests, listed : BOOLEAN]

ClaimType ==
    [attempt : Attempts \cup {None}, status : Answers, released : BOOLEAN,
     superseded : Attempts \cup {None}]

Handling ==
    {"begin", "claim", "free", "active", "finalize", "withdraw", "recheck", "commit",
     "disclose", "respond", "giveUp", "revoke"}

RequestType ==
    [pc : {"idle", "done"} \cup Handling, att : Attempts \cup {None}, generation : Nat,
     history : Nat, version : {0, 5, 6}, expected : Attempts \cup {None}, tries : Nat,
     owner : BOOLEAN, result : Answers, replay : Answers]

GhostType ==
    [script : {"none", "begin", "claim"}, att : Attempts \cup {None}, generation : Nat,
     version : {0, 5, 6}, expected : Attempts \cup {None}]

LedgerType ==
    /\ profile \in [generation : Nat, bound : BOOLEAN]
    /\ grants \in [Attempts -> GrantType]
    /\ replaced \in [Attempts -> Attempts \cup {None}]
    /\ sessions \in [Attempts -> [state : {"none", "playing", "released"}, revision : Nat]]
    /\ receipts = [a \in Attempts |-> [k \in Keys |-> "none"]]
    /\ outbox = [a \in Attempts |-> [k \in Keys |-> NoDispatch]]
    /\ history = NoHistory

RedisType ==
    /\ generation \in Nat \ {0}
    /\ device \in {0, Device, Device + 1}
    /\ protocol \in {5, 6}
    /\ launched \in [Attempts -> {1, 2}]
    /\ attempts \in [Attempts -> AttemptType]
    /\ claim \in ClaimType
    /\ active \in Attempts \cup {None}
    /\ sessionKeys \subseteq Attempts

HandlingType ==
    /\ requests \in [Requests -> RequestType]
    /\ ghosts \in [Requests -> GhostType]
    /\ bindings \in [Attempts -> Nat]
    /\ authority \in [Attempts -> [result : Answers, superseded : Attempts \cup {None}]]
    /\ responses \in [Attempts -> Answers]
    /\ told \in [Attempts -> SUBSET Results]
    /\ breaks \in Nat

TypeOK == LedgerType /\ RedisType /\ HandlingType

\* What a player was told stays true: no cleanup, late script or retry takes the
\* claim from it or revokes its grant, and no retry is told otherwise.
ToldIsKept ==
    \A a \in Attempts : "claimed" \in told[a] =>
        /\ told[a] = {"claimed"}
        /\ claim.attempt = a => ~claim.released
        /\ BindingCurrent(a) => grants[a].status \in {"active", "released", "superseded"}

\* A standing claim that its attempt has disclosed has a grant that was finalized
\* for a claim, whatever cut the handling short (for claims of version 6).
DisclosedIsGranted ==
    \A a \in Attempts : Holds(a) /\ active = a /\ attempts[a].state = "disclosed" =>
        authority[a].result = "claimed"

\* No claim is left behind: one that nobody was told of is found by the
\* reconciliation, also when its script arrived after everything was cleaned up.
UndisclosedIsListed ==
    \A a \in Attempts : Holds(a) => attempts[a].state = "disclosed" \/ attempts[a].listed

\* No claim of an earlier generation survives an invalidation or is written after it,
\* and once version 6 has claimed, no writer of version 5 puts its claim in place
\* of the one that the marker of the last attempt names.
ClaimIsCurrent ==
    claim # NoClaim => /\ attempts[claim.attempt].generation = generation
                       /\ attempts[claim.attempt].device = device
                       /\ active # None => active = claim.attempt

\* What a player was told of a play stands: its grant and its claim are those
\* of the answer, and a play that it was told of is the one that is granted;
\* what it was not told of is found by the reconciliation; and the claim that
\* stands is of the profile, the device and the protocol as they are
\* (claim-bound-history-service.js, claim-v6.lua, get-active-claim.lua).
ToldStands == ToldIsKept /\ DisclosedIsGranted /\ UndisclosedIsListed /\ ClaimIsCurrent
=============================================================================
