---------------------------- MODULE PairingStore ----------------------------
(***************************************************************************)
(* The pairings in Redis and the scripts on them.                          *)
(*                                                                         *)
(* A pairing is found by the user code that the owner types into the       *)
(* browser, by the device code that the device polls with and, once a      *)
(* browser has activated it, by that browser's retry token.  The sealed    *)
(* envelope holds the configuration and the device's token, and after      *)
(* finalization the profile; the digest of an activation is the digest of  *)
(* its configuration, so a digest is compared by comparing configurations. *)
(***************************************************************************)
EXTENDS TtlClock

CONSTANTS
    PairingTtl,     \* ttlMs
    RetryTtl,       \* activationRetryTtlMs
    TombstoneTtl,   \* tombstoneTtlMs
    MaxPairings     \* maxPairings

ASSUME PairingAssumption ==
    /\ PairingTtl \in Nat \ {0} /\ RetryTtl \in Nat \ {0} /\ TombstoneTtl \in Nat \ {0}
    /\ MaxPairings \in Nat \ {0}

VARIABLES
    pairings,     \* the record hash of each pairing
    retryIndex    \* the pairing each retry token leads to, and until when

pairingVars == <<pairings, retryIndex>>

NoEnvelope == [config |-> None, device |-> 0, profile |-> None]

Unissued == [state |-> "unissued", activation |-> "none", envelope |-> NoEnvelope,
             token |-> None, retryUntil |-> 0, expiresAt |-> 0, until |-> 0,
             userUntil |-> 0, deviceUntil |-> 0]

\* A record that Redis has dropped, or that was never there.
Gone(k) == pairings[k].state \in {"unissued", "gone"}

Unindexed == [pairing |-> None, until |-> 0]

PairingInit ==
    /\ pairings = [k \in Pairings |-> Unissued]
    /\ retryIndex = [t \in Tokens |-> Unindexed]

\* The indexes by user code and by device code; zero stands for no key.
FoundByUser(k) == pairings[k].userUntil > 0

FoundByDevice(k) == pairings[k].deviceUntil > 0

Refresh(until, to) == IF until > 0 THEN to ELSE 0

Update(k, r) == pairings' = [pairings EXCEPT ![k] = r]

Unindex(t) == retryIndex' = [retryIndex EXCEPT ![t] = Unindexed]

Live == {"pending", "activating", "activated"}

-----------------------------------------------------------------------------
(* pairing-issue.lua                                                         *)

\* What is left of a live pairing whose time is over: the envelope only while a
\* retry could still ask for it.
Lapse(r) ==
    LET retryable == r.retryUntil > now
        until == IF retryable THEN Later(now + TombstoneTtl, r.retryUntil)
                 ELSE now + TombstoneTtl
    IN [r EXCEPT !.state = "expired", !.until = until, !.userUntil = 0,
                 !.deviceUntil = Refresh(@, until),
                 !.activation = IF retryable THEN @ ELSE "none",
                 !.envelope = IF retryable THEN @ ELSE NoEnvelope]

Lapsed(r) == r.state \in Live /\ Over(r.expiresAt)

Swept == [k \in Pairings |-> IF Lapsed(pairings[k]) THEN Lapse(pairings[k]) ELSE pairings[k]]

Active == {k \in Pairings : pairings[k].state \in Live /\ ~Over(pairings[k].expiresAt)}

IssuePairing(k) ==
    LET end == now + PairingTtl
        until == end + TombstoneTtl
    IN /\ pairings[k].state = "unissued"
       /\ pairings' =
              IF Cardinality(Active) >= MaxPairings THEN Swept
              ELSE [Swept EXCEPT ![k] =
                       [Unissued EXCEPT !.state = "pending", !.expiresAt = end, !.until = until,
                                        !.userUntil = until, !.deviceUntil = until]]
       /\ UNCHANGED retryIndex

-----------------------------------------------------------------------------
(* pairing-activate.lua and pairing-recover.lua                              *)

\* Mutant: a retry may change the configuration.
ActivateVerdictAnyConfig(k, t, f) ==
    LET r == pairings[k]
        mine == retryIndex[t].pairing = k
    IN IF ~FoundByUser(k) /\ ~mine THEN "not_found"
       ELSE IF Gone(k) THEN "gone"
       ELSE IF Over(r.expiresAt) THEN "lapsed"
       ELSE IF mine THEN
            IF r.token # t \/ r.state = "cancelled" THEN "not_found"
            ELSE IF Over(r.retryUntil) THEN "expired"
            ELSE r.activation
       ELSE IF r.state # "pending" THEN "conflict"
       ELSE IF retryIndex[t].pairing # None THEN "not_found"
       ELSE "new"

\* The caller read the user index before.
ActivateVerdict(k, t, f) ==
    LET r == pairings[k]
        mine == retryIndex[t].pairing = k
    IN IF ~FoundByUser(k) /\ ~mine THEN "not_found"
       ELSE IF Gone(k) THEN "gone"
       ELSE IF Over(r.expiresAt) THEN "lapsed"
       ELSE IF mine THEN
            IF r.token # t \/ r.state = "cancelled" THEN "not_found"
            ELSE IF Over(r.retryUntil) THEN "expired"
            ELSE IF r.envelope.config # f THEN "conflict"
            ELSE r.activation
       ELSE IF r.state # "pending" THEN "conflict"
       ELSE IF retryIndex[t].pairing # None THEN "not_found"
       ELSE "new"

ActivateEffect(k, t, f, device, verdict) ==
    LET r == pairings[k]
        mine == retryIndex[t].pairing = k
        retry == Earlier(r.expiresAt, now + RetryTtl)
        until == now + TombstoneTtl
    IN CASE verdict = "new" ->
              /\ Update(k, [r EXCEPT !.state = "activating", !.activation = "activating",
                     !.envelope = [config |-> f, device |-> device, profile |-> None],
                     !.token = t, !.retryUntil = retry, !.userUntil = 0,
                     !.until = Later(r.expiresAt + TombstoneTtl, retry)])
              /\ retryIndex' = [retryIndex EXCEPT ![t] = [pairing |-> k, until |-> retry]]
         [] verdict = "lapsed" ->
              /\ Update(k, [r EXCEPT !.state = "expired", !.activation = "none",
                     !.envelope = NoEnvelope, !.userUntil = 0, !.until = until,
                     !.deviceUntil = Refresh(@, until)])
              /\ IF mine THEN Unindex(t) ELSE UNCHANGED retryIndex
         [] verdict = "gone" ->
              /\ Update(k, [r EXCEPT !.userUntil = 0])
              /\ IF mine THEN Unindex(t) ELSE UNCHANGED retryIndex
         [] verdict = "expired" -> Unindex(t) /\ UNCHANGED pairings
         [] OTHER -> UNCHANGED pairingVars

\* The retry index and the record, in one script: what the caller read of the
\* index before is compared with it again.
RecoverPairingVerdict(t, f) ==
    LET k == retryIndex[t].pairing
        r == pairings[k]
    IN IF k = None THEN "not_found"
       ELSE IF Gone(k) THEN "gone"
       ELSE IF r.token # t THEN "not_found"
       ELSE IF Over(r.expiresAt) \/ Over(r.retryUntil) THEN "expired"
       ELSE IF r.state = "cancelled" \/ r.activation = "none" THEN "not_found"
       ELSE IF r.envelope.config # f THEN "conflict"
       ELSE r.activation

RecoverPairingEffect(t, verdict) ==
    /\ IF verdict \in {"gone", "expired"} THEN Unindex(t) ELSE UNCHANGED retryIndex
    /\ UNCHANGED pairings

-----------------------------------------------------------------------------
(* pairing-complete.lua                                                      *)

CompleteVerdict(k, f) ==
    LET r == pairings[k]
    IN IF Gone(k) \/ r.state = "cancelled" THEN "not_found"
       ELSE IF Over(r.expiresAt) \/ Over(r.retryUntil) THEN "expired"
       ELSE IF r.envelope.config # f THEN "conflict"
       ELSE IF r.activation = "none" THEN "invalid_state"
       ELSE "ready"

\* Compare and swap: the observed envelope is replaced by the one with the profile.
FinalizeVerdict(k, f, observed, p) ==
    LET r == pairings[k]
    IN IF CompleteVerdict(k, f) # "ready" THEN CompleteVerdict(k, f)
       ELSE IF r.envelope.profile # None THEN
            IF r.envelope.profile = p THEN "activated" ELSE "conflict"
       ELSE IF r.envelope # observed THEN "conflict"
       ELSE "finalized"

FinalizeEffect(k, p, verdict) ==
    /\ IF verdict = "finalized"
       THEN Update(k, [pairings[k] EXCEPT !.activation = "activated", !.envelope.profile = p,
                !.state = IF @ = "activating" THEN "activated" ELSE @])
       ELSE UNCHANGED pairings
    /\ UNCHANGED retryIndex

-----------------------------------------------------------------------------
(* pairing-redeem-peek.lua, pairing-redeem.lua, pairing-cancel.lua           *)

Redeemable(r) ==
    r.state = "activated" /\ r.activation = "activated" /\ r.envelope.profile # None

PeekVerdict(k) ==
    LET r == pairings[k]
    IN IF ~FoundByDevice(k) THEN "not_found"
       ELSE IF Gone(k) THEN "gone"
       ELSE IF Lapsed(r) THEN "expired"
       ELSE IF r.state \in {"cancelled", "expired"} THEN r.state
       ELSE IF r.state = "consumed" THEN
            IF r.envelope = NoEnvelope THEN "consumed" ELSE "replay"
       ELSE IF Redeemable(r) THEN "ready" ELSE "pending"

\* Mutant: the second script trusts what the first one saw.
RedeemVerdictTrusting(k, observed) ==
    IF PeekVerdict(k) \in {"not_found", "gone"} THEN PeekVerdict(k) ELSE "consume"

RedeemVerdict(k, observed) ==
    LET verdict == PeekVerdict(k)
        same == pairings[k].envelope = observed
    IN IF verdict = "ready" THEN IF same THEN "consume" ELSE "pending"
       ELSE IF verdict = "replay" THEN IF same THEN "redeemed" ELSE "consumed"
       ELSE verdict

\* Mutant: the tombstone of a consumed pairing ends before the retry window.
RedeemEffectShort(k, verdict) ==
    LET r == pairings[k]
        until == now + TombstoneTtl
    IN /\ CASE verdict = "gone" -> Update(k, [r EXCEPT !.deviceUntil = 0])
            [] verdict = "expired" /\ Lapsed(r) -> Update(k, Lapse(r))
            [] verdict = "consume" ->
                 Update(k, [r EXCEPT !.state = "consumed", !.userUntil = 0, !.until = until,
                                     !.deviceUntil = Refresh(@, until)])
            [] OTHER -> UNCHANGED pairings
       /\ UNCHANGED retryIndex

RedeemEffect(k, verdict) ==
    LET r == pairings[k]
        until == Later(now + TombstoneTtl, r.retryUntil)
    IN /\ CASE verdict = "gone" -> Update(k, [r EXCEPT !.deviceUntil = 0])
            [] verdict = "expired" /\ Lapsed(r) -> Update(k, Lapse(r))
            [] verdict = "consume" ->
                 Update(k, [r EXCEPT !.state = "consumed", !.userUntil = 0, !.until = until,
                                     !.deviceUntil = Refresh(@, until)])
            [] OTHER -> UNCHANGED pairings
       /\ UNCHANGED retryIndex

CancelPairing(k) ==
    LET r == pairings[k]
        until == now + TombstoneTtl
    IN /\ FoundByDevice(k) /\ r.state \in Live
       /\ Update(k, [r EXCEPT !.state = IF Over(r.expiresAt) THEN "expired" ELSE "cancelled",
              !.activation = "none", !.envelope = NoEnvelope, !.token = None,
              !.retryUntil = 0, !.userUntil = 0, !.until = until, !.deviceUntil = until])
       /\ retryIndex' = [t \in Tokens |-> IF t = r.token THEN Unindexed ELSE retryIndex[t]]

-----------------------------------------------------------------------------

\* Keys that expire as the clock reaches u.
DropPairings(u) ==
    LET kept(until) == IF DroppedAt(until, u) THEN 0 ELSE until
        dropped(r) == IF r.state \in {"unissued", "gone"} \/ ~DroppedAt(r.until, u) THEN r
                      ELSE [Unissued EXCEPT !.state = "gone", !.userUntil = r.userUntil,
                                            !.deviceUntil = r.deviceUntil]
        indexed(r) == [r EXCEPT !.userUntil = kept(@), !.deviceUntil = kept(@)]
    IN /\ pairings' = [k \in Pairings |-> indexed(dropped(pairings[k]))]
       /\ retryIndex' = [t \in Tokens |->
              IF DroppedAt(retryIndex[t].until, u) THEN Unindexed ELSE retryIndex[t]]
=============================================================================
