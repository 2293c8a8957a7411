-------------------------- MODULE PairingActivation --------------------------
(***************************************************************************)
(* The pairing coordinator over the pairings and the management sessions   *)
(* in Redis and the profiles and devices in PostgreSQL.                    *)
(*                                                                         *)
(* A browser's request activates the pairing (or recovers its activation), *)
(* provisions the profile, registers the device, finalizes the pairing and *)
(* issues a management session; a device's poll redeems the pairing and    *)
(* discloses the device token.  Every step is one call to one store, and   *)
(* any number of requests and polls run at once.  A call that is never     *)
(* scheduled again stands for a crashed process or a lost reply.           *)
(***************************************************************************)
EXTENDS PairingStore, ManagementStore

CONSTANTS
    Browsers,      \* concurrent browser requests
    Pollers,       \* concurrent polls of devices
    Requests,      \* what browsers send: retry token, pairing of the user code, configuration
    MaxTime        \* bound: the clock

\* A browser makes a token for one user code and one configuration.
ASSUME RequestsAssumption ==
    /\ Requests \subseteq [token : Tokens, pairing : Pairings, config : Configs]
    /\ \A x, y \in Requests : x.token = y.token => x.pairing = y.pairing
    /\ Browsers \cap Pollers = {}
    /\ MaxTime \in Nat

VARIABLES
    active,      \* PostgreSQL: profiles whose status is "active"
    devices,     \* PostgreSQL: the device rows
    client,      \* where each request and each poll is, and what it carries
    deviceTokens,\* device tokens made so far: their uniqueness
    answers,     \* history: what browsers were answered
    disclosures  \* history: what devices were told

historyVars == <<answers, disclosures>>
pgVars == <<active, devices>>
vars == <<now, pairingVars, managementVars, pgVars, client, deviceTokens, historyVars>>

NoRequest == [token |-> None, pairing |-> None, config |-> None]

Idle == [pc |-> "idle", request |-> NoRequest, pairing |-> None, envelope |-> NoEnvelope,
         retryUntil |-> 0]

Init ==
    /\ now = 0
    /\ PairingInit /\ ManagementInit
    /\ active = Profiles /\ devices = {}
    /\ client = [c \in Browsers \cup Pollers |-> Idle]
    /\ deviceTokens = 0
    /\ answers = {} /\ disclosures = {}

At(c, label) == client[c].pc = label

Become(c, r) == client' = [client EXCEPT ![c] = r]

Goto(c, label) == Become(c, [client[c] EXCEPT !.pc = label])

Done(c) == Become(c, Idle)

Token(c) == client[c].request.token

Config(c) == client[c].request.config

Profile(c) == ProfileOf[Config(c)]

-----------------------------------------------------------------------------
(* activate: the pairing record.                                             *)

\* The first look at the user index decides which script runs.
StartActivate(b, r) ==
    /\ At(b, "idle") /\ pairings[r.pairing].state # "unissued" /\ FoundByUser(r.pairing)
    /\ Become(b, [Idle EXCEPT !.request = r, !.pc = "activate"])
    /\ UNCHANGED <<now, pairingVars, managementVars, pgVars, deviceTokens, historyVars>>

\* Mutant: an activation that was found is taken to be registered.
ActivatingAgain(b, r, k) ==
    LET e == pairings'[k].envelope
    IN Become(b, [Idle EXCEPT !.request = r, !.pairing = k, !.envelope = e,
           !.retryUntil = pairings'[k].retryUntil,
           !.pc = IF e.profile # None THEN "replay"
                  ELSE IF pairings[k].state # "pending" THEN "peek" ELSE "register"])

\* The activation found or made: a finalized one may have been answered already.
Activating(b, r, k) ==
    LET e == pairings'[k].envelope
    IN Become(b, [Idle EXCEPT !.request = r, !.pairing = k, !.envelope = e,
           !.retryUntil = pairings'[k].retryUntil,
           !.pc = IF e.profile # None THEN "replay" ELSE "register"])

Activate(b) ==
    LET k == client[b].request.pairing
        verdict == ActivateVerdict(k, Token(b), Config(b))
        made == deviceTokens + 1
    IN /\ At(b, "activate")
       /\ ActivateEffect(k, Token(b), Config(b), made, verdict)
       /\ deviceTokens' = IF verdict = "new" THEN made ELSE deviceTokens
       /\ IF verdict \in {"new", "activating", "activated"}
          THEN Activating(b, client[b].request, k) ELSE Done(b)
       /\ UNCHANGED <<now, managementVars, pgVars, historyVars>>

\* A reload of the page recovers without the user code, and so does a request whose
\* user code is not found any more: what it found changes nothing that follows.
RecoverActivation(b, r) ==
    LET verdict == RecoverPairingVerdict(r.token, r.config)
    IN /\ At(b, "idle") /\ pairings[r.pairing].state # "unissued"
       /\ RecoverPairingEffect(r.token, verdict)
       /\ IF verdict \in {"activating", "activated"}
          THEN Activating(b, r, retryIndex[r.token].pairing) ELSE UNCHANGED client
       /\ UNCHANGED <<now, managementVars, pgVars, deviceTokens, historyVars>>

-----------------------------------------------------------------------------
(* activate: the answer given before, if there is one.                       *)

Replayed(b) == RecoverVerdict(Token(b), client[b].pairing, Config(b))

Replay(b) ==
    /\ At(b, "replay")
    /\ RecoverEffect(Token(b), Replayed(b))
    /\ IF Replayed(b) = "replayed" THEN Goto(b, "recheck")
       ELSE IF Replayed(b) \in {"not_found", "over"} THEN Goto(b, "register")
       ELSE Done(b)
    /\ UNCHANGED <<now, pairingVars, pgVars, deviceTokens, historyVars>>

RecheckProfile(b) ==
    /\ At(b, "recheck")
    /\ Goto(b, IF client[b].envelope.profile \in active THEN "confirm" ELSE "deny")
    /\ UNCHANGED <<now, pairingVars, managementVars, pgVars, deviceTokens, historyVars>>

Answered(b) == [client[b] EXCEPT !.pc = "answer", !.envelope.profile = Profile(b)]

ConfirmReplay(b) ==
    /\ At(b, "confirm")
    /\ RecoverEffect(Token(b), Replayed(b))
    /\ IF Replayed(b) = "replayed" THEN Become(b, Answered(b))
       ELSE IF Replayed(b) \in {"not_found", "over"} THEN Goto(b, "register")
       ELSE Done(b)
    /\ UNCHANGED <<now, pairingVars, pgVars, deviceTokens, historyVars>>

DenyReplay(b) ==
    /\ At(b, "deny")
    /\ RevokeReplay(Token(b), client[b].pairing, Config(b))
    /\ Done(b)
    /\ UNCHANGED <<now, pairingVars, pgVars, deviceTokens, historyVars>>

-----------------------------------------------------------------------------
(* activate: the durable device, the finalization and the session.           *)

Device(k) == {d \in devices : d.pairing = k}

\* Provisioning finds the profile of the configuration or fails; registration locks
\* the profile, which must be active, and repeats only itself.
Register(b) ==
    LET d == [pairing |-> client[b].pairing, profile |-> Profile(b),
              token |-> client[b].envelope.device, revoked |-> FALSE]
    IN /\ At(b, "register")
       /\ IF Profile(b) \in active /\ Device(d.pairing) \subseteq {d}
          THEN devices' = devices \cup {d} /\ Goto(b, "peek")
          ELSE Done(b) /\ UNCHANGED devices
       /\ UNCHANGED <<now, pairingVars, managementVars, active, deviceTokens, historyVars>>

\* completeActivation reads the envelope that it will replace.
PeekCompletion(b) ==
    LET k == client[b].pairing
    IN /\ At(b, "peek")
       /\ IF /\ CompleteVerdict(k, Config(b)) = "ready"
             /\ pairings[k].envelope.profile \in {None, Profile(b)}
          THEN Become(b, [client[b] EXCEPT !.pc = "complete", !.envelope = pairings[k].envelope])
          ELSE Done(b)
       /\ UNCHANGED <<now, pairingVars, managementVars, pgVars, deviceTokens, historyVars>>

Complete(b) ==
    LET k == client[b].pairing
        verdict == FinalizeVerdict(k, Config(b), client[b].envelope, Profile(b))
    IN /\ At(b, "complete")
       /\ FinalizeEffect(k, Profile(b), verdict)
       /\ IF verdict \in {"activated", "finalized"} THEN Goto(b, "status") ELSE Done(b)
       /\ UNCHANGED <<now, managementVars, pgVars, deviceTokens, historyVars>>

\* issueForPairing: a generation that is revoked now is revoked for the script too.
CheckProfile(b) ==
    /\ At(b, "status")
    /\ IF Profile(b) \in active THEN Goto(b, "issue") ELSE Done(b)
    /\ UNCHANGED <<now, pairingVars, managementVars, pgVars, deviceTokens, historyVars>>

IssueManagement(b) ==
    LET k == client[b].pairing
        verdict == IssueVerdict(Profile(b), Token(b), k, Config(b), client[b].retryUntil)
    IN /\ At(b, "issue")
       /\ IssueEffect(Profile(b), Token(b), k, Config(b), client[b].retryUntil, verdict)
       /\ IF verdict \in {"issued", "replayed"} THEN Become(b, Answered(b)) ELSE Done(b)
       /\ UNCHANGED <<now, pairingVars, pgVars, deviceTokens, historyVars>>

\* Disclosed in a transaction that finds the profile active and the device valid.
Disclosable(k, p) == p \in active /\ \E d \in Device(k) : d.profile = p /\ ~d.revoked

AnswerBrowser(b) ==
    LET k == client[b].pairing
    IN /\ At(b, "answer")
       /\ answers' = IF Disclosable(k, Profile(b))
                     THEN answers \cup {[pairing |-> k, token |-> Token(b),
                                         config |-> Config(b), profile |-> Profile(b)]}
                     ELSE answers
       /\ Done(b)
       /\ UNCHANGED <<now, pairingVars, managementVars, pgVars, deviceTokens, disclosures>>

-----------------------------------------------------------------------------
(* redeem                                                                    *)

StartPoll(q, k) ==
    LET verdict == PeekVerdict(k)
        found == [Idle EXCEPT !.pairing = k, !.envelope = pairings[k].envelope]
    IN /\ At(q, "idle") /\ pairings[k].state # "unissued"
       /\ RedeemEffect(k, verdict)
       /\ CASE verdict = "ready" -> Become(q, [found EXCEPT !.pc = "redeem"])
            [] verdict = "replay" -> Become(q, [found EXCEPT !.pc = "authenticate"])
            [] OTHER -> Done(q)
       /\ UNCHANGED <<now, managementVars, pgVars, deviceTokens, historyVars>>

Redeem(q) ==
    LET k == client[q].pairing
        verdict == RedeemVerdict(k, client[q].envelope)
    IN /\ At(q, "redeem")
       /\ RedeemEffect(k, verdict)
       /\ IF verdict \in {"consume", "redeemed"} THEN Goto(q, "authenticate") ELSE Done(q)
       /\ UNCHANGED <<now, managementVars, pgVars, deviceTokens, historyVars>>

\* The device's token must be good, and its profile active.
AuthenticateDevice(q) ==
    LET e == client[q].envelope
    IN /\ At(q, "authenticate")
       /\ IF /\ Disclosable(client[q].pairing, e.profile)
             /\ \E d \in Device(client[q].pairing) : d.token = e.device
          THEN Goto(q, "disclose") ELSE Done(q)
       /\ UNCHANGED <<now, pairingVars, managementVars, pgVars, deviceTokens, historyVars>>

Disclose(q) ==
    LET e == client[q].envelope
        told == [pairing |-> client[q].pairing, config |-> e.config, profile |-> e.profile,
                 token |-> e.device]
    IN /\ At(q, "disclose")
       /\ disclosures' = IF Disclosable(told.pairing, told.profile)
                         THEN disclosures \cup {told} ELSE disclosures
       /\ Done(q)
       /\ UNCHANGED <<now, pairingVars, managementVars, pgVars, deviceTokens, answers>>

-----------------------------------------------------------------------------
(* The device starts and cancels pairings; the owner revokes the device, logs *)
(* out or erases the profile; time passes.                                    *)

Issue(k) ==
    /\ IssuePairing(k)
    /\ UNCHANGED <<now, managementVars, pgVars, client, deviceTokens, historyVars>>

Cancel(k) ==
    /\ CancelPairing(k)
    /\ UNCHANGED <<now, managementVars, pgVars, client, deviceTokens, historyVars>>

RevokeDevice(d) ==
    /\ d \in devices /\ ~d.revoked
    /\ devices' = (devices \ {d}) \cup {[d EXCEPT !.revoked = TRUE]}
    /\ UNCHANGED <<now, pairingVars, managementVars, active, client, deviceTokens, historyVars>>

Logout(s) ==
    /\ s \in sessions
    /\ RevokeSession(s.id)
    /\ UNCHANGED <<now, pairingVars, pgVars, client, deviceTokens, historyVars>>

RequestErasure(p) ==
    /\ p \in active
    /\ active' = active \ {p}
    /\ UNCHANGED <<now, pairingVars, managementVars, devices, client, deviceTokens, historyVars>>

EraseSessions(p) ==
    /\ p \notin active /\ p \notin revoked
    /\ RevokeProfile(p)
    /\ UNCHANGED <<now, pairingVars, pgVars, client, deviceTokens, historyVars>>

Tick ==
    /\ now < MaxTime
    /\ now' = now + 1
    /\ DropPairings(now') /\ DropManagement(now')
    /\ UNCHANGED <<pgVars, client, deviceTokens, historyVars>>

BrowserStep(b) ==
    \/ \E r \in Requests : StartActivate(b, r) \/ RecoverActivation(b, r)
    \/ Activate(b)
    \/ Replay(b) \/ RecheckProfile(b) \/ ConfirmReplay(b) \/ DenyReplay(b)
    \/ Register(b) \/ PeekCompletion(b) \/ Complete(b)
    \/ CheckProfile(b) \/ IssueManagement(b) \/ AnswerBrowser(b)

PollerStep(q) ==
    \/ \E k \in Pairings : StartPoll(q, k)
    \/ Redeem(q) \/ AuthenticateDevice(q) \/ Disclose(q)

Environment ==
    \/ \E k \in Pairings : Issue(k) \/ Cancel(k)
    \/ \E d \in devices : RevokeDevice(d)
    \/ \E s \in sessions : Logout(s)
    \/ \E p \in Profiles : RequestErasure(p) \/ EraseSessions(p)
    \/ Tick

Next ==
    \/ \E b \in Browsers : BrowserStep(b)
    \/ \E q \in Pollers : PollerStep(q)
    \/ Environment

Spec == Init /\ [][Next]_vars

-----------------------------------------------------------------------------
(* Properties.                                                               *)

Envelopes == [config : Configs \cup {None}, device : Nat, profile : Profiles \cup {None}]

Records == [state : {"unissued", "pending", "activating", "activated", "consumed",
                     "cancelled", "expired", "gone"},
            activation : {"none", "activating", "activated"}, envelope : Envelopes,
            token : Tokens \cup {None}, retryUntil : Nat, expiresAt : Nat, until : Nat,
            userUntil : Nat, deviceUntil : Nat]

Labels == {"idle", "activate", "replay", "recheck", "confirm", "deny", "register",
           "peek", "complete", "status", "issue", "answer", "redeem", "authenticate", "disclose"}

Clients == [pc : Labels, request : Requests \cup {NoRequest}, pairing : Pairings \cup {None},
            envelope : Envelopes, retryUntil : Nat]

TypeOK ==
    /\ now \in Nat
    /\ pairings \in [Pairings -> Records]
    /\ retryIndex \in [Tokens -> [pairing : Pairings \cup {None}, until : Nat]]
    /\ active \subseteq Profiles /\ revoked \subseteq Profiles
    /\ devices \subseteq [pairing : Pairings, profile : Profiles, token : Nat, revoked : BOOLEAN]
    /\ client \in [Browsers \cup Pollers -> Clients]
    /\ deviceTokens \in Nat
    /\ answers \subseteq [pairing : Pairings, token : Tokens, config : Configs, profile : Profiles]
    /\ disclosures \subseteq [pairing : Pairings, config : Configs, profile : Profiles, token : Nat]

\* A pairing has one owner: the requests that its activation let through, and
\* every answer and disclosure, name one token, configuration, profile and device
\* token, whatever races, retries and expires.
OneOutcome ==
    /\ \A b, c \in Browsers :
           client[b].pairing = client[c].pairing /\ client[b].pairing # None =>
               /\ Token(b) = Token(c) /\ Config(b) = Config(c)
               /\ client[b].envelope.device = client[c].envelope.device
    /\ \A x, y \in answers : x.pairing = y.pairing => x = y
    /\ \A x, y \in disclosures : x.pairing = y.pairing => x = y
    /\ \A x \in answers, y \in disclosures :
           x.pairing = y.pairing => x.config = y.config /\ x.profile = y.profile

\* A pairing can be redeemed only if its device token is durably registered for
\* the profile in the envelope: Redis never runs ahead of PostgreSQL.
RegisteredBeforeRedeemable ==
    \A k \in Pairings :
        PeekVerdict(k) \in {"ready", "replay"} =>
            \E d \in Device(k) : /\ d.profile = pairings[k].envelope.profile
                                 /\ d.token = pairings[k].envelope.device

\* Cancelling and redeeming exclude each other, although a poll reads the envelope
\* before the script that consumes it: a cancelled pairing has told no device its
\* token and will not, and a device is told what the consumed record keeps.
CancelledTellsNothing ==
    \A k \in Pairings :
        /\ pairings[k].state = "cancelled" => \A d \in disclosures : d.pairing # k
        /\ \A q \in Pollers :
               client[q].pairing = k /\ ~At(q, "redeem") =>
                   /\ pairings[k].state \in {"consumed", "expired", "gone"}
                   /\ pairings[k].state = "consumed" =>
                          pairings[k].envelope = client[q].envelope

\* A pairing ends for one owner, or cancelled for nobody.
OutcomeStands == OneOutcome /\ CancelledTellsNothing

\* As long as a sealed answer is kept for a retry, a retry with nothing but its
\* token and configuration is led to it: the retry index, the finalized envelope
\* and the replay, under three keys with lifetimes of their own, go together.
\* Only cancelling takes the index away, and then all of it.
RetryReachesAnswer ==
    \A t \in Tokens :
        LET r == replays[t]
            k == r.pairing
        IN r.status = "issued" /\ ~Over(r.until) =>
               /\ pairings[k].state \notin {"cancelled", "gone"} => retryIndex[t].pairing = k
               /\ retryIndex[t].pairing = k =>
                      /\ RecoverPairingVerdict(t, r.config) = "activated"
                      /\ pairings[k].envelope.profile = ProfileOf[r.config]

=============================================================================
