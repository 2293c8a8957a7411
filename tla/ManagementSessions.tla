------------------------- MODULE ManagementSessions -------------------------
(***************************************************************************)
(* The operations of the management-session repository, each a sequence of *)
(* scripts with a look at the profile's status between them, run by        *)
(* concurrent callers of any number of server processes.  A caller that is *)
(* never scheduled again stands for a crashed process or a lost reply.     *)
(***************************************************************************)
EXTENDS ManagementStore

CONSTANTS
    Callers,       \* concurrent calls
    Requests,      \* pairing requests: a retry token, a pairing, a configuration
    RetryUntil,    \* when the pairing's retry window closes, for each token
    MaxIssues,     \* bound: sessions issued
    MaxTime        \* bound: the clock

ASSUME RequestsAssumption ==
    /\ Requests \subseteq [token : Tokens, pairing : Pairings, config : Configs]
    /\ MaxIssues \in Nat /\ MaxTime \in Nat

\* The replay outlives the retry window; both are ten minutes by default.
ASSUME ReplayWindowAssumption ==
    RetryUntil \in [Tokens -> Nat] /\ \A t \in Tokens : RetryUntil[t] <= ReplayTtl

VARIABLES
    active,     \* PostgreSQL: the profiles whose status is "active"
    client,     \* where each call is, and what it carries over its awaits
    grants,     \* history: which session was issued for which request
    said,       \* the session that the last step returned, and for which request
    ended       \* history: sessions whose revocation has been carried out

historyVars == <<grants, said, ended>>
vars == <<now, managementVars, active, client, historyVars>>

NoRequest == [token |-> None, pairing |-> None, config |-> None]

NoAnswer == [token |-> None, pairing |-> None, config |-> None, session |-> 0]

Idle == [pc |-> "idle", request |-> NoRequest, profile |-> None, session |-> 0, barred |-> FALSE]

Init ==
    /\ now = 0
    /\ ManagementInit
    /\ active = Profiles
    /\ client = [c \in Callers |-> Idle]
    /\ grants = {} /\ said = NoAnswer /\ ended = {}

At(c, label) == client[c].pc = label

Become(c, r) == client' = [client EXCEPT ![c] = r]

Goto(c, label) == Become(c, [client[c] EXCEPT !.pc = label])

Done(c) == Become(c, Idle)

\* The sessions that a script removed for good: an expired one ends by itself.
Ending == {s.id : s \in sessions \ sessions'}

\* A step that answers nobody.
Unsaid == said' = NoAnswer

Quiet == Unsaid /\ UNCHANGED <<grants, ended>>

Answer(r, id) == [token |-> r.token, pairing |-> r.pairing, config |-> r.config, session |-> id]

-----------------------------------------------------------------------------
(* issue and issueForPairing                                                 *)

StartIssue(c, p) ==
    /\ At(c, "idle") /\ minted < MaxIssues
    /\ Become(c, [Idle EXCEPT !.pc = "generation", !.profile = p])
    /\ Quiet
    /\ UNCHANGED <<now, managementVars, active>>

StartPairingIssue(c, r) ==
    /\ At(c, "idle") /\ minted < MaxIssues
    /\ Become(c, [Idle EXCEPT !.pc = "generation", !.request = r,
                  !.profile = ProfileOf[r.config]])
    /\ Quiet
    /\ UNCHANGED <<now, managementVars, active>>

\* _managementGeneration: a revoked profile ends the call.
ReadGeneration(c) ==
    /\ At(c, "generation")
    /\ IF client[c].profile \in revoked THEN Done(c) ELSE Goto(c, "status")
    /\ Quiet
    /\ UNCHANGED <<now, managementVars, active>>

CheckStatus(c) ==
    /\ At(c, "status")
    /\ IF client[c].profile \in active THEN Goto(c, "issue") ELSE Done(c)
    /\ Quiet
    /\ UNCHANGED <<now, managementVars, active>>

Issue(c) ==
    /\ At(c, "issue") /\ client[c].request = NoRequest
    /\ PlainEffect(client[c].profile, PlainVerdict(client[c].profile))
    /\ Done(c)
    /\ Quiet
    /\ UNCHANGED <<now, active>>

IssueForPairing(c) ==
    LET r == client[c].request
        p == client[c].profile
        verdict == IssueVerdict(p, r.token, r.pairing, r.config, RetryUntil[r.token])
    IN /\ At(c, "issue") /\ r # NoRequest
       /\ IssueEffect(p, r.token, r.pairing, r.config, RetryUntil[r.token], verdict)
       /\ grants' = IF verdict = "issued" THEN grants \cup {Answer(r, minted')} ELSE grants
       /\ said' = IF verdict \in {"issued", "replayed"}
                  THEN Answer(r, replays'[r.token].session) ELSE NoAnswer
       /\ ended' = ended \cup Ending
       /\ Done(c)
       /\ UNCHANGED <<now, active>>

-----------------------------------------------------------------------------
(* recoverPairing and revokePairing                                          *)

StartRecover(c, r) ==
    /\ At(c, "idle")
    /\ Become(c, [Idle EXCEPT !.pc = "recover", !.request = r,
                  !.profile = ProfileOf[r.config]])
    /\ Quiet
    /\ UNCHANGED <<now, managementVars, active>>

RecoverPairing(c) ==
    LET r == client[c].request
        verdict == RecoverVerdict(r.token, r.pairing, r.config)
    IN /\ At(c, "recover")
       /\ RecoverEffect(r.token, verdict)
       /\ ended' = ended \cup Ending
       /\ IF verdict = "replayed" THEN Goto(c, "recheck") ELSE Done(c)
       /\ Unsaid
       /\ UNCHANGED <<now, active, grants>>

RecheckStatus(c) ==
    /\ At(c, "recheck")
    /\ Goto(c, IF client[c].profile \in active THEN "confirm" ELSE "deny")
    /\ Quiet
    /\ UNCHANGED <<now, managementVars, active>>

ConfirmRecovery(c) ==
    LET r == client[c].request
        verdict == RecoverVerdict(r.token, r.pairing, r.config)
    IN /\ At(c, "confirm")
       /\ RecoverEffect(r.token, verdict)
       /\ said' = IF verdict = "replayed"
                  THEN Answer(r, replays[r.token].session) ELSE NoAnswer
       /\ ended' = ended \cup Ending
       /\ Done(c)
       /\ UNCHANGED <<now, active, grants>>

RevokePairing(c) ==
    /\ At(c, "deny")
    /\ RevokeReplay(client[c].request.token, client[c].request.pairing,
                    client[c].request.config)
    /\ ended' = ended \cup Ending
    /\ Done(c)
    /\ Unsaid
    /\ UNCHANGED <<now, active, grants>>

-----------------------------------------------------------------------------
(* authenticate, with the CSRF token that belongs to the session             *)

\* What must be refused from now on: sessions that have been revoked, and
\* sessions of profiles whose erasure has been requested.
Barred == ended \cup {s.id : s \in {x \in sessions : x.profile \notin active}}

StartAuthenticate(c, id) ==
    /\ At(c, "idle")
    /\ Become(c, [Idle EXCEPT !.pc = "authenticate", !.session = id, !.barred = id \in Barred])
    /\ Quiet
    /\ UNCHANGED <<now, managementVars, active>>

Authenticate(c) ==
    LET id == client[c].session
    IN /\ At(c, "authenticate")
       /\ AuthenticateEffect(id)
       /\ IF Authentic(id) = {} THEN Done(c)
          ELSE Become(c, [client[c] EXCEPT !.pc = "vouch",
                  !.profile = (CHOOSE s \in Authentic(id) : TRUE).profile])
       /\ ended' = ended \cup Ending
       /\ Unsaid
       /\ UNCHANGED <<now, active, grants>>

\* Mutant: the session alone decides.
VouchUnseen(c) ==
    /\ At(c, "vouch")
    /\ Goto(c, "accepted")
    /\ Quiet
    /\ UNCHANGED <<now, managementVars, active>>

Vouch(c) ==
    /\ At(c, "vouch")
    /\ Goto(c, IF client[c].profile \in active THEN "accepted" ELSE "logout")
    /\ Quiet
    /\ UNCHANGED <<now, managementVars, active>>

Return(c) ==
    /\ At(c, "accepted")
    /\ Done(c)
    /\ Quiet
    /\ UNCHANGED <<now, managementVars, active>>

RevokeUnvouched(c) ==
    /\ At(c, "logout")
    /\ RevokeSession(client[c].session)
    /\ ended' = ended \cup Ending
    /\ Done(c)
    /\ Unsaid
    /\ UNCHANGED <<now, active, grants>>

-----------------------------------------------------------------------------
(* The owner logs out; the profile is erased; time passes.                   *)

Logout(id) ==
    /\ RevokeSession(id)
    /\ ended' = ended \cup {id}
    /\ Unsaid
    /\ UNCHANGED <<now, active, client, grants>>

RequestErasure(p) ==
    /\ p \in active
    /\ active' = active \ {p}
    /\ Quiet
    /\ UNCHANGED <<now, managementVars, client>>

EraseSessions(p) ==
    /\ p \notin active
    /\ RevokeProfile(p)
    /\ ended' = ended \cup Ending
    /\ Unsaid
    /\ UNCHANGED <<now, active, client, grants>>

Tick ==
    /\ now < MaxTime
    /\ now' = now + 1
    /\ DropManagement(now')
    /\ Quiet
    /\ UNCHANGED <<active, client>>

Start(c) ==
    \/ \E p \in Profiles : StartIssue(c, p)
    \/ \E r \in Requests : StartPairingIssue(c, r) \/ StartRecover(c, r)
    \/ \E id \in 1 .. minted : StartAuthenticate(c, id)

Step(c) ==
    \/ ReadGeneration(c) \/ CheckStatus(c) \/ Issue(c) \/ IssueForPairing(c)
    \/ RecoverPairing(c) \/ RecheckStatus(c) \/ ConfirmRecovery(c) \/ RevokePairing(c)
    \/ Authenticate(c) \/ Vouch(c) \/ Return(c) \/ RevokeUnvouched(c)

Next ==
    \/ \E c \in Callers : Start(c) \/ Step(c)
    \/ \E id \in 1 .. minted : Logout(id)
    \/ \E p \in Profiles : RequestErasure(p) \/ EraseSessions(p)
    \/ Tick

Spec == Init /\ [][Next]_vars

-----------------------------------------------------------------------------
(* Properties.                                                               *)

Sessions == [id : Nat \ {0}, profile : Profiles, token : Tokens \cup {None},
             denialUntil : Nat, until : Nat]

Replays == [status : {"none", "issued", "denied"}, pairing : Pairings \cup {None},
            config : Configs \cup {None}, session : Nat, until : Nat, denialUntil : Nat]

Labels == {"idle", "generation", "status", "issue", "recover", "recheck", "confirm",
           "deny", "authenticate", "vouch", "accepted", "logout"}

Clients == [pc : Labels, request : Requests \cup {NoRequest},
            profile : Profiles \cup {None}, session : Nat, barred : BOOLEAN]

\* What a call needs at its next step it has.
Carries(r) ==
    /\ r.pc \in {"recover", "recheck", "confirm", "deny"} => r.request \in Requests
    /\ r.pc \in {"generation", "status", "issue"} => r.profile \in Profiles

Answers == [token : Tokens, pairing : Pairings, config : Configs, session : Nat \ {0}]

TypeOK ==
    /\ now \in Nat
    /\ revoked \subseteq Profiles
    /\ sessions \subseteq Sessions
    /\ replays \in [Tokens -> Replays]
    /\ minted \in Nat
    /\ active \subseteq Profiles
    /\ client \in [Callers -> Clients]
    /\ \A c \in Callers : Carries(client[c])
    /\ grants \subseteq Answers
    /\ said \in Answers \cup {NoAnswer}
    /\ ended \subseteq Nat

\* A retry token is worth one session, ever: a lost answer, an expired replay or
\* a revoked session never lets a retry mint another (pairing-issue script).
RetryMintsOnce ==
    \A x, y \in grants : x.token = y.token => x = y

\* Every caller that retries with a token is given the session of the first
\* request, and only with the pairing and the configuration of that request.
AnswersAgree == said # NoAnswer => said \in grants

\* No session outlives the revocation of its profile, or is issued after it,
\* although the generation was read before.
NoSessionOfRevoked == \A s \in sessions : s.profile \notin revoked

\* Replay and session end together: a replay within its time stands for a live
\* session, and a live session of a pairing is replayed until the denial is over.
ReplayMatchesSession ==
    /\ \A t \in Tokens :
           replays[t].status = "issued" /\ ~Over(replays[t].until) =>
               Authority(t, Profiles) # {}
    /\ \A s \in Unexpired :
           s.token # None /\ ~Over(s.denialUntil) =>
               replays[s.token].status = "issued" /\ replays[s.token].session = s.id

\* The configured capacities hold whatever issues interleave.
WithinCapacity ==
    /\ Cardinality(Unexpired) <= MaxSessions
    /\ \A p \in Profiles :
           Cardinality({s \in Unexpired : s.profile = p}) <= MaxSessionsPerProfile

\* A pairing request is answered only with a session that is alive and whose
\* profile is not revoked in the moment of the last script, whatever happened
\* since the first one.
AnswersAreLive ==
    said # NoAnswer =>
        \E s \in sessions : s.id = said.session /\ ~Over(s.until) /\ s.profile \notin revoked

\* What is answered to a pairing request is one session, and a live one; and the
\* keys that stand for it are moved together: replays, denials and counted indexes.
AnswersHold ==
    /\ AnswersAgree /\ AnswersAreLive
    /\ ReplayMatchesSession /\ WithinCapacity

\* An authentication that starts after its session was revoked, or after the
\* erasure of its profile was requested, is not accepted.
NoStaleAuthentication ==
    \A c \in Callers : At(c, "accepted") => ~client[c].barred
=============================================================================
