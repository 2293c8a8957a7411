--------------------------- MODULE ManagementStore ---------------------------
(***************************************************************************)
(* The management sessions in Redis and the scripts on them.               *)
(*                                                                         *)
(* A session is issued to a profile, either plainly or as the answer to a  *)
(* pairing.  In the second case a replay record, found by the browser's    *)
(* retry token, keeps the sealed answer so that a retry gets the same one; *)
(* when the session is revoked the record becomes a denial, which stays    *)
(* until the token is worthless.                                           *)
(***************************************************************************)
EXTENDS TtlClock

CONSTANTS
    SessionTtl,             \* ttlMs
    ReplayTtl,              \* pairingReplayTtlMs
    MaxSessions,            \* maxSessions
    MaxSessionsPerProfile   \* maxSessionsPerProfile

ASSUME StoreAssumption ==
    /\ SessionTtl \in Nat \ {0}
    /\ ReplayTtl \in Nat \ {0}
    /\ MaxSessions \in Nat \ {0}
    /\ MaxSessionsPerProfile \in 1 .. MaxSessions

VARIABLES
    revoked,    \* profiles whose generation key is "revoked:1"; it is never reset
    sessions,   \* the session hashes
    replays,    \* the replay hash of each retry token
    minted      \* sessions minted so far: the uniqueness of their tokens

managementVars == <<revoked, sessions, replays, minted>>

NoReplay == [status |-> "none", pairing |-> None, config |-> None, session |-> 0,
             until |-> 0, denialUntil |-> 0]

ManagementInit ==
    /\ revoked = {}
    /\ sessions = {}
    /\ replays = [t \in Tokens |-> NoReplay]
    /\ minted = 0

\* deny_replay: the sealed answer goes, the denial stays as long as it matters.
Denied(r) ==
    IF Over(r.denialUntil) THEN NoReplay
    ELSE [NoReplay EXCEPT !.status = "denied", !.pairing = r.pairing,
          !.config = r.config, !.denialUntil = r.denialUntil]

\* Mutant: the replay of a revoked session is not denied.
WithdrawOnly(gone) ==
    /\ sessions' = sessions \ gone
    /\ UNCHANGED replays

\* Delete sessions and deny the replays linked to them.
Withdraw(gone) ==
    /\ sessions' = sessions \ gone
    /\ replays' = [t \in Tokens |->
           IF \E s \in gone : s.token = t /\ s.id = replays[t].session
           THEN Denied(replays[t]) ELSE replays[t]]

\* The session a replay stands for, if it still has authority.
Authority(t, profiles) ==
    {s \in sessions : /\ s.id = replays[t].session /\ s.token = t
                      /\ ~Over(s.until)
                      /\ s.profile \in profiles /\ s.profile \notin revoked}

\* Mutant: the configuration of a retry is not compared.
ReplayVerdictAnyConfig(t, k, f, profiles) ==
    LET r == replays[t]
    IN IF r.status = "none" \/ r.pairing # k THEN "not_found"
       ELSE IF Over(r.denialUntil) THEN "over"
       ELSE IF r.status = "denied" THEN "denied"
       ELSE IF Over(r.until) THEN "closed"
       ELSE IF Authority(t, profiles) = {} THEN "stale"
       ELSE "replayed"

\* What the scripts make of an existing replay record.
ReplayVerdict(t, k, f, profiles) ==
    LET r == replays[t]
    IN IF r.status = "none" \/ r.pairing # k THEN "not_found"
       ELSE IF r.config # f THEN "conflict"
       ELSE IF Over(r.denialUntil) THEN "over"
       ELSE IF r.status = "denied" THEN "denied"
       ELSE IF Over(r.until) THEN "closed"
       ELSE IF Authority(t, profiles) = {} THEN "stale"
       ELSE "replayed"

\* And what they do about it: a record past its use is deleted, one whose time or
\* session is over is denied, and a session without authority is deleted.
ReplayEffect(t, verdict) ==
    /\ replays' = [replays EXCEPT ![t] =
           IF verdict = "over" THEN NoReplay
           ELSE IF verdict \in {"closed", "stale"} THEN Denied(@) ELSE @]
    /\ sessions' = IF verdict = "stale"
                   THEN {s \in sessions : s.id # replays[t].session} ELSE sessions

-----------------------------------------------------------------------------
(* Issuing.  The caller read the profile's generation as "0" before.         *)

Unexpired == {s \in sessions : ~Over(s.until)}

Full(p) ==
    \/ Cardinality(Unexpired) >= MaxSessions
    \/ Cardinality({s \in Unexpired : s.profile = p}) >= MaxSessionsPerProfile

NewSession(p, t, denial) ==
    [id |-> minted + 1, profile |-> p, token |-> t, denialUntil |-> denial,
     until |-> now + SessionTtl]

\* management-issue.lua
PlainVerdict(p) ==
    IF p \in revoked THEN "profile_changed" ELSE IF Full(p) THEN "capacity" ELSE "issued"

PlainEffect(p, verdict) ==
    /\ IF verdict = "issued"
       THEN sessions' = sessions \cup {NewSession(p, None, 0)} /\ minted' = minted + 1
       ELSE UNCHANGED <<sessions, minted>>
    /\ UNCHANGED <<replays, revoked>>

\* Mutant: the issue script does not look at the profile's generation.
IssueVerdictUnfenced(p, t, k, f, retryUntil) ==
    IF replays[t].status # "none" THEN ReplayVerdict(t, k, f, {p})
    ELSE IF Over(retryUntil) THEN "denied"
    ELSE IF Full(p) THEN "capacity"
    ELSE "issued"

\* Mutant: a denied replay is replaced by a new session.
IssueVerdictReminting(p, t, k, f, retryUntil) ==
    IF p \in revoked THEN "profile_changed"
    ELSE IF replays[t].status = "issued" THEN ReplayVerdict(t, k, f, {p})
    ELSE IF Over(retryUntil) THEN "denied"
    ELSE IF Full(p) THEN "capacity"
    ELSE "issued"

\* management-pairing-issue.lua
IssueVerdict(p, t, k, f, retryUntil) ==
    IF p \in revoked THEN "profile_changed"
    ELSE IF replays[t].status # "none" THEN ReplayVerdict(t, k, f, {p})
    ELSE IF Over(retryUntil) THEN "denied"
    ELSE IF Full(p) THEN "capacity"
    ELSE "issued"

IssueEffect(p, t, k, f, retryUntil, verdict) ==
    LET denial == Earlier(retryUntil, now + ReplayTtl)
        s == NewSession(p, t, denial)
    IN /\ IF verdict = "issued"
          THEN /\ sessions' = sessions \cup {s}
               /\ minted' = s.id
               /\ replays' = [replays EXCEPT ![t] =
                      [status |-> "issued", pairing |-> k, config |-> f, session |-> s.id,
                       until |-> Earlier(denial, s.until), denialUntil |-> denial]]
          ELSE ReplayEffect(t, verdict) /\ UNCHANGED minted
       /\ UNCHANGED revoked

-----------------------------------------------------------------------------
(* Recovering, revoking, authenticating.                                     *)

\* management-pairing-recover.lua
RecoverVerdict(t, k, f) == ReplayVerdict(t, k, f, Profiles)

RecoverEffect(t, verdict) == ReplayEffect(t, verdict) /\ UNCHANGED <<revoked, minted>>

\* management-pairing-revoke.lua
RevokeReplay(t, k, f) ==
    LET r == replays[t]
    IN /\ IF r.status = "issued" /\ r.pairing = k /\ r.config = f
          THEN /\ replays' = [replays EXCEPT ![t] = Denied(@)]
               /\ sessions' = {s \in sessions : s.id # r.session}
          ELSE UNCHANGED <<replays, sessions>>
       /\ UNCHANGED <<revoked, minted>>

\* management-revoke.lua
RevokeSession(id) ==
    Withdraw({s \in sessions : s.id = id}) /\ UNCHANGED <<revoked, minted>>

\* management-revoke-profile.lua
RevokeProfile(p) ==
    /\ revoked' = revoked \cup {p}
    /\ Withdraw({s \in sessions : s.profile = p})
    /\ UNCHANGED minted

\* management-authenticate.lua
Authentic(id) ==
    {s \in sessions : s.id = id /\ ~Over(s.until) /\ s.profile \notin revoked}

AuthenticateEffect(id) ==
    /\ Withdraw(IF Authentic(id) = {} THEN {s \in sessions : s.id = id} ELSE {})
    /\ UNCHANGED <<revoked, minted>>

\* Keys that expire as the clock reaches t.
DropManagement(t) ==
    /\ sessions' = {s \in sessions : ~DroppedAt(s.until, t)}
    /\ replays' = [x \in Tokens |->
           IF DroppedAt(replays[x].denialUntil, t) THEN NoReplay ELSE replays[x]]
    /\ UNCHANGED <<revoked, minted>>
=============================================================================
