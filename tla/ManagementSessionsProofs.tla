---------------------- MODULE ManagementSessionsProofs ----------------------
(***************************************************************************)
(* Proofs about ManagementSessions, for any numbers of callers, profiles,  *)
(* requests and sessions and any durations: type correctness, that no      *)
(* session of a revoked profile exists, that a retry token is worth one    *)
(* session, that what is answered is that session and alive, within the    *)
(* capacities, and that no authentication is stale.                        *)
(***************************************************************************)
EXTENDS ManagementSessions, FiniteSetTheorems, TLAPS

\* What every script other than a successful issue does to the store: sessions
\* only go, and a replay stays, becomes a denial, or goes when its time is over.
Shrinks ==
    /\ sessions' \subseteq sessions
    /\ replays' \in [Tokens -> Replays]
    /\ \A t \in Tokens :
           \/ replays'[t] = replays[t]
           \/ replays'[t] = Denied(replays[t])
           \/ replays'[t] = NoReplay /\ replays[t].denialUntil <= now'

-----------------------------------------------------------------------------
(* The store.                                                                *)

LEMMA NoReplayTyped == NoReplay \in Replays
BY DEF NoReplay, Replays

LEMMA DeniedTyped ==
    ASSUME NEW r \in Replays
    PROVE  Denied(r) \in Replays
<1>1. CASE Over(r.denialUntil)
  BY <1>1, NoReplayTyped DEF Denied
<1>2. CASE ~Over(r.denialUntil)
  BY <1>2 DEF Denied, NoReplay, Replays
<1> QED BY <1>1, <1>2

LEMMA WithdrawShrinks ==
    ASSUME TypeOK, NEW gone, Withdraw(gone)
    PROVE  Shrinks
BY DeniedTyped DEF Withdraw, TypeOK, Shrinks

LEMMA ReplayEffectShrinks ==
    ASSUME TypeOK, NEW t \in Tokens, NEW verdict, ReplayEffect(t, verdict),
           verdict = "over" => Over(replays[t].denialUntil), now' = now
    PROVE  Shrinks
<1>1. sessions' \subseteq sessions
  BY DEF ReplayEffect
<1>2. replays[t] \in Replays
  BY DEF TypeOK
<1>3. ASSUME NEW x \in Tokens, x # t
      PROVE  replays'[x] = replays[x]
  BY <1>3 DEF ReplayEffect, TypeOK
<1>4. \/ replays'[t] = replays[t]
      \/ replays'[t] = Denied(replays[t])
      \/ replays'[t] = NoReplay /\ replays[t].denialUntil <= now'
  BY DEF ReplayEffect, TypeOK, Over
<1>5. replays' \in [Tokens -> Replays]
  BY <1>2, DeniedTyped, NoReplayTyped DEF ReplayEffect, TypeOK
<1> QED BY <1>1, <1>3, <1>4, <1>5 DEF Shrinks

LEMMA VerdictOver ==
    ASSUME NEW t, NEW k, NEW f, NEW profiles, ReplayVerdict(t, k, f, profiles) = "over"
    PROVE  Over(replays[t].denialUntil)
BY DEF ReplayVerdict

LEMMA RevokeReplayShrinks ==
    ASSUME TypeOK, NEW t \in Tokens, NEW k, NEW f, RevokeReplay(t, k, f)
    PROVE  Shrinks
<1>1. replays[t] \in Replays
  BY DEF TypeOK
<1> QED BY <1>1, DeniedTyped DEF RevokeReplay, TypeOK, Shrinks

LEMMA DropShrinks ==
    ASSUME TypeOK, now' \in Nat, DropManagement(now')
    PROVE  Shrinks
BY NoReplayTyped DEF DropManagement, DroppedAt, TypeOK, Shrinks, Replays

LEMMA KeepShrinks ==
    ASSUME TypeOK, UNCHANGED <<sessions, replays>>
    PROVE  Shrinks
BY DEF TypeOK, Shrinks

LEMMA NewSessionTyped ==
    ASSUME TypeOK, NEW p \in Profiles, NEW t \in Tokens \cup {None}, NEW d \in Nat
    PROVE  NewSession(p, t, d) \in Sessions
BY StoreAssumption DEF NewSession, Sessions, TypeOK

\* What is issued with a token: a session and its replay, kept as long as the
\* retry window of the token is open.
Granted(r, p) ==
    LET id == minted + 1
        denial == RetryUntil[r.token]
    IN /\ replays[r.token].status = "none" /\ ~Over(denial)
       /\ p \notin revoked /\ ~Full(p)
       /\ minted' = id
       /\ sessions' = sessions \cup {NewSession(p, r.token, denial)}
       /\ replays' \in [Tokens -> Replays]
       /\ \A t \in Tokens \ {r.token} : replays'[t] = replays[t]
       /\ replays'[r.token].status = "issued"
       /\ replays'[r.token].session = id
       /\ replays'[r.token].denialUntil = denial
       /\ replays'[r.token].until = Earlier(denial, now + SessionTtl)
       /\ replays'[r.token].pairing = r.pairing /\ replays'[r.token].config = r.config

LEMMA EarlierLower ==
    ASSUME NEW a \in Int, NEW b \in Int, a <= b
    PROVE  Earlier(a, b) = a
BY DEF Earlier

LEMMA EarlierTyped ==
    ASSUME NEW a \in Nat, NEW b \in Nat
    PROVE  Earlier(a, b) \in Nat
BY DEF Earlier

\* The script either issues, or shrinks the store.
LEMMA IssueCases ==
    ASSUME TypeOK, NEW r \in Requests, NEW p \in Profiles, NEW verdict, now' = now,
           verdict = IssueVerdict(p, r.token, r.pairing, r.config, RetryUntil[r.token]),
           IssueEffect(p, r.token, r.pairing, r.config, RetryUntil[r.token], verdict)
    PROVE  /\ revoked' = revoked
           /\ verdict = "issued" => Granted(r, p)
           /\ verdict # "issued" => Shrinks /\ minted' = minted
<1> DEFINE t == r.token
           d == RetryUntil[t]
           s == NewSession(p, t, d)
           record == [status |-> "issued", pairing |-> r.pairing, config |-> r.config,
                      session |-> s.id, until |-> Earlier(d, s.until), denialUntil |-> d]
<1>1. t \in Tokens /\ r.pairing \in Pairings /\ r.config \in Configs /\ d \in Nat
  BY RequestsAssumption, ReplayWindowAssumption
<1>2. Earlier(d, now + ReplayTtl) = d
  <2>1. d <= now + ReplayTtl /\ now + ReplayTtl \in Int
    BY <1>1, ReplayWindowAssumption, StoreAssumption DEF TypeOK
  <2> QED BY <1>1, <2>1, EarlierLower
<1>3. CASE verdict = "issued"
  <2>1. replays[t].status = "none" /\ ~Over(d) /\ p \notin revoked /\ ~Full(p)
    <3>1. \A k, f, ps : ReplayVerdict(t, k, f, ps) # "issued"
      BY DEF ReplayVerdict
    <3> QED BY <1>3, <3>1 DEF IssueVerdict
  <2>2. /\ sessions' = sessions \cup {s}
        /\ minted' = s.id
        /\ replays' = [replays EXCEPT ![t] = record]
        /\ revoked' = revoked
    BY <1>2, <1>3 DEF IssueEffect
  <2>3. s.id = minted + 1 /\ s \in Sessions
    BY <1>1, NewSessionTyped DEF NewSession
  <2>4. record \in Replays
    <3>1. s.id \in Nat /\ s.until \in Nat
      BY <2>3 DEF Sessions
    <3>2. Earlier(d, s.until) \in Nat
      BY <1>1, <3>1, EarlierTyped
    <3> HIDE DEF s
    <3> QED BY <1>1, <3>1, <3>2 DEF Replays
  <2>5. replays' \in [Tokens -> Replays] /\ replays'[t] = record
        /\ \A x \in Tokens \ {t} : replays'[x] = replays[x]
    <3> HIDE DEF record
    <3> QED BY <1>1, <2>2, <2>4 DEF TypeOK
  <2>6. s.until = now + SessionTtl
    BY DEF NewSession
  <2> QED BY <1>3, <2>1, <2>2, <2>3, <2>5, <2>6 DEF Granted
<1>4. CASE verdict # "issued"
  <2>1. ReplayEffect(t, verdict) /\ UNCHANGED minted /\ UNCHANGED revoked
    BY <1>4 DEF IssueEffect
  <2>2. verdict = "over" => Over(replays[t].denialUntil)
    BY VerdictOver DEF IssueVerdict
  <2> QED BY <1>1, <1>4, <2>1, <2>2, ReplayEffectShrinks
<1> QED BY <1>3, <1>4
-----------------------------------------------------------------------------
(* Type correctness.                                                         *)

StoreTyped ==
    /\ now' \in Nat
    /\ revoked' \subseteq Profiles
    /\ sessions' \subseteq Sessions
    /\ replays' \in [Tokens -> Replays]
    /\ minted' \in Nat

ClientTyped ==
    /\ client' \in [Callers -> Clients]
    /\ \A c \in Callers : Carries(client'[c])

LEMMA ShrinksTyped ==
    ASSUME TypeOK, Shrinks, now' = now, minted' = minted, revoked' \subseteq Profiles
    PROVE  StoreTyped
BY DEF TypeOK, Shrinks, StoreTyped

LEMMA KeepTyped ==
    ASSUME TypeOK, UNCHANGED <<now, managementVars>>
    PROVE  StoreTyped
BY DEF TypeOK, managementVars, StoreTyped

LEMMA IdleTyped == Idle \in Clients /\ Carries(Idle)
BY DEF Idle, Clients, Labels, Carries

LEMMA BecomeTyped ==
    ASSUME TypeOK, NEW c \in Callers, NEW r \in Clients, Carries(r), Become(c, r)
    PROVE  ClientTyped
BY DEF TypeOK, Become, ClientTyped

LEMMA GotoTyped ==
    ASSUME TypeOK, NEW c \in Callers, NEW label \in Labels, Goto(c, label),
           Carries([client[c] EXCEPT !.pc = label])
    PROVE  ClientTyped
<1>1. client[c] \in Clients
  BY DEF TypeOK
<1>2. [client[c] EXCEPT !.pc = label] \in Clients
  BY <1>1 DEF Clients
<1> QED BY <1>2, BecomeTyped DEF Goto

LEMMA EndingTyped ==
    ASSUME TypeOK
    PROVE  Ending \subseteq Nat
BY DEF TypeOK, Ending, Sessions

LEMMA AnswerTyped ==
    ASSUME NEW r \in Requests, NEW id \in Nat \ {0}
    PROVE  Answer(r, id) \in Answers
BY RequestsAssumption DEF Answer, Answers

LEMMA RequestTyped ==
    ASSUME TypeOK, NEW r \in Requests
    PROVE  /\ r.token \in Tokens /\ r.config \in Configs
           /\ ProfileOf[r.config] \in Profiles
           /\ RetryUntil[r.token] \in Nat
BY RequestsAssumption, ReplayWindowAssumption, NamesAssumption

\* What is replayed is a session's record.
LEMMA ReplayedSession ==
    ASSUME TypeOK, NEW t \in Tokens, NEW k, NEW f, NEW profiles,
           ReplayVerdict(t, k, f, profiles) = "replayed"
    PROVE  replays[t].session \in Nat \ {0}
<1>1. Authority(t, profiles) # {}
  BY DEF ReplayVerdict
<1>2. PICK s \in sessions : s.id = replays[t].session
  BY <1>1 DEF Authority
<1> QED BY <1>2 DEF TypeOK, Sessions

LEMMA Assemble ==
    ASSUME StoreTyped, ClientTyped, active' \subseteq Profiles, grants' \subseteq Answers,
           said' \in Answers \cup {NoAnswer}, ended' \subseteq Nat
    PROVE  TypeOK'
BY DEF StoreTyped, ClientTyped, TypeOK

-----------------------------------------------------------------------------
(* What the steps do to the store and to the grants.                         *)

\* Nothing is issued; sessions of profiles that are revoked now are gone.
Calm ==
    /\ Shrinks
    /\ now' \in Nat /\ now' >= now
    /\ grants' = grants
    /\ \A s \in sessions' : s.profile \in revoked' => s.profile \in revoked

PlainIssue ==
    \E p \in Profiles :
        /\ p \notin revoked /\ ~Full(p)
        /\ sessions' = sessions \cup {NewSession(p, None, 0)} /\ minted' = minted + 1
        /\ UNCHANGED <<now, revoked, replays, grants>>

PairingIssue ==
    \E r \in Requests, p \in Profiles :
        /\ Granted(r, p)
        /\ UNCHANGED <<now, revoked>>
        /\ grants' = grants \cup {Answer(r, minted')}

StoreStep == Calm \/ PlainIssue \/ PairingIssue

LEMMA ShrinksCalm ==
    ASSUME TypeOK, Shrinks, UNCHANGED <<now, revoked, grants>>
    PROVE  Calm
BY DEF TypeOK, Calm

LEMMA KeepCalm ==
    ASSUME TypeOK, UNCHANGED <<now, managementVars, grants>>
    PROVE  Calm
BY KeepShrinks, ShrinksCalm DEF managementVars

\* The steps that only move the caller.
LEMMA QuietStep ==
    ASSUME TypeOK, Quiet, UNCHANGED <<now, managementVars>>, active' \subseteq active, ClientTyped
    PROVE  TypeOK' /\ StoreStep
<1>1. StoreTyped /\ Calm
  BY KeepTyped, KeepCalm DEF Quiet
<1>2. active' \subseteq Profiles /\ grants' \subseteq Answers
      /\ said' \in Answers \cup {NoAnswer} /\ ended' \subseteq Nat
  BY DEF TypeOK, Quiet, Unsaid
<1> QED BY <1>1, <1>2, Assemble DEF StoreStep

\* The scripts that issue nothing.
LEMMA ShrinkStep ==
    ASSUME TypeOK, Shrinks, UNCHANGED <<now, revoked, minted, active, grants>>,
           said' \in Answers \cup {NoAnswer}, ended' \subseteq Nat, ClientTyped
    PROVE  TypeOK' /\ StoreStep
<1>1. StoreTyped
  BY ShrinksTyped DEF TypeOK
<1>2. Calm
  BY ShrinksCalm
<1>3. active' \subseteq Profiles /\ grants' \subseteq Answers
  BY DEF TypeOK
<1> QED BY <1>1, <1>2, <1>3, Assemble DEF StoreStep

LEMMA EndedTyped ==
    ASSUME TypeOK, ended' = ended \cup Ending
    PROVE  ended' \subseteq Nat
BY EndingTyped DEF TypeOK

-----------------------------------------------------------------------------
(* The steps of the calls.                                                   *)

LEMMA DoneTyped ==
    ASSUME TypeOK, NEW c \in Callers, Done(c)
    PROVE  ClientTyped
BY IdleTyped, BecomeTyped DEF Done

LEMMA StartSteps ==
    ASSUME TypeOK, NEW c \in Callers, Start(c)
    PROVE  TypeOK' /\ StoreStep
<1>1. ASSUME NEW p \in Profiles, StartIssue(c, p)
      PROVE  TypeOK' /\ StoreStep
  <2> DEFINE r == [Idle EXCEPT !.pc = "generation", !.profile = p]
  <2>1. r \in Clients /\ Carries(r)
    BY DEF Idle, Clients, Labels, Carries
  <2>2. ClientTyped
    BY <1>1, <2>1, BecomeTyped DEF StartIssue
  <2> QED BY <1>1, <2>2, QuietStep DEF StartIssue
<1>2. ASSUME NEW r \in Requests, StartPairingIssue(c, r)
      PROVE  TypeOK' /\ StoreStep
  <2> DEFINE x == [Idle EXCEPT !.pc = "generation", !.request = r,
                     !.profile = ProfileOf[r.config]]
  <2>1. x \in Clients /\ Carries(x)
    BY RequestTyped DEF Idle, Clients, Labels, Carries
  <2>2. ClientTyped
    BY <1>2, <2>1, BecomeTyped DEF StartPairingIssue
  <2> QED BY <1>2, <2>2, QuietStep DEF StartPairingIssue
<1>3. ASSUME NEW r \in Requests, StartRecover(c, r)
      PROVE  TypeOK' /\ StoreStep
  <2> DEFINE x == [Idle EXCEPT !.pc = "recover", !.request = r,
                     !.profile = ProfileOf[r.config]]
  <2>1. x \in Clients /\ Carries(x)
    BY RequestTyped DEF Idle, Clients, Labels, Carries
  <2>2. ClientTyped
    BY <1>3, <2>1, BecomeTyped DEF StartRecover
  <2> QED BY <1>3, <2>2, QuietStep DEF StartRecover
<1>4. ASSUME NEW id \in 1 .. minted, StartAuthenticate(c, id)
      PROVE  TypeOK' /\ StoreStep
  <2> DEFINE x == [Idle EXCEPT !.pc = "authenticate", !.session = id,
                     !.barred = id \in Barred]
  <2>1. x \in Clients /\ Carries(x)
    <3>1. id \in Nat
      BY DEF TypeOK
    <3>2. (id \in Barred) \in BOOLEAN
      OBVIOUS
    <3> QED BY <3>1, <3>2 DEF Idle, Clients, Labels, Carries
  <2>2. ClientTyped
    BY <1>4, <2>1, BecomeTyped DEF StartAuthenticate
  <2> QED BY <1>4, <2>2, QuietStep DEF StartAuthenticate
<1> QED BY <1>1, <1>2, <1>3, <1>4 DEF Start

\* Looks at the generation and at the status, and the acceptance.
LEMMA LookSteps ==
    ASSUME TypeOK, NEW c \in Callers,
           ReadGeneration(c) \/ CheckStatus(c) \/ RecheckStatus(c) \/ Vouch(c) \/ Return(c)
    PROVE  TypeOK' /\ StoreStep
<1>1. Carries(client[c])
  BY DEF TypeOK
<1>2. CASE ReadGeneration(c)
  <2>1. ClientTyped
    BY <1>1, <1>2, DoneTyped, GotoTyped DEF ReadGeneration, At, Carries, Labels
  <2> QED BY <1>2, <2>1, QuietStep DEF ReadGeneration
<1>3. CASE CheckStatus(c)
  <2>1. ClientTyped
    BY <1>1, <1>3, DoneTyped, GotoTyped DEF CheckStatus, At, Carries, Labels
  <2> QED BY <1>3, <2>1, QuietStep DEF CheckStatus
<1>4. CASE RecheckStatus(c)
  <2>1. ClientTyped
    BY <1>1, <1>4, GotoTyped DEF RecheckStatus, At, Carries, Labels
  <2> QED BY <1>4, <2>1, QuietStep DEF RecheckStatus
<1>5. CASE Vouch(c)
  <2>1. ClientTyped
    BY <1>5, GotoTyped DEF Vouch, Carries, Labels
  <2> QED BY <1>5, <2>1, QuietStep DEF Vouch
<1>6. CASE Return(c)
  BY <1>6, DoneTyped, QuietStep DEF Return
<1> QED BY <1>2, <1>3, <1>4, <1>5, <1>6

LEMMA IssueStep ==
    ASSUME TypeOK, NEW c \in Callers, Issue(c)
    PROVE  TypeOK' /\ StoreStep
<1> DEFINE p == client[c].profile
<1>1. p \in Profiles
  BY DEF TypeOK, Issue, At, Carries
<1>2. ClientTyped
  BY DoneTyped DEF Issue
<1>3. ended' = ended /\ grants' = grants /\ said' = NoAnswer /\ UNCHANGED <<now, active>>
      /\ UNCHANGED <<replays, revoked>>
  BY DEF Issue, Quiet, Unsaid, PlainEffect
<1>4. active' \subseteq Profiles /\ grants' \subseteq Answers
      /\ said' \in Answers \cup {NoAnswer} /\ ended' \subseteq Nat
  BY <1>3 DEF TypeOK
<1>5. CASE PlainVerdict(p) = "issued"
  <2>1. sessions' = sessions \cup {NewSession(p, None, 0)} /\ minted' = minted + 1
        /\ p \notin revoked /\ ~Full(p)
    BY <1>5 DEF Issue, PlainEffect, PlainVerdict
  <2>2. StoreTyped
    BY <1>1, <1>3, <2>1, NewSessionTyped DEF TypeOK, StoreTyped
  <2>3. PlainIssue
    BY <1>1, <1>3, <2>1 DEF PlainIssue
  <2> QED BY <1>2, <1>4, <2>2, <2>3, Assemble DEF StoreStep
<1>6. CASE PlainVerdict(p) # "issued"
  <2>1. UNCHANGED <<sessions, minted>>
    BY <1>6 DEF Issue, PlainEffect
  <2> QED BY <1>2, <1>3, <1>4, <2>1, KeepShrinks, ShrinkStep
<1> QED BY <1>5, <1>6

LEMMA IssueForPairingStep ==
    ASSUME TypeOK, NEW c \in Callers, IssueForPairing(c)
    PROVE  TypeOK' /\ StoreStep
<1> DEFINE r == client[c].request
           p == client[c].profile
           verdict == IssueVerdict(p, r.token, r.pairing, r.config, RetryUntil[r.token])
<1>1. p \in Profiles /\ r \in Requests
  BY DEF TypeOK, IssueForPairing, At, Carries, Clients
<1>2. ClientTyped /\ ended' \subseteq Nat /\ UNCHANGED <<now, active>>
  BY DoneTyped, EndedTyped DEF IssueForPairing
<1>3. /\ revoked' = revoked
      /\ verdict = "issued" => Granted(r, p)
      /\ verdict # "issued" => Shrinks /\ minted' = minted
  <2>1. IssueEffect(p, r.token, r.pairing, r.config, RetryUntil[r.token], verdict)
    BY DEF IssueForPairing
  <2> HIDE DEF r, p
  <2> QED BY <1>1, <1>2, <2>1, IssueCases
<1>4. active' \subseteq Profiles
  BY <1>2 DEF TypeOK
<1>5. CASE verdict = "issued"
  <2>1. /\ grants' = grants \cup {Answer(r, minted')}
        /\ said' = Answer(r, replays'[r.token].session)
    BY <1>5 DEF IssueForPairing
  <2>2. Granted(r, p)
    BY <1>3, <1>5
  <2>3. r.token \in Tokens /\ minted' \in Nat \ {0} /\ replays'[r.token].session = minted'
        /\ NewSession(p, r.token, RetryUntil[r.token]) \in Sessions
    BY <1>1, <2>2, RequestTyped, NewSessionTyped DEF Granted, TypeOK
  <2>4. grants' \subseteq Answers /\ said' \in Answers
    BY <1>1, <2>1, <2>3, AnswerTyped DEF TypeOK
  <2>5. StoreTyped
    BY <1>2, <1>3, <2>2, <2>3 DEF Granted, StoreTyped, TypeOK
  <2>6. PairingIssue
    BY <1>1, <1>2, <1>3, <2>1, <2>2 DEF PairingIssue
  <2> QED BY <1>2, <1>4, <2>4, <2>5, <2>6, Assemble DEF StoreStep
<1>6. CASE verdict # "issued"
  <2>1. grants' = grants
    BY <1>6 DEF IssueForPairing
  <2>2. said' \in Answers \cup {NoAnswer}
    <3>1. CASE verdict = "replayed"
      <4>1. said' = Answer(r, replays'[r.token].session)
        BY <3>1 DEF IssueForPairing
      <4>2. replays' = replays
        BY <1>6, <3>1 DEF IssueForPairing, IssueEffect, ReplayEffect, TypeOK
      <4>3. replays[r.token].session \in Nat \ {0}
        <5>1. ReplayVerdict(r.token, r.pairing, r.config, {p}) = "replayed"
          BY <3>1 DEF IssueVerdict
        <5> QED BY <1>1, <5>1, RequestTyped, ReplayedSession
      <4> QED BY <1>1, <4>1, <4>2, <4>3, AnswerTyped
    <3>2. CASE verdict # "replayed"
      BY <1>6, <3>2 DEF IssueForPairing
    <3> QED BY <3>1, <3>2
  <2> QED BY <1>2, <1>3, <1>6, <2>1, <2>2, ShrinkStep
<1> QED BY <1>5, <1>6

LEMMA RecoverySteps ==
    ASSUME TypeOK, NEW c \in Callers,
           RecoverPairing(c) \/ ConfirmRecovery(c) \/ RevokePairing(c)
    PROVE  TypeOK' /\ StoreStep
<1> DEFINE r == client[c].request
           verdict == RecoverVerdict(r.token, r.pairing, r.config)
<1>1. r \in Requests /\ client[c] \in Clients
  BY DEF TypeOK, RecoverPairing, ConfirmRecovery, RevokePairing, At, Carries
<1>2. r.token \in Tokens
  BY <1>1, RequestTyped
<1>3. ended' \subseteq Nat /\ UNCHANGED <<now, active, grants>>
  BY EndedTyped DEF RecoverPairing, ConfirmRecovery, RevokePairing
<1>4. ASSUME RecoverEffect(r.token, verdict)
      PROVE  Shrinks /\ UNCHANGED <<revoked, minted>>
  <2>1. verdict = "over" => Over(replays[r.token].denialUntil)
    BY VerdictOver DEF RecoverVerdict
  <2> HIDE DEF verdict
  <2> QED BY <1>2, <1>3, <1>4, <2>1, ReplayEffectShrinks DEF RecoverEffect
<1>5. CASE RecoverPairing(c)
  <2>1. ClientTyped
    BY <1>1, <1>5, DoneTyped, GotoTyped DEF RecoverPairing, Carries, Labels
  <2>2. said' = NoAnswer /\ RecoverEffect(r.token, verdict)
    BY <1>5 DEF RecoverPairing, Unsaid
  <2> QED BY <1>3, <1>4, <2>1, <2>2, ShrinkStep
<1>6. CASE ConfirmRecovery(c)
  <2>1. ClientTyped /\ RecoverEffect(r.token, verdict)
    BY <1>6, DoneTyped DEF ConfirmRecovery
  <2>2. said' \in Answers \cup {NoAnswer}
    <3>1. CASE verdict = "replayed"
      <4>1. replays[r.token].session \in Nat \ {0}
        BY <1>2, <3>1, ReplayedSession DEF RecoverVerdict
      <4>2. said' = Answer(r, replays[r.token].session)
        BY <1>6, <3>1 DEF ConfirmRecovery
      <4> QED BY <1>1, <4>1, <4>2, AnswerTyped
    <3>2. CASE verdict # "replayed"
      BY <1>6, <3>2 DEF ConfirmRecovery
    <3> QED BY <3>1, <3>2
  <2> QED BY <1>3, <1>4, <2>1, <2>2, ShrinkStep
<1>7. CASE RevokePairing(c)
  <2>1. ClientTyped /\ said' = NoAnswer
    BY <1>7, DoneTyped DEF RevokePairing, Unsaid
  <2>2. RevokeReplay(r.token, r.pairing, r.config) /\ UNCHANGED <<revoked, minted>>
    BY <1>7 DEF RevokePairing, RevokeReplay
  <2>3. Shrinks
    BY <1>2, <2>2, RevokeReplayShrinks
  <2> QED BY <1>3, <2>1, <2>2, <2>3, ShrinkStep
<1> QED BY <1>5, <1>6, <1>7

LEMMA AuthenticationSteps ==
    ASSUME TypeOK, NEW c \in Callers, Authenticate(c) \/ RevokeUnvouched(c)
    PROVE  TypeOK' /\ StoreStep
<1> DEFINE id == client[c].session
<1>1. ended' \subseteq Nat /\ said' = NoAnswer /\ UNCHANGED <<now, active, grants>>
  BY EndedTyped DEF Authenticate, RevokeUnvouched, Unsaid
<1>2. Shrinks /\ UNCHANGED <<revoked, minted>>
  BY WithdrawShrinks DEF Authenticate, AuthenticateEffect, RevokeUnvouched, RevokeSession
<1>3. CASE Authenticate(c)
  <2>1. CASE Authentic(id) = {}
    BY <1>1, <1>2, <1>3, <2>1, DoneTyped, ShrinkStep DEF Authenticate
  <2>2. CASE Authentic(id) # {}
    <3> DEFINE p == (CHOOSE s \in Authentic(id) : TRUE).profile
               r == [client[c] EXCEPT !.pc = "vouch", !.profile = p]
    <3>1. p \in Profiles
      BY <2>2 DEF Authentic, TypeOK, Sessions
    <3>2. Become(c, r)
      BY <1>3, <2>2 DEF Authenticate
    <3> HIDE DEF p
    <3>3. client[c] \in Clients
      BY DEF TypeOK
    <3>4. r \in Clients /\ Carries(r)
      BY <3>1, <3>3 DEF Clients, Carries, Labels
    <3>5. ClientTyped
      BY <3>2, <3>4, BecomeTyped
    <3> QED BY <1>1, <1>2, <3>5, ShrinkStep
  <2> QED BY <2>1, <2>2
<1>4. CASE RevokeUnvouched(c)
  BY <1>1, <1>2, <1>4, DoneTyped, ShrinkStep DEF RevokeUnvouched
<1> QED BY <1>3, <1>4

LEMMA CallSteps ==
    ASSUME TypeOK, NEW c \in Callers, Step(c)
    PROVE  TypeOK' /\ StoreStep
BY LookSteps, IssueStep, IssueForPairingStep, RecoverySteps, AuthenticationSteps DEF Step

-----------------------------------------------------------------------------
(* The environment.                                                          *)

LEMMA ClientKept ==
    ASSUME TypeOK, UNCHANGED client
    PROVE  ClientTyped
BY DEF TypeOK, ClientTyped

LEMMA LogoutStep ==
    ASSUME TypeOK, NEW id \in 1 .. minted, Logout(id)
    PROVE  TypeOK' /\ StoreStep
<1>1. ended' \subseteq Nat /\ said' = NoAnswer
  BY DEF TypeOK, Logout, Unsaid
<1> QED BY <1>1, WithdrawShrinks, ClientKept, ShrinkStep DEF Logout, RevokeSession

LEMMA RequestErasureStep ==
    ASSUME TypeOK, NEW p \in Profiles, RequestErasure(p)
    PROVE  TypeOK' /\ StoreStep
BY ClientKept, QuietStep DEF RequestErasure

LEMMA EraseSessionsStep ==
    ASSUME TypeOK, NEW p \in Profiles, EraseSessions(p)
    PROVE  TypeOK' /\ StoreStep
<1>1. /\ Withdraw({s \in sessions : s.profile = p}) /\ revoked' = revoked \cup {p}
      /\ UNCHANGED <<now, minted, active, client, grants>> /\ said' = NoAnswer
      /\ ended' \subseteq Nat
  BY EndedTyped DEF EraseSessions, RevokeProfile, Unsaid
<1>2. Shrinks
  BY <1>1, WithdrawShrinks
<1>3. StoreTyped
  BY <1>1, <1>2, ShrinksTyped DEF TypeOK
<1>4. \A s \in sessions' : s.profile # p
  BY <1>1 DEF Withdraw
<1>5. Calm
  BY <1>1, <1>2, <1>4 DEF Calm, TypeOK
<1>6. active' \subseteq Profiles /\ grants' \subseteq Answers
  BY <1>1 DEF TypeOK
<1> QED BY <1>1, <1>3, <1>5, <1>6, ClientKept, Assemble DEF StoreStep

LEMMA TickStep ==
    ASSUME TypeOK, Tick
    PROVE  TypeOK' /\ StoreStep
<1>1. now' \in Nat /\ now' >= now
  BY DEF Tick, TypeOK
<1>2. Shrinks /\ UNCHANGED <<revoked, minted, active, client, grants, ended>> /\ said' = NoAnswer
  BY <1>1, DropShrinks DEF Tick, DropManagement, Quiet, Unsaid
<1>3. StoreTyped
  BY <1>1, <1>2 DEF TypeOK, Shrinks, StoreTyped
<1>4. Calm
  BY <1>1, <1>2 DEF Calm
<1>5. active' \subseteq Profiles /\ grants' \subseteq Answers /\ ended' \subseteq Nat
  BY <1>2 DEF TypeOK
<1> QED BY <1>2, <1>3, <1>4, <1>5, ClientKept, Assemble DEF StoreStep

LEMMA NextStep == TypeOK /\ [Next]_vars => TypeOK' /\ StoreStep
<1> SUFFICES ASSUME TypeOK, [Next]_vars
             PROVE  TypeOK' /\ StoreStep
  OBVIOUS
<1>1. CASE UNCHANGED vars
  <2>1. TypeOK'
    BY <1>1 DEF vars, managementVars, historyVars, TypeOK
  <2> QED BY <1>1, <2>1, KeepCalm DEF vars, historyVars, StoreStep
<1>2. CASE Next
  BY <1>2, StartSteps, CallSteps, LogoutStep, RequestErasureStep, EraseSessionsStep, TickStep
     DEF Next
<1> QED BY <1>1, <1>2

LEMMA InitTyped == Init => TypeOK
BY NoReplayTyped, IdleTyped DEF Init, ManagementInit, TypeOK

\* Every variable keeps its type, and a call has what its next step needs.
THEOREM TypeCorrect == Spec => []TypeOK
<1>1. TypeOK /\ [Next]_vars => TypeOK'
  BY NextStep
<1> QED BY <1>1, InitTyped, PTL DEF Spec

-----------------------------------------------------------------------------
(* No session of a revoked profile.                                          *)

LEMMA NextUnrevoked == TypeOK /\ NoSessionOfRevoked /\ [Next]_vars => NoSessionOfRevoked'
<1> SUFFICES ASSUME TypeOK, NoSessionOfRevoked, StoreStep, NEW s \in sessions'
             PROVE  s.profile \notin revoked'
  BY NextStep DEF NoSessionOfRevoked
<1>1. CASE Calm
  BY <1>1 DEF Calm, Shrinks, NoSessionOfRevoked
<1>2. CASE PlainIssue
  BY <1>2 DEF PlainIssue, NewSession, NoSessionOfRevoked
<1>3. CASE PairingIssue
  BY <1>3 DEF PairingIssue, Granted, NewSession, NoSessionOfRevoked
<1> QED BY <1>1, <1>2, <1>3 DEF StoreStep

\* No session outlives the revocation of its profile or is issued after it,
\* although every issue reads the generation in an earlier call.
THEOREM RevokedCorrect == Spec => []NoSessionOfRevoked
<1>1. Init => NoSessionOfRevoked
  BY DEF Init, ManagementInit, NoSessionOfRevoked
<1> QED BY <1>1, NextUnrevoked, TypeCorrect, PTL DEF Spec

-----------------------------------------------------------------------------
(* A token is worth one session.                                             *)

\* A granted token has its replay record, issued or denied, until no issue with
\* that token can succeed any more.
GrantsCovered ==
    \A g \in grants :
        \/ /\ replays[g.token].status # "none"
           /\ replays[g.token].denialUntil = RetryUntil[g.token]
        \/ Over(RetryUntil[g.token])

OncePerToken == GrantsCovered /\ RetryMintsOnce

LEMMA CalmCovered ==
    ASSUME TypeOK, GrantsCovered, Calm
    PROVE  GrantsCovered'
<1> SUFFICES ASSUME NEW g \in grants
             PROVE  \/ /\ replays'[g.token].status # "none"
                       /\ replays'[g.token].denialUntil = RetryUntil[g.token]
                    \/ RetryUntil[g.token] <= now'
  BY DEF GrantsCovered, Calm, Over
<1> DEFINE t == g.token
<1>1. t \in Tokens /\ RetryUntil[t] \in Nat /\ now \in Nat /\ now' \in Nat /\ now' >= now
  BY ReplayWindowAssumption DEF TypeOK, Answers, Calm
<1>2. CASE Over(RetryUntil[t])
  BY <1>1, <1>2 DEF Over
<1>3. CASE replays[t].status # "none" /\ replays[t].denialUntil = RetryUntil[t]
  <2>1. CASE replays'[t] = replays[t]
    BY <1>3, <2>1
  <2>2. CASE replays'[t] = Denied(replays[t])
    BY <1>1, <1>3, <2>2 DEF Denied, NoReplay, Over
  <2>3. CASE replays'[t] = NoReplay /\ replays[t].denialUntil <= now'
    BY <1>3, <2>3
  <2> QED BY <1>1, <2>1, <2>2, <2>3 DEF Calm, Shrinks
<1> QED BY <1>2, <1>3 DEF GrantsCovered

LEMMA NextOnce == TypeOK /\ OncePerToken /\ [Next]_vars => OncePerToken'
<1> SUFFICES ASSUME TypeOK, OncePerToken, StoreStep
             PROVE  OncePerToken'
  BY NextStep
<1>1. CASE Calm
  BY <1>1, CalmCovered DEF Calm, OncePerToken, RetryMintsOnce
<1>2. CASE PlainIssue
  BY <1>2 DEF PlainIssue, OncePerToken, GrantsCovered, RetryMintsOnce, Over
<1>3. CASE PairingIssue
  <2>1. PICK r \in Requests, p \in Profiles :
            /\ Granted(r, p)
            /\ UNCHANGED <<now, revoked>>
            /\ grants' = grants \cup {Answer(r, minted')}
    BY <1>3 DEF PairingIssue
  <2>2. \A g \in grants : g.token # r.token
    BY <2>1 DEF OncePerToken, GrantsCovered, Granted
  <2>3. Answer(r, minted').token = r.token
    BY DEF Answer
  <2>4. RetryMintsOnce'
    BY <2>1, <2>2, <2>3 DEF OncePerToken, RetryMintsOnce
  <2>5. GrantsCovered'
    <3> SUFFICES ASSUME NEW g \in grants'
                 PROVE  \/ /\ replays'[g.token].status # "none"
                           /\ replays'[g.token].denialUntil = RetryUntil[g.token]
                        \/ Over(RetryUntil[g.token])
      BY <2>1 DEF GrantsCovered, Over
    <3>1. CASE g \in grants
      <4>1. g.token \in Tokens \ {r.token}
        BY <2>2, <3>1 DEF TypeOK, Answers
      <4>2. replays'[g.token] = replays[g.token]
        BY <2>1, <4>1 DEF Granted
      <4> QED BY <3>1, <4>2 DEF OncePerToken, GrantsCovered
    <3>2. CASE g = Answer(r, minted')
      BY <2>1, <2>3, <3>2 DEF Granted
    <3> QED BY <2>1, <3>1, <3>2
  <2> QED BY <2>4, <2>5 DEF OncePerToken
<1> QED BY <1>1, <1>2, <1>3 DEF StoreStep

\* However often a browser retries with its token, after lost answers, expired
\* replays and revocations alike, at most one session is minted for it.
THEOREM MintsOnceCorrect == Spec => []RetryMintsOnce
<1>1. Init => OncePerToken
  BY DEF Init, OncePerToken, GrantsCovered, RetryMintsOnce
<1>2. OncePerToken => RetryMintsOnce
  BY DEF OncePerToken
<1> QED BY <1>1, <1>2, NextOnce, TypeCorrect, PTL DEF Spec

-----------------------------------------------------------------------------
(* Sessions and replays go together.                                         *)

\* A session has a number that no other has, had or was barred under.
Numbered ==
    /\ \A s \in sessions : s.id \in 1 .. minted /\ s.id \notin ended
    /\ \A x, y \in sessions : x.id = y.id => x = y
    /\ ended \subseteq 1 .. minted
    /\ \A t \in Tokens : replays[t].status = "issued" => replays[t].session <= minted

\* The times of a session and of its replay, which three keys keep.
Linked(t, s) ==
    /\ s.token = t /\ s.denialUntil = replays[t].denialUntil
    /\ replays[t].until = Earlier(s.denialUntil, s.until)

Matched ==
    /\ \A t \in Tokens :
           replays[t].status = "issued" =>
               /\ \A s \in sessions : s.id = replays[t].session => Linked(t, s)
               /\ ~Over(replays[t].until) => \E s \in sessions : s.id = replays[t].session
    /\ \A s \in sessions :
           s.token # None /\ ~Over(s.until) /\ ~Over(s.denialUntil) =>
               replays[s.token].status = "issued" /\ replays[s.token].session = s.id

\* A replay is of a grant.
Given ==
    \A t \in Tokens :
        replays[t].status = "issued" =>
            [token |-> t, pairing |-> replays[t].pairing, config |-> replays[t].config,
             session |-> replays[t].session] \in grants

Together == TypeOK /\ NoSessionOfRevoked /\ Numbered /\ Matched /\ Given

\* What a script that issues nothing does: it takes a session and its replay away
\* together, or one whose time is over.
Tidy ==
    /\ sessions' \subseteq sessions
    /\ \A t \in Tokens : replays'[t] = replays[t] \/ replays'[t].status # "issued"
    /\ \A t \in Tokens, s \in sessions :
           /\ replays[t].status = "issued" /\ replays'[t] = replays[t]
           /\ ~(replays[t].until <= now') /\ s.id = replays[t].session
           => s \in sessions'
    /\ \A t \in Tokens, s \in sessions' :
           /\ replays[t].status = "issued" /\ s.token = t /\ s.id = replays[t].session
           /\ ~(s.until <= now') /\ ~(s.denialUntil <= now')
           => replays'[t] = replays[t]

LEMMA DeniedIsNotIssued == \A r : Denied(r).status # "issued"
BY DEF Denied, NoReplay

LEMMA WithdrawTidy ==
    ASSUME Together, NEW gone, gone \subseteq sessions, Withdraw(gone)
    PROVE  Tidy
<1>1. sessions' = sessions \ gone
  BY DEF Withdraw
<1>2. ASSUME NEW t \in Tokens
      PROVE  \/ replays'[t] = replays[t] /\ ~\E s \in gone : s.token = t /\ s.id = replays[t].session
             \/ /\ replays'[t].status # "issued"
                /\ \E s \in gone : s.token = t /\ s.id = replays[t].session
  BY DeniedIsNotIssued DEF Withdraw
<1>3. ASSUME NEW t \in Tokens, NEW s \in sessions, replays[t].status = "issued",
             replays'[t] = replays[t], s.id = replays[t].session
      PROVE  s \in sessions'
  <2>1. s.token = t
    BY <1>3 DEF Together, Matched, Linked
  <2>2. s \notin gone
    BY <1>2, <1>3, <2>1
  <2> QED BY <1>1, <2>2
<1>4. ASSUME NEW t \in Tokens, NEW s \in sessions', s.token = t, s.id = replays[t].session
      PROVE  replays'[t] = replays[t]
  <2>1. s \in sessions /\ s \notin gone
    BY <1>1
  <2>2. \A x \in gone : x.id = s.id => x = s
    BY <2>1 DEF Together, Numbered
  <2> QED BY <1>2, <1>4, <2>1, <2>2
<1> QED BY <1>1, <1>2, <1>3, <1>4 DEF Tidy

LEMMA ReplayTidy ==
    ASSUME Together, now' = now, NEW t \in Tokens, NEW k, NEW f, NEW profiles, NEW v,
           ReplayEffect(t, v),
           \/ v = ReplayVerdict(t, k, f, profiles)
           \/ v \notin {"over", "closed", "stale"}
    PROVE  Tidy
<1>1. /\ now \in Nat /\ replays \in [Tokens -> Replays] /\ replays[t] \in Replays
      /\ sessions \subseteq Sessions
  BY DEF Together, TypeOK
<1>2. \A x \in Tokens : x # t => replays'[x] = replays[x]
  BY <1>1 DEF ReplayEffect
<1>3. CASE v = "over"
  <2>1. sessions' = sessions /\ replays'[t] = NoReplay /\ Over(replays[t].denialUntil)
    BY <1>1, <1>3, VerdictOver DEF ReplayEffect
  <2>2. NoReplay.status # "issued"
    BY DEF NoReplay
  <2>3. ASSUME NEW s \in sessions, replays[t].status = "issued", s.id = replays[t].session
        PROVE  s.denialUntil <= now'
    BY <2>1, <2>3 DEF Together, Matched, Linked, Over
  <2> QED BY <1>2, <2>1, <2>2, <2>3 DEF Tidy
<1>4. CASE v = "closed"
  <2>1. sessions' = sessions /\ replays'[t] = Denied(replays[t])
    BY <1>1, <1>4 DEF ReplayEffect
  <2>2. Over(replays[t].until)
    BY <1>4 DEF ReplayVerdict
  <2>3. ASSUME NEW s \in sessions, replays[t].status = "issued", s.id = replays[t].session
        PROVE  s.denialUntil <= now' \/ s.until <= now'
    BY <2>2, <2>3 DEF Together, Matched, Linked, Over, Earlier
  <2> QED BY <1>2, <2>1, <2>3, DeniedIsNotIssued DEF Tidy
<1>5. CASE v = "stale"
  <2>1. sessions' = {s \in sessions : s.id # replays[t].session} /\ replays'[t] = Denied(replays[t])
    BY <1>1, <1>5 DEF ReplayEffect
  <2>2. replays[t].status = "issued"
    BY <1>1, <1>5 DEF ReplayVerdict, Replays
  <2>3. ASSUME NEW x \in Tokens, x # t, NEW s \in sessions, replays[x].status = "issued",
               s.id = replays[x].session
        PROVE  s.id # replays[t].session
    BY <2>2, <2>3 DEF Together, Matched, Linked
  <2> QED BY <1>2, <2>1, <2>3, DeniedIsNotIssued DEF Tidy
<1>6. CASE v \notin {"over", "closed", "stale"}
  <2>1. sessions' = sessions /\ replays'[t] = replays[t]
    BY <1>1, <1>6 DEF ReplayEffect
  <2> QED BY <1>2, <2>1 DEF Tidy
<1> QED BY <1>3, <1>4, <1>5, <1>6

LEMMA RevokeReplayTidy ==
    ASSUME Together, NEW t \in Tokens, NEW k, NEW f, RevokeReplay(t, k, f)
    PROVE  Tidy
<1>1. replays \in [Tokens -> Replays]
  BY DEF Together, TypeOK
<1>2. CASE replays[t].status = "issued" /\ replays' = [replays EXCEPT ![t] = Denied(replays[t])]
           /\ sessions' = {s \in sessions : s.id # replays[t].session}
  <2>1. replays'[t] = Denied(replays[t]) /\ \A x \in Tokens : x # t => replays'[x] = replays[x]
    BY <1>1, <1>2
  <2>2. ASSUME NEW x \in Tokens, x # t, NEW s \in sessions, replays[x].status = "issued",
               s.id = replays[x].session
        PROVE  s.id # replays[t].session
    BY <1>2, <2>2 DEF Together, Matched, Linked
  <2> QED BY <1>2, <2>1, <2>2, DeniedIsNotIssued DEF Tidy
<1>3. CASE UNCHANGED <<replays, sessions>>
  BY <1>3 DEF Tidy
<1> QED BY <1>2, <1>3 DEF RevokeReplay

LEMMA DropTidy ==
    ASSUME Together, now' \in Nat, DropManagement(now')
    PROVE  Tidy
<1>1. /\ sessions' = {s \in sessions : ~(s.until < now')}
      /\ \A t \in Tokens : replays'[t] = IF replays[t].denialUntil < now' THEN NoReplay ELSE replays[t]
  BY DEF DropManagement, DroppedAt
<1>2. NoReplay.status # "issued"
  BY DEF NoReplay
<1>3. ASSUME NEW t \in Tokens, NEW s \in sessions, replays[t].status = "issued",
             ~(replays[t].until <= now'), s.id = replays[t].session
      PROVE  s \in sessions'
  <2>1. s.until \in Nat /\ s.denialUntil \in Nat /\ replays[t].until = Earlier(s.denialUntil, s.until)
    BY <1>3 DEF Together, TypeOK, Sessions, Matched, Linked
  <2>2. ~(s.until < now')
    BY <1>3, <2>1 DEF Earlier
  <2> QED BY <1>1, <2>2
<1>4. ASSUME NEW t \in Tokens, NEW s \in sessions', replays[t].status = "issued",
             s.id = replays[t].session, ~(s.denialUntil <= now')
      PROVE  replays'[t] = replays[t]
  <2>1. s \in sessions
    BY <1>1
  <2>2. s.denialUntil \in Nat /\ s.denialUntil = replays[t].denialUntil
    BY <1>4, <2>1 DEF Together, TypeOK, Sessions, Matched, Linked
  <2>3. ~(replays[t].denialUntil < now')
    BY <1>4, <2>2
  <2> QED BY <1>1, <2>3
<1> QED BY <1>1, <1>2, <1>3, <1>4 DEF Tidy

LEMMA KeepTidy ==
    ASSUME UNCHANGED <<sessions, replays>>
    PROVE  Tidy
BY DEF Tidy

\* The sessions that end are gone, and are barred for good.
Ends ==
    \A id \in ended' : id \in ended \/ (id \in 1 .. minted /\ \A s \in sessions' : s.id # id)

LEMMA EndingEnds ==
    ASSUME Together, sessions' \subseteq sessions, ended' = ended \cup Ending
    PROVE  Ends
<1>1. ASSUME NEW x \in sessions, x \notin sessions'
      PROVE  x.id \in 1 .. minted /\ \A s \in sessions' : s.id # x.id
  BY <1>1 DEF Together, Numbered
<1> QED BY <1>1 DEF Ends, Ending

Tidies == Tidy /\ Ends /\ now' \in Nat /\ now' >= now /\ minted' = minted /\ grants' = grants

\* Every step tidies, or issues one session.
LEMMA QuietTidies ==
    ASSUME Together, Quiet, UNCHANGED <<now, managementVars>>
    PROVE  Tidies
<1>1. UNCHANGED <<sessions, replays, minted, ended, grants, now>> /\ now \in Nat
  BY DEF Quiet, managementVars, Together, TypeOK
<1> QED BY <1>1, KeepTidy DEF Tidies, Ends

LEMMA IssueTidies ==
    ASSUME Together, NEW c \in Callers, IssueForPairing(c)
    PROVE  Tidies \/ (PairingIssue /\ ended' = ended)
<1> DEFINE r == client[c].request
           p == client[c].profile
           v == IssueVerdict(p, r.token, r.pairing, r.config, RetryUntil[r.token])
<1>1. p \in Profiles /\ r \in Requests /\ r.token \in Tokens /\ TypeOK
  BY RequestTyped DEF Together, TypeOK, IssueForPairing, At, Carries, Clients
<1>2. /\ IssueEffect(p, r.token, r.pairing, r.config, RetryUntil[r.token], v)
      /\ UNCHANGED now /\ ended' = ended \cup Ending
  BY DEF IssueForPairing
<1>3. CASE v = "issued"
  <2>1. Granted(r, p) /\ revoked' = revoked
    <3> HIDE DEF r, p
    <3> QED BY <1>1, <1>2, <1>3, IssueCases
  <2>2. Ending = {}
    BY <2>1 DEF Granted, Ending
  <2>3. grants' = grants \cup {Answer(r, minted')}
    BY <1>3 DEF IssueForPairing
  <2> QED BY <1>1, <1>2, <2>1, <2>2, <2>3 DEF PairingIssue
<1>4. CASE v # "issued"
  <2>1. ReplayEffect(r.token, v) /\ minted' = minted /\ grants' = grants
    BY <1>2, <1>4 DEF IssueEffect, IssueForPairing
  <2>2. v = ReplayVerdict(r.token, r.pairing, r.config, {p}) \/ v \notin {"over", "closed", "stale"}
    BY DEF IssueVerdict
  <2> HIDE DEF v, r, p
  <2>3. Tidy
    BY <1>1, <1>2, <2>1, <2>2, ReplayTidy
  <2> QED BY <1>1, <1>2, <2>1, <2>3, EndingEnds DEF Tidies, Tidy, TypeOK
<1> QED BY <1>3, <1>4

LEMMA RecoveryTidies ==
    ASSUME Together, NEW c \in Callers,
           RecoverPairing(c) \/ ConfirmRecovery(c) \/ RevokePairing(c)
    PROVE  Tidies
<1> DEFINE r == client[c].request
           v == RecoverVerdict(r.token, r.pairing, r.config)
<1>1. r \in Requests /\ r.token \in Tokens /\ now \in Nat
  BY RequestTyped DEF Together, TypeOK, RecoverPairing, ConfirmRecovery, RevokePairing, At, Carries
<1>2. UNCHANGED <<now, grants>> /\ ended' = ended \cup Ending
  BY DEF RecoverPairing, ConfirmRecovery, RevokePairing
<1>3. ASSUME RecoverEffect(r.token, v) PROVE Tidy /\ minted' = minted
  <2>1. v = ReplayVerdict(r.token, r.pairing, r.config, Profiles)
    BY DEF RecoverVerdict
  <2> HIDE DEF v
  <2> QED BY <1>1, <1>2, <1>3, <2>1, ReplayTidy DEF RecoverEffect
<1>4. ASSUME RevokeReplay(r.token, r.pairing, r.config) PROVE Tidy /\ minted' = minted
  <2>1. minted' = minted
    BY <1>4 DEF RevokeReplay
  <2> HIDE DEF r
  <2> QED BY <1>1, <1>4, <2>1, RevokeReplayTidy
<1>5. Tidy /\ minted' = minted
  BY <1>3, <1>4 DEF RecoverPairing, ConfirmRecovery, RevokePairing
<1> QED BY <1>1, <1>2, <1>5, EndingEnds DEF Tidies, Tidy

LEMMA WithdrawTidies ==
    ASSUME Together, NEW gone, gone \subseteq sessions, Withdraw(gone),
           UNCHANGED <<now, minted, grants>>, ended' = ended \cup Ending
    PROVE  Tidies
<1>1. now \in Nat
  BY DEF Together, TypeOK
<1> QED BY <1>1, WithdrawTidy, EndingEnds DEF Tidies, Tidy

LEMMA NextTidies ==
    ASSUME Together, [Next]_vars
    PROVE  \/ Tidies
           \/ PairingIssue /\ ended' = ended
           \/ PlainIssue /\ ended' = ended
<1> DEFINE Goal == Tidies \/ (PairingIssue /\ ended' = ended) \/ (PlainIssue /\ ended' = ended)
<1>1. CASE UNCHANGED vars
  <2>1. UNCHANGED <<sessions, replays, minted, ended, grants, now>> /\ now \in Nat
    BY <1>1 DEF vars, managementVars, historyVars, Together, TypeOK
  <2> QED BY <2>1, KeepTidy DEF Tidies, Ends
<1>2. ASSUME NEW c \in Callers, Start(c) PROVE Tidies
  BY <1>2, QuietTidies DEF Start, StartIssue, StartPairingIssue, StartRecover, StartAuthenticate
<1>3. ASSUME NEW c \in Callers,
             ReadGeneration(c) \/ CheckStatus(c) \/ RecheckStatus(c) \/ Vouch(c) \/ Return(c)
      PROVE  Tidies
  BY <1>3, QuietTidies DEF ReadGeneration, CheckStatus, RecheckStatus, Vouch, Return
<1>4. ASSUME NEW c \in Callers, Issue(c) PROVE Goal
  <2>1. client[c].profile \in Profiles /\ now \in Nat
    BY <1>4 DEF Together, TypeOK, Issue, At, Carries
  <2>2. PlainEffect(client[c].profile, PlainVerdict(client[c].profile)) /\ UNCHANGED now
        /\ UNCHANGED <<grants, ended>>
    BY <1>4 DEF Issue, Quiet
  <2>3. CASE PlainVerdict(client[c].profile) = "issued"
    <3>1. client[c].profile \notin revoked /\ ~Full(client[c].profile)
      BY <2>3 DEF PlainVerdict
    <3>2. PlainIssue
      BY <2>1, <2>2, <2>3, <3>1 DEF PlainEffect, PlainIssue
    <3> QED BY <2>2, <3>2
  <2>4. CASE PlainVerdict(client[c].profile) # "issued"
    <3>1. UNCHANGED <<sessions, replays, minted>>
      BY <2>2, <2>4 DEF PlainEffect
    <3> QED BY <2>1, <2>2, <3>1, KeepTidy DEF Tidies, Ends
  <2> QED BY <2>3, <2>4
<1>5. ASSUME NEW c \in Callers, Authenticate(c) \/ RevokeUnvouched(c) PROVE Tidies
  <2>1. UNCHANGED <<now, minted, grants>> /\ ended' = ended \cup Ending
    BY <1>5 DEF Authenticate, AuthenticateEffect, RevokeUnvouched, RevokeSession
  <2>2. \E gone : gone \subseteq sessions /\ Withdraw(gone)
    <3> DEFINE same == {s \in sessions : s.id = client[c].session}
    <3>1. same \subseteq sessions /\ {} \subseteq sessions
      OBVIOUS
    <3>2. Withdraw(same) \/ Withdraw({})
      BY <1>5 DEF Authenticate, AuthenticateEffect, RevokeUnvouched, RevokeSession
    <3> HIDE DEF same
    <3> QED BY <3>1, <3>2
  <2> QED BY <2>1, <2>2, WithdrawTidies
<1>6. ASSUME NEW id \in 1 .. minted, Logout(id) PROVE Tidies
  <2>1. Withdraw({s \in sessions : s.id = id}) /\ UNCHANGED <<now, minted, grants>>
        /\ ended' = ended \cup {id} /\ now \in Nat
    BY <1>6 DEF Logout, RevokeSession, Together, TypeOK
  <2>2. Tidy
    BY <2>1, WithdrawTidy
  <2>3. \A s \in sessions' : s.id # id
    BY <2>1 DEF Withdraw
  <2> QED BY <2>1, <2>2, <2>3 DEF Tidies, Ends
<1>7. ASSUME NEW p \in Profiles, RequestErasure(p) \/ EraseSessions(p) PROVE Tidies
  <2>1. CASE RequestErasure(p)
    BY <2>1, QuietTidies DEF RequestErasure
  <2>2. CASE EraseSessions(p)
    <3>1. /\ Withdraw({s \in sessions : s.profile = p}) /\ UNCHANGED <<now, minted, grants>>
          /\ ended' = ended \cup Ending
      BY <2>2 DEF EraseSessions, RevokeProfile
    <3> QED BY <3>1, WithdrawTidies
  <2> QED BY <1>7, <2>1, <2>2
<1>8. ASSUME Tick PROVE Tidies
  <2>1. now' \in Nat /\ now' >= now /\ DropManagement(now') /\ UNCHANGED <<minted, grants, ended>>
    BY <1>8 DEF Tick, DropManagement, Quiet, Together, TypeOK
  <2> QED BY <2>1, DropTidy DEF Tidies, Ends
<1> QED BY <1>1, <1>2, <1>3, <1>4, <1>5, <1>6, <1>7, <1>8, IssueTidies, RecoveryTidies
        DEF Next, Step

\* Sessions and replays stay together when nothing is issued.
LEMMA TidiesTogether ==
    ASSUME Together, Tidies
    PROVE  Numbered' /\ Matched' /\ Given'
<1>1. /\ sessions' \subseteq sessions /\ minted' = minted /\ grants' = grants
      /\ now \in Nat /\ now' \in Nat /\ now' >= now
      /\ sessions \subseteq Sessions /\ replays \in [Tokens -> Replays]
  BY DEF Together, TypeOK, Tidies, Tidy
<1>2. \A t \in Tokens : replays'[t].status = "issued" => replays'[t] = replays[t]
  BY DEF Tidies, Tidy
<1>3. Numbered'
  <2>1. ASSUME NEW s \in sessions' PROVE s.id \in 1 .. minted' /\ s.id \notin ended'
    BY <1>1 DEF Together, Numbered, Tidies, Ends
  <2>2. ended' \subseteq 1 .. minted'
    BY <1>1 DEF Together, Numbered, Tidies, Ends
  <2>3. \A x, y \in sessions' : x.id = y.id => x = y
    BY <1>1 DEF Together, Numbered
  <2>4. \A t \in Tokens : replays'[t].status = "issued" => replays'[t].session <= minted'
    BY <1>1, <1>2 DEF Together, Numbered
  <2> QED BY <2>1, <2>2, <2>3, <2>4 DEF Numbered
<1>4. ASSUME NEW t \in Tokens, replays'[t].status = "issued"
      PROVE  /\ \A s \in sessions' : s.id = replays'[t].session => Linked(t, s)'
             /\ ~(replays'[t].until <= now') => \E s \in sessions' : s.id = replays'[t].session
  <2>1. replays'[t] = replays[t]
    BY <1>2, <1>4
  <2>2. ASSUME NEW s \in sessions', s.id = replays'[t].session PROVE Linked(t, s)'
    <3>1. Linked(t, s)
      BY <1>1, <1>4, <2>1, <2>2 DEF Together, Matched
    <3> QED BY <2>1, <3>1 DEF Linked
  <2>3. ASSUME ~(replays'[t].until <= now')
        PROVE  \E s \in sessions' : s.id = replays'[t].session
    <3>1. replays[t].until \in Nat
      BY <1>1 DEF Replays
    <3>2. ~Over(replays[t].until)
      BY <1>1, <2>1, <2>3, <3>1 DEF Over
    <3>3. PICK s \in sessions : s.id = replays[t].session
      BY <1>4, <2>1, <3>2 DEF Together, Matched
    <3>4. s \in sessions'
      BY <1>4, <2>1, <2>3, <3>3 DEF Tidies, Tidy
    <3> QED BY <2>1, <3>3, <3>4
  <2> QED BY <2>2, <2>3
<1>5. ASSUME NEW s \in sessions', s.token # None, ~(s.until <= now'), ~(s.denialUntil <= now')
      PROVE  replays'[s.token].status = "issued" /\ replays'[s.token].session = s.id
  <2>1. s \in sessions /\ s.token \in Tokens /\ s.until \in Nat /\ s.denialUntil \in Nat
    BY <1>1, <1>5 DEF Sessions
  <2>2. ~Over(s.until) /\ ~Over(s.denialUntil)
    BY <1>1, <1>5, <2>1 DEF Over
  <2>3. replays[s.token].status = "issued" /\ replays[s.token].session = s.id
    BY <1>5, <2>1, <2>2 DEF Together, Matched
  <2>4. replays'[s.token] = replays[s.token]
    BY <1>5, <2>1, <2>3 DEF Tidies, Tidy
  <2> QED BY <2>3, <2>4
<1>6. Matched'
  BY <1>4, <1>5 DEF Matched, Over
<1>7. Given'
  BY <1>1, <1>2 DEF Together, Given
<1> QED BY <1>3, <1>6, <1>7

\* What an issue adds is new, and no replay of another token stands for it.
LEMMA NewSessionNumbered ==
    ASSUME Together, NEW s, s.id = minted + 1, minted' = minted + 1, ended' = ended,
           sessions' = sessions \cup {s},
           \A t \in Tokens : replays'[t].status = "issued" => replays'[t].session <= minted'
    PROVE  Numbered'
<1>1. minted \in Nat
  BY DEF Together, TypeOK
<1>2. /\ \A x \in sessions : x.id \in 1 .. minted /\ x.id \notin ended
      /\ ended \subseteq 1 .. minted /\ \A x, y \in sessions : x.id = y.id => x = y
  BY DEF Together, Numbered
<1>3. ASSUME NEW x \in sessions' PROVE x.id \in 1 .. minted' /\ x.id \notin ended'
  BY <1>1, <1>2, <1>3
<1>4. \A x, y \in sessions' : x.id = y.id => x = y
  BY <1>1, <1>2
<1>5. ended' \subseteq 1 .. minted'
  BY <1>1, <1>2
<1> QED BY <1>3, <1>4, <1>5 DEF Numbered

LEMMA PlainTogether ==
    ASSUME Together, PlainIssue, ended' = ended
    PROVE  Numbered' /\ Matched' /\ Given'
<1>1. PICK p \in Profiles :
          /\ sessions' = sessions \cup {NewSession(p, None, 0)} /\ minted' = minted + 1
          /\ UNCHANGED <<now, replays, grants>>
  BY DEF PlainIssue
<1> DEFINE s == NewSession(p, None, 0)
<1>2. s.id = minted + 1 /\ s.token = None
  BY DEF NewSession
<1> HIDE DEF s
<1>3. /\ \A t \in Tokens : replays[t].status = "issued" => replays[t].session <= minted
      /\ \A t \in Tokens : replays[t].session \in Nat
      /\ minted \in Nat
  BY DEF Together, TypeOK, Numbered, Replays
<1>4. Numbered'
  <2>1. \A t \in Tokens : replays'[t].status = "issued" => replays'[t].session <= minted'
    BY <1>1, <1>3
  <2> QED BY <1>1, <1>2, <2>1, NewSessionNumbered DEF s
<1>5. ASSUME NEW t \in Tokens, replays[t].status = "issued", NEW x \in sessions',
             x.id = replays[t].session
      PROVE  x \in sessions
  BY <1>1, <1>2, <1>3, <1>5 DEF s
<1>6. \A t, x : Linked(t, x)' = Linked(t, x)
  BY <1>1 DEF Linked
<1>7. \A u : (u <= now') = Over(u)
  BY <1>1 DEF Over
<1>8. ASSUME NEW t \in Tokens, replays'[t].status = "issued"
      PROVE  /\ \A x \in sessions' : x.id = replays'[t].session => Linked(t, x)'
             /\ ~(replays'[t].until <= now') => \E x \in sessions' : x.id = replays'[t].session
  BY <1>1, <1>5, <1>6, <1>7, <1>8 DEF Together, Matched
<1>9. ASSUME NEW x \in sessions', x.token # None, ~(x.until <= now'), ~(x.denialUntil <= now')
      PROVE  replays'[x.token].status = "issued" /\ replays'[x.token].session = x.id
  <2>1. x \in sessions
    BY <1>1, <1>2, <1>9 DEF s
  <2> QED BY <1>1, <1>7, <1>9, <2>1 DEF Together, Matched
<1>10. Matched'
  BY <1>8, <1>9 DEF Matched, Over
<1>11. Given'
  BY <1>1 DEF Together, Given
<1> QED BY <1>4, <1>10, <1>11

LEMMA PairingTogether ==
    ASSUME Together, PairingIssue, ended' = ended
    PROVE  Numbered' /\ Matched' /\ Given'
<1>1. PICK r \in Requests, p \in Profiles :
          /\ Granted(r, p) /\ UNCHANGED now
          /\ grants' = grants \cup {Answer(r, minted')}
  BY DEF PairingIssue
<1> DEFINE k == r.token
           d == RetryUntil[r.token]
           s == NewSession(p, r.token, d)
<1>2. k \in Tokens /\ minted \in Nat /\ now \in Nat
      /\ \A t \in Tokens : replays[t].session \in Nat
  BY RequestTyped DEF Together, TypeOK, Replays
<1>3. /\ s.id = minted + 1 /\ s.token = k /\ s.denialUntil = d
      /\ s.until = now + SessionTtl
  BY DEF NewSession
<1>4. /\ replays[k].status = "none" /\ minted' = minted + 1
      /\ sessions' = sessions \cup {s}
      /\ \A t \in Tokens \ {k} : replays'[t] = replays[t]
      /\ replays'[k].status = "issued" /\ replays'[k].session = minted + 1
      /\ replays'[k].denialUntil = d
      /\ replays'[k].until = Earlier(d, now + SessionTtl)
      /\ replays'[k].pairing = r.pairing /\ replays'[k].config = r.config
  BY <1>1 DEF Granted
<1> HIDE DEF s, k, d
<1>5. \A t \in Tokens : replays[t].status = "issued" => replays[t].session <= minted
  BY DEF Together, Numbered
<1>6. Numbered'
  <2>1. \A t \in Tokens : replays'[t].status = "issued" => replays'[t].session <= minted'
    BY <1>2, <1>4, <1>5
  <2> QED BY <1>1, <1>3, <1>4, <2>1, NewSessionNumbered
<1>7. \A x \in sessions : x.id <= minted /\ x.id \in Nat
  BY DEF Together, Numbered, TypeOK, Sessions
<1>8. \A u : (u <= now') = Over(u)
  BY <1>1 DEF Over
<1>9. ASSUME NEW x, x = s PROVE Linked(k, x)'
  BY <1>3, <1>4, <1>9 DEF Linked
<1>10. ASSUME NEW t \in Tokens, replays'[t].status = "issued"
       PROVE  /\ \A x \in sessions' : x.id = replays'[t].session => Linked(t, x)'
              /\ ~(replays'[t].until <= now') => \E x \in sessions' : x.id = replays'[t].session
  <2>1. CASE t = k
    <3>1. \A x \in sessions' : x.id = replays'[k].session => x = s
      BY <1>2, <1>4, <1>7
    <3>2. \E x \in sessions' : x.id = replays'[k].session
      BY <1>3, <1>4
    <3> QED BY <1>9, <2>1, <3>1, <3>2
  <2>2. CASE t # k
    <3>1. replays'[t] = replays[t] /\ replays[t].session <= minted
      BY <1>4, <1>5, <1>10, <2>2
    <3>2. ASSUME NEW x \in sessions', x.id = replays'[t].session PROVE Linked(t, x)'
      <4>1. x \in sessions
        BY <1>2, <1>3, <1>4, <3>1, <3>2
      <4>2. Linked(t, x)
        BY <1>10, <3>1, <3>2, <4>1 DEF Together, Matched
      <4> QED BY <3>1, <4>2 DEF Linked
    <3>3. ~Over(replays[t].until) => \E x \in sessions : x.id = replays[t].session
      BY <1>10, <3>1 DEF Together, Matched
    <3> QED BY <1>4, <1>8, <3>1, <3>2, <3>3
  <2> QED BY <2>1, <2>2
<1>11. ASSUME NEW x \in sessions', x.token # None, ~(x.until <= now'), ~(x.denialUntil <= now')
       PROVE  replays'[x.token].status = "issued" /\ replays'[x.token].session = x.id
  <2>1. CASE x = s
    BY <1>3, <1>4, <2>1
  <2>2. CASE x \in sessions
    <3>1. replays[x.token].status = "issued" /\ replays[x.token].session = x.id
      BY <1>8, <1>11, <2>2 DEF Together, Matched
    <3>2. x.token \in Tokens \ {k}
      BY <1>4, <1>11, <2>2, <3>1 DEF Together, TypeOK, Sessions
    <3> QED BY <1>4, <3>1, <3>2
  <2> QED BY <1>4, <2>1, <2>2
<1>12. Matched'
  BY <1>10, <1>11 DEF Matched, Over
<1>13. Given'
  <2>1. Answer(r, minted') = [token |-> k, pairing |-> replays'[k].pairing,
                              config |-> replays'[k].config, session |-> replays'[k].session]
    BY <1>4 DEF Answer, k
  <2>2. ASSUME NEW t \in Tokens, replays'[t].status = "issued", t # k
        PROVE  [token |-> t, pairing |-> replays'[t].pairing, config |-> replays'[t].config,
                session |-> replays'[t].session] \in grants
    <3>1. replays'[t] = replays[t]
      BY <1>4, <2>2
    <3> QED BY <2>2, <3>1 DEF Together, Given
  <2> QED BY <1>1, <2>1, <2>2 DEF Given
<1> QED BY <1>6, <1>12, <1>13

LEMMA NextTogether == Together /\ [Next]_vars => Together'
<1> SUFFICES ASSUME Together, [Next]_vars
             PROVE  Together'
  OBVIOUS
<1>1. TypeOK' /\ NoSessionOfRevoked'
  BY NextStep, NextUnrevoked DEF Together
<1>2. Numbered' /\ Matched' /\ Given'
  BY NextTidies, TidiesTogether, PlainTogether, PairingTogether
<1> QED BY <1>1, <1>2 DEF Together

LEMMA InitTogether == Init => Together
<1> SUFFICES ASSUME Init PROVE Together
  OBVIOUS
<1>1. TypeOK
  BY InitTyped
<1>2. sessions = {} /\ ended = {} /\ \A t \in Tokens : replays[t].status # "issued"
  BY DEF Init, ManagementInit, NoReplay
<1> QED BY <1>1, <1>2 DEF Together, NoSessionOfRevoked, Numbered, Matched, Given

\* The invariant that the answers, the times and the capacities rest on.
THEOREM TogetherCorrect == Spec => []Together
BY InitTogether, NextTogether, PTL DEF Spec

-----------------------------------------------------------------------------
(* What is answered.                                                         *)

\* The answer of a step is a grant, and its session has authority now.
Sound ==
    \/ said' = NoAnswer
    \/ /\ said' \in grants'
       /\ \E s \in sessions' :
              s.id = said'.session /\ ~(s.until <= now') /\ s.profile \notin revoked'

LEMMA ReplayedSound ==
    ASSUME Together, NEW r \in Requests, NEW profiles,
           ReplayVerdict(r.token, r.pairing, r.config, profiles) = "replayed",
           UNCHANGED <<now, revoked, sessions, grants>>,
           said' = Answer(r, replays[r.token].session)
    PROVE  Sound
<1> DEFINE t == r.token
<1>1. /\ t \in Tokens /\ replays[t].pairing = r.pairing /\ replays[t].config = r.config
      /\ replays[t].status = "issued" /\ Authority(t, profiles) # {}
  <2>1. t \in Tokens /\ replays[t] \in Replays
    BY RequestTyped DEF Together, TypeOK
  <2> QED BY <2>1 DEF ReplayVerdict, Replays
<1>2. said' \in grants'
  BY <1>1 DEF Together, Given, Answer
<1>3. PICK s \in sessions : s.id = replays[t].session /\ ~Over(s.until) /\ s.profile \notin revoked
  BY <1>1 DEF Authority
<1>4. said'.session = replays[t].session
  BY DEF Answer
<1> QED BY <1>2, <1>3, <1>4 DEF Sound, Over

LEMMA IssueSound ==
    ASSUME Together, NEW c \in Callers, IssueForPairing(c)
    PROVE  Sound
<1> DEFINE r == client[c].request
           p == client[c].profile
           v == IssueVerdict(p, r.token, r.pairing, r.config, RetryUntil[r.token])
<1>1. p \in Profiles /\ r \in Requests /\ r.token \in Tokens /\ TypeOK /\ now \in Nat
  BY RequestTyped DEF Together, TypeOK, IssueForPairing, At, Carries, Clients
<1>2. /\ IssueEffect(p, r.token, r.pairing, r.config, RetryUntil[r.token], v)
      /\ UNCHANGED now
  BY DEF IssueForPairing
<1>3. CASE v = "issued"
  <2>1. Granted(r, p) /\ revoked' = revoked
    <3> HIDE DEF r, p
    <3> QED BY <1>1, <1>2, <1>3, IssueCases
  <2> DEFINE s == NewSession(p, r.token, RetryUntil[r.token])
  <2>2. said' = Answer(r, minted') /\ grants' = grants \cup {Answer(r, minted')}
    BY <1>3, <2>1 DEF IssueForPairing, Granted
  <2>3. s \in sessions' /\ s.id = minted' /\ s.profile \notin revoked' /\ s.until = now + SessionTtl
    BY <2>1 DEF Granted, NewSession
  <2>4. ~(s.until <= now')
    BY <1>1, <1>2, <2>3, StoreAssumption
  <2>5. said'.session = minted'
    BY <2>2 DEF Answer
  <2> QED BY <2>2, <2>3, <2>4, <2>5 DEF Sound
<1>4. CASE v = "replayed"
  <2>1. ReplayVerdict(r.token, r.pairing, r.config, {p}) = "replayed"
    BY <1>4 DEF IssueVerdict
  <2>2. UNCHANGED <<revoked, sessions>> /\ replays' = replays
    BY <1>1, <1>2, <1>4 DEF IssueEffect, ReplayEffect, TypeOK
  <2>3. said' = Answer(r, replays[r.token].session) /\ grants' = grants
    BY <1>4, <2>2 DEF IssueForPairing
  <2> HIDE DEF r, p, v
  <2> QED BY <1>1, <1>2, <2>1, <2>2, <2>3, ReplayedSound
<1>5. CASE v \notin {"issued", "replayed"}
  BY <1>5 DEF IssueForPairing, Sound
<1> QED BY <1>3, <1>4, <1>5

LEMMA ConfirmSound ==
    ASSUME Together, NEW c \in Callers, ConfirmRecovery(c)
    PROVE  Sound
<1> DEFINE r == client[c].request
           v == RecoverVerdict(r.token, r.pairing, r.config)
<1>1. r \in Requests
  BY DEF Together, TypeOK, ConfirmRecovery, At, Carries
<1>2. CASE v = "replayed"
  <2>1. /\ UNCHANGED <<now, revoked, sessions, grants>>
        /\ said' = Answer(r, replays[r.token].session)
    BY <1>2 DEF ConfirmRecovery, RecoverEffect, ReplayEffect
  <2>2. ReplayVerdict(r.token, r.pairing, r.config, Profiles) = "replayed"
    BY <1>2 DEF RecoverVerdict
  <2> HIDE DEF r, v
  <2> QED BY <1>1, <2>1, <2>2, ReplayedSound
<1>3. CASE v # "replayed"
  BY <1>3 DEF ConfirmRecovery, Sound
<1> QED BY <1>2, <1>3

\* Every other step answers nobody.
LEMMA NextSound ==
    ASSUME Together, Next
    PROVE  Sound
<1>1. ASSUME NEW c \in Callers, Start(c) PROVE said' = NoAnswer
  BY <1>1 DEF Start, StartIssue, StartPairingIssue, StartRecover, StartAuthenticate, Quiet, Unsaid
<1>2. ASSUME NEW c \in Callers, Step(c) PROVE Sound
  <2>1. \/ IssueForPairing(c) \/ ConfirmRecovery(c) \/ said' = NoAnswer
    BY <1>2 DEF Step, ReadGeneration, CheckStatus, Issue, RecoverPairing, RecheckStatus,
       RevokePairing, Authenticate, Vouch, Return, RevokeUnvouched, Quiet, Unsaid
  <2> QED BY <2>1, IssueSound, ConfirmSound DEF Sound
<1>3. ASSUME \/ \E id \in 1 .. minted : Logout(id)
             \/ \E p \in Profiles : RequestErasure(p) \/ EraseSessions(p)
             \/ Tick
      PROVE  said' = NoAnswer
  BY <1>3 DEF Logout, RequestErasure, EraseSessions, Tick, Quiet, Unsaid
<1> QED BY <1>1, <1>2, <1>3 DEF Next, Sound

LEMMA NextAnswers ==
    ASSUME Together, AnswersAgree, AnswersAreLive, [Next]_vars
    PROVE  AnswersAgree' /\ AnswersAreLive'
<1>1. CASE UNCHANGED vars
  BY <1>1 DEF vars, managementVars, historyVars, AnswersAgree, AnswersAreLive, Over
<1>2. CASE Next
  <2>1. Sound
    BY <1>2, NextSound
  <2> QED BY <2>1 DEF Sound, AnswersAgree, AnswersAreLive, Over
<1> QED BY <1>1, <1>2

LEMMA TogetherMatches == Together => ReplayMatchesSession
<1> SUFFICES ASSUME Together PROVE ReplayMatchesSession
  OBVIOUS
<1>1. ASSUME NEW t \in Tokens, replays[t].status = "issued", ~Over(replays[t].until)
      PROVE  Authority(t, Profiles) # {}
  <2>1. PICK s \in sessions : s.id = replays[t].session
    BY <1>1 DEF Together, Matched
  <2>2. Linked(t, s)
    BY <1>1, <2>1 DEF Together, Matched
  <2>3. s.profile \in Profiles /\ s.profile \notin revoked /\ s.until \in Nat
        /\ s.denialUntil \in Nat /\ now \in Nat
    BY DEF Together, TypeOK, Sessions, NoSessionOfRevoked
  <2>4. ~Over(s.until)
    BY <1>1, <2>2, <2>3 DEF Linked, Over, Earlier
  <2>5. s \in Authority(t, Profiles)
    BY <2>1, <2>2, <2>3, <2>4 DEF Authority, Linked
  <2> QED BY <2>5
<1>2. ASSUME NEW s \in Unexpired, s.token # None, ~Over(s.denialUntil)
      PROVE  replays[s.token].status = "issued" /\ replays[s.token].session = s.id
  BY <1>2 DEF Unexpired, Together, Matched
<1> QED BY <1>1, <1>2 DEF ReplayMatchesSession

-----------------------------------------------------------------------------
(* Capacities.                                                               *)

Bounded == IsFiniteSet(sessions) /\ WithinCapacity

\* The sessions that count, of all profiles or of one.
Counting(P) == {s \in sessions : ~Over(s.until) /\ s.profile \in P}

LEMMA CountingAll ==
    ASSUME sessions \subseteq Sessions
    PROVE  /\ Unexpired = Counting(Profiles)
           /\ \A p : {s \in Unexpired : s.profile = p} = Counting({p})
BY DEF Unexpired, Counting, Sessions

LEMMA CountingAllNext ==
    ASSUME sessions' \subseteq Sessions
    PROVE  /\ Unexpired' = Counting(Profiles)'
           /\ \A p : {s \in Unexpired' : s.profile = p} = Counting({p})'
BY DEF Unexpired, Counting, Sessions

LEMMA CountingFewer ==
    ASSUME Together, IsFiniteSet(sessions), sessions' \subseteq sessions,
           now' \in Nat, now' >= now, NEW P
    PROVE  /\ IsFiniteSet(sessions')
           /\ Cardinality(Counting(P)') <= Cardinality(Counting(P))
<1>1. \A s \in sessions : s.until \in Nat
  BY DEF Together, TypeOK, Sessions
<1>2. Counting(P)' \subseteq Counting(P)
  BY <1>1 DEF Counting, Over, Together, TypeOK
<1>3. IsFiniteSet(Counting(P))
  BY FS_Subset DEF Counting
<1> QED BY <1>2, <1>3, FS_Subset

LEMMA CountingOneMore ==
    ASSUME IsFiniteSet(sessions), NEW s, sessions' = sessions \cup {s}, now' = now, NEW P
    PROVE  /\ IsFiniteSet(sessions')
           /\ Cardinality(Counting(P)) \in Nat /\ Cardinality(Counting(P)') \in Nat
           /\ Cardinality(Counting(P)') <= Cardinality(Counting(P)) + 1
           /\ s.profile \notin P => Counting(P)' = Counting(P)
<1>1. IsFiniteSet(Counting(P))
  BY FS_Subset DEF Counting
<1>2. Counting(P)' \subseteq Counting(P) \cup {s}
  BY DEF Counting, Over
<1>3. /\ IsFiniteSet(Counting(P) \cup {s})
      /\ Cardinality(Counting(P) \cup {s}) \in {Cardinality(Counting(P)), Cardinality(Counting(P)) + 1}
  BY <1>1, FS_AddElement
<1>4. /\ IsFiniteSet(Counting(P)')
      /\ Cardinality(Counting(P)') <= Cardinality(Counting(P) \cup {s})
  BY <1>2, <1>3, FS_Subset
<1>5. /\ Cardinality(Counting(P)) \in Nat /\ Cardinality(Counting(P)') \in Nat
      /\ Cardinality(Counting(P) \cup {s}) \in Nat
  BY <1>1, <1>3, <1>4, FS_CardinalityType
<1>6. IsFiniteSet(sessions')
  BY FS_AddElement
<1>7. s.profile \notin P => Counting(P)' = Counting(P)
  BY DEF Counting, Over
<1> QED BY <1>3, <1>4, <1>5, <1>6, <1>7

\* The capacities, of the counted sets.
LEMMA CapacityNext ==
    ASSUME sessions' \subseteq Sessions, IsFiniteSet(sessions'),
           Cardinality(Counting(Profiles)') <= MaxSessions,
           \A p \in Profiles : Cardinality(Counting({p})') <= MaxSessionsPerProfile
    PROVE  Bounded'
<1>1. \A p : {s \in Unexpired' : s.profile = p} = Counting({p})'
  BY CountingAllNext
<1>2. \A p \in Profiles :
          Cardinality({s \in Unexpired' : s.profile = p}) <= MaxSessionsPerProfile
  <2> SUFFICES ASSUME NEW p \in Profiles
               PROVE  Cardinality({s \in Unexpired' : s.profile = p}) <= MaxSessionsPerProfile
    OBVIOUS
  <2>1. {s \in Unexpired' : s.profile = p} = Counting({p})'
    BY <1>1
  <2> QED BY <2>1
<1>3. Cardinality(Unexpired') <= MaxSessions
  BY CountingAllNext
<1> QED BY <1>2, <1>3 DEF Bounded, WithinCapacity

LEMMA CapacityNow ==
    ASSUME sessions \subseteq Sessions, Bounded
    PROVE  /\ Cardinality(Counting(Profiles)) <= MaxSessions
           /\ \A p \in Profiles : Cardinality(Counting({p})) <= MaxSessionsPerProfile
<1>1. Cardinality(Counting(Profiles)) <= MaxSessions
  BY CountingAll DEF Bounded, WithinCapacity
<1>2. ASSUME NEW p \in Profiles PROVE Cardinality(Counting({p})) <= MaxSessionsPerProfile
  <2>1. {s \in Unexpired : s.profile = p} = Counting({p})
    BY CountingAll
  <2>2. Cardinality({s \in Unexpired : s.profile = p}) <= MaxSessionsPerProfile
    BY DEF Bounded, WithinCapacity
  <2> QED BY <2>1, <2>2
<1> QED BY <1>1, <1>2

\* A profile with room gets one session more, and the others none.
LEMMA IssueBounded ==
    ASSUME sessions \subseteq Sessions, sessions' \subseteq Sessions, Bounded,
           NEW p \in Profiles, ~Full(p), NEW s, s.profile = p,
           sessions' = sessions \cup {s}, now' = now
    PROVE  Bounded'
<1>1. IsFiniteSet(sessions) /\ MaxSessions \in Nat /\ MaxSessionsPerProfile \in Nat
  BY StoreAssumption DEF Bounded
<1>2. \A P : Cardinality(Counting(P)) \in Nat
  BY <1>1, CountingOneMore
<1>3. Cardinality(Counting(Profiles)) < MaxSessions
  <2>1. ~(Cardinality(Unexpired) >= MaxSessions) /\ Unexpired = Counting(Profiles)
    BY CountingAll DEF Full
  <2>2. Cardinality(Counting(Profiles)) \in Nat
    BY <1>2
  <2> QED BY <1>1, <2>1, <2>2
<1>4. Cardinality(Counting({p})) < MaxSessionsPerProfile
  <2> DEFINE T == {x \in Unexpired : x.profile = p}
  <2>1. ~(Cardinality(T) >= MaxSessionsPerProfile)
    BY DEF Full
  <2>2. T = Counting({p})
    BY CountingAll
  <2>3. Cardinality(Counting({p})) \in Nat
    BY <1>2
  <2> HIDE DEF T
  <2> QED BY <1>1, <2>1, <2>2, <2>3
<1>5. IsFiniteSet(sessions')
  BY <1>1, CountingOneMore
<1>6. Cardinality(Counting(Profiles)') <= MaxSessions
  <2>1. /\ Cardinality(Counting(Profiles)) \in Nat /\ Cardinality(Counting(Profiles)') \in Nat
        /\ Cardinality(Counting(Profiles)') <= Cardinality(Counting(Profiles)) + 1
    BY <1>1, CountingOneMore
  <2> QED BY <1>1, <1>3, <2>1
<1>7. ASSUME NEW x \in Profiles PROVE Cardinality(Counting({x})') <= MaxSessionsPerProfile
  <2>1. CASE x = p
    <3>1. /\ Cardinality(Counting({p})) \in Nat /\ Cardinality(Counting({p})') \in Nat
          /\ Cardinality(Counting({p})') <= Cardinality(Counting({p})) + 1
      BY <1>1, CountingOneMore
    <3>2. Cardinality(Counting({p})') <= MaxSessionsPerProfile
      BY <1>1, <1>4, <3>1
    <3> QED BY <2>1, <3>2
  <2>2. CASE x # p
    <3>1. s.profile \notin {x}
      BY <2>2
    <3>2. Counting({x})' = Counting({x})
      BY <1>1, <3>1, CountingOneMore
    <3>3. Cardinality(Counting({x})) <= MaxSessionsPerProfile
      BY CapacityNow
    <3> QED BY <3>2, <3>3
  <2> QED BY <2>1, <2>2
<1> QED BY <1>5, <1>6, <1>7, CapacityNext

LEMMA FewerBounded ==
    ASSUME Together, sessions' \subseteq sessions, now' \in Nat, now' >= now, Bounded
    PROVE  Bounded'
<1>1. IsFiniteSet(sessions) /\ MaxSessions \in Nat /\ MaxSessionsPerProfile \in Nat
      /\ sessions \subseteq Sessions /\ sessions' \subseteq Sessions
  BY StoreAssumption DEF Bounded, Together, TypeOK
<1>2. ASSUME NEW P
      PROVE  /\ IsFiniteSet(sessions')
             /\ Cardinality(Counting(P)) \in Nat /\ Cardinality(Counting(P)') \in Nat
             /\ Cardinality(Counting(P)') <= Cardinality(Counting(P))
  <2>1. IsFiniteSet(sessions') /\ Cardinality(Counting(P)') <= Cardinality(Counting(P))
    BY <1>1, CountingFewer
  <2>2. IsFiniteSet(Counting(P)) /\ IsFiniteSet(Counting(P)')
    BY <1>1, <2>1, FS_Subset DEF Counting
  <2> QED BY <2>1, <2>2, FS_CardinalityType
<1>3. Cardinality(Counting(Profiles)') <= MaxSessions
  <2>1. Cardinality(Counting(Profiles)) <= MaxSessions
    BY <1>1, CapacityNow
  <2>2. /\ Cardinality(Counting(Profiles)) \in Nat /\ Cardinality(Counting(Profiles)') \in Nat
        /\ Cardinality(Counting(Profiles)') <= Cardinality(Counting(Profiles))
    BY <1>2
  <2> QED BY <1>1, <2>1, <2>2
<1>4. ASSUME NEW p \in Profiles PROVE Cardinality(Counting({p})') <= MaxSessionsPerProfile
  <2>1. Cardinality(Counting({p})) <= MaxSessionsPerProfile
    BY <1>1, CapacityNow
  <2>2. /\ Cardinality(Counting({p})) \in Nat /\ Cardinality(Counting({p})') \in Nat
        /\ Cardinality(Counting({p})') <= Cardinality(Counting({p}))
    BY <1>2
  <2> QED BY <1>1, <2>1, <2>2
<1> QED BY <1>1, <1>2, <1>3, <1>4, CapacityNext

LEMMA NextBounded ==
    ASSUME Together, Bounded, [Next]_vars
    PROVE  Bounded'
<1>1. sessions \subseteq Sessions /\ sessions' \subseteq Sessions
  BY NextStep DEF Together, TypeOK
<1>2. CASE Tidies
  BY <1>2, FewerBounded DEF Tidies, Tidy
<1>3. CASE PlainIssue
  <2>1. PICK p \in Profiles : ~Full(p) /\ sessions' = sessions \cup {NewSession(p, None, 0)}
                              /\ now' = now
    BY <1>3 DEF PlainIssue
  <2>2. NewSession(p, None, 0).profile = p
    BY DEF NewSession
  <2>3. PICK s : s = NewSession(p, None, 0)
    OBVIOUS
  <2> QED BY <1>1, <2>1, <2>2, <2>3, IssueBounded
<1>4. CASE PairingIssue
  <2>1. PICK r \in Requests, p \in Profiles : Granted(r, p) /\ now' = now
    BY <1>4 DEF PairingIssue
  <2>2. PICK s : s = NewSession(p, r.token, RetryUntil[r.token])
    OBVIOUS
  <2>3. s.profile = p /\ ~Full(p) /\ sessions' = sessions \cup {s}
    BY <2>1, <2>2 DEF NewSession, Granted
  <2> QED BY <1>1, <2>1, <2>3, IssueBounded
<1> QED BY <1>2, <1>3, <1>4, NextTidies

\* A pairing is answered with the session of the first request and with nothing
\* else, a session that is alive at that moment; a replay and its session end
\* together; and the capacities hold however the issues interleave.
THEOREM AnswersHoldCorrect == Spec => []AnswersHold
<1>1. Init => AnswersAgree /\ AnswersAreLive
  BY DEF Init, AnswersAgree, AnswersAreLive
<1>2. Init => Bounded
  <2> SUFFICES ASSUME Init PROVE Bounded
    OBVIOUS
  <2>1. sessions = {} /\ Unexpired = {} /\ \A p : {s \in Unexpired : s.profile = p} = {}
    BY DEF Init, ManagementInit, Unexpired
  <2>2. IsFiniteSet({}) /\ Cardinality({}) = 0
    BY FS_EmptySet
  <2>3. MaxSessions >= 0 /\ MaxSessionsPerProfile >= 0
    BY StoreAssumption
  <2> QED BY <2>1, <2>2, <2>3 DEF Bounded, WithinCapacity
<1>3. Together /\ AnswersAgree /\ AnswersAreLive /\ [Next]_vars => (AnswersAgree /\ AnswersAreLive)'
  BY NextAnswers
<1>4. Together /\ Bounded /\ [Next]_vars => Bounded'
  BY NextBounded
<1>5. Together /\ AnswersAgree /\ AnswersAreLive /\ Bounded => AnswersHold
  BY TogetherMatches DEF AnswersHold, Bounded
<1> QED BY <1>1, <1>2, <1>3, <1>4, <1>5, TogetherCorrect, PTL DEF Spec

-----------------------------------------------------------------------------
(* Authentication.                                                           *)

\* A call that must be refused: the sessions it may find are of profiles whose
\* erasure has been requested, and it is not accepted.
Refused(r) ==
    r.barred =>
        /\ r.session <= minted
        /\ r.pc = "authenticate" => \A s \in sessions : s.id = r.session => s.profile \notin active
        /\ r.pc = "vouch" => r.profile \notin active
        /\ r.pc # "accepted"

Barring == \A c \in Callers : Refused(client[c])

\* A new session has a new number, and a profile is never active again.
LEMMA NextFresh ==
    ASSUME Together, [Next]_vars
    PROVE  /\ minted' >= minted
           /\ \A s \in sessions' : s \in sessions \/ s.id = minted + 1
           /\ active' \subseteq active
<1> DEFINE Goal == minted' >= minted /\ \A s \in sessions' : s \in sessions \/ s.id = minted + 1
<1>1. ASSUME Tidies PROVE Goal
  BY <1>1 DEF Tidies, Tidy, Together, TypeOK
<1>2. ASSUME PlainIssue PROVE Goal
  BY <1>2 DEF PlainIssue, NewSession, Together, TypeOK
<1>3. ASSUME PairingIssue PROVE Goal
  BY <1>3 DEF PairingIssue, Granted, NewSession, Together, TypeOK
<1>4. active' \subseteq active
  <2>1. ASSUME NEW c \in Callers, Start(c) PROVE active' = active
    BY <2>1 DEF Start, StartIssue, StartPairingIssue, StartRecover, StartAuthenticate
  <2>2. ASSUME NEW c \in Callers, Step(c) PROVE active' = active
    BY <2>2 DEF Step, ReadGeneration, CheckStatus, Issue, IssueForPairing, RecoverPairing,
       RecheckStatus, ConfirmRecovery, RevokePairing, Authenticate, Vouch, Return, RevokeUnvouched
  <2> QED BY <2>1, <2>2 DEF Next, Logout, RequestErasure, EraseSessions, Tick, vars
<1>5. Goal
  BY <1>1, <1>2, <1>3, NextTidies
<1> QED BY <1>4, <1>5

LEMMA RefusedStays ==
    ASSUME Together, [Next]_vars, NEW r \in Clients, Refused(r)
    PROVE  Refused(r)'
<1>1. /\ minted \in Nat /\ minted' \in Nat /\ minted' >= minted /\ r.session \in Nat
      /\ \A s \in sessions' : s \in sessions \/ s.id = minted + 1
      /\ active' \subseteq active
  BY NextFresh, NextStep DEF Together, TypeOK, Clients
<1> QED BY <1>1 DEF Refused

LEMMA BarringMove ==
    ASSUME Together, Barring, [Next]_vars, NEW c \in Callers, NEW r, Become(c, r), Refused(r)'
    PROVE  Barring'
<1>1. ASSUME NEW x \in Callers PROVE Refused(client[x])'
  <2>1. PICK y : y = client'[x]
    OBVIOUS
  <2>2. CASE x = c
    <3>1. y = r
      BY <2>1, <2>2 DEF Become, Together, TypeOK
    <3> QED BY <2>1, <3>1 DEF Refused
  <2>3. CASE x # c
    <3>1. y = client[x] /\ y \in Clients /\ Refused(y)
      BY <2>1, <2>3 DEF Become, Together, TypeOK, Barring
    <3>2. Refused(y)'
      BY <3>1, RefusedStays
    <3> QED BY <2>1, <3>2 DEF Refused
  <2> QED BY <2>2, <2>3
<1> QED BY <1>1 DEF Barring

LEMMA BarringStays ==
    ASSUME Together, Barring, [Next]_vars, client' = client
    PROVE  Barring'
<1>1. ASSUME NEW x \in Callers PROVE Refused(client[x])'
  <2>1. PICK y : y = client[x]
    OBVIOUS
  <2>2. y \in Clients /\ Refused(y)
    BY <2>1 DEF Together, TypeOK, Barring
  <2>3. Refused(y)'
    BY <2>2, RefusedStays
  <2> QED BY <2>1, <2>3 DEF Refused
<1> QED BY <1>1 DEF Barring

LEMMA DoneBarring ==
    ASSUME Together, Barring, [Next]_vars, NEW c \in Callers, Done(c)
    PROVE  Barring'
<1>1. Refused(Idle)'
  BY DEF Idle, Refused
<1> QED BY <1>1, BarringMove DEF Done

\* A call that goes on, elsewhere than to its acceptance, stays refused.
LEMMA GotoBarring ==
    ASSUME Together, Barring, [Next]_vars, NEW c \in Callers, NEW label,
           label \notin {"authenticate", "vouch", "accepted"}, Goto(c, label)
    PROVE  Barring'
<1>1. PICK r : r = [client[c] EXCEPT !.pc = label]
  OBVIOUS
<1>2. /\ r.pc = label /\ r.barred = client[c].barred /\ r.session = client[c].session
      /\ Refused(client[c]) /\ client[c] \in Clients
  BY <1>1 DEF Together, TypeOK, Clients, Barring
<1>3. minted \in Nat /\ minted' \in Nat /\ minted' >= minted /\ r.session \in Nat
  BY <1>2, NextFresh, NextStep DEF Together, TypeOK, Clients
<1>4. Refused(r)'
  BY <1>2, <1>3 DEF Refused
<1> QED BY <1>1, <1>4, BarringMove DEF Goto

LEMMA StartBarring ==
    ASSUME Together, Barring, [Next]_vars, NEW c \in Callers, Start(c)
    PROVE  Barring'
<1>1. ASSUME NEW r, r.barred = FALSE, Become(c, r) PROVE Barring'
  <2>1. Refused(r)'
    BY <1>1 DEF Refused
  <2> QED BY <1>1, <2>1, BarringMove
<1>2. ASSUME NEW p \in Profiles, StartIssue(c, p) PROVE Barring'
  BY <1>1, <1>2 DEF StartIssue, Idle
<1>3. ASSUME NEW r \in Requests, StartPairingIssue(c, r) \/ StartRecover(c, r) PROVE Barring'
  BY <1>1, <1>3 DEF StartPairingIssue, StartRecover, Idle
<1>4. ASSUME NEW id \in 1 .. minted, StartAuthenticate(c, id) PROVE Barring'
  <2>1. PICK r : r = [Idle EXCEPT !.pc = "authenticate", !.session = id, !.barred = id \in Barred]
    OBVIOUS
  <2>2. r.session = id /\ r.barred = (id \in Barred) /\ r.pc = "authenticate"
    BY <2>1 DEF Idle
  <2>3. UNCHANGED <<sessions, active, minted>> /\ Become(c, r) /\ minted \in Nat
    BY <1>4, <2>1 DEF StartAuthenticate, managementVars, Together, TypeOK
  <2>4. ASSUME id \in Barred, NEW s \in sessions, s.id = id PROVE s.profile \notin active
    <3>1. id \notin ended
      BY <2>4 DEF Together, Numbered
    <3>2. PICK x \in sessions : x.profile \notin active /\ x.id = id
      BY <2>4, <3>1 DEF Barred
    <3>3. x = s
      BY <2>4, <3>2 DEF Together, Numbered
    <3> QED BY <3>2, <3>3
  <2>5. r.barred => id \in Barred
    BY <2>2, Zenon
  <2>6. r.barred => \A s \in sessions' : s.id = r.session => s.profile \notin active'
    BY <2>2, <2>3, <2>4, <2>5
  <2>7. r.session <= minted'
    BY <2>2, <2>3
  <2>8. Refused(r)'
    BY <2>2, <2>6, <2>7 DEF Refused
  <2> QED BY <2>3, <2>8, BarringMove
<1> QED BY <1>2, <1>3, <1>4 DEF Start

\* A session that is found has the number of the call, and so is of a profile
\* that the call must not be accepted for.
LEMMA AuthenticateBarring ==
    ASSUME Together, Barring, [Next]_vars, NEW c \in Callers, Authenticate(c)
    PROVE  Barring'
<1> DEFINE id == client[c].session
           p == (CHOOSE s \in Authentic(id) : TRUE).profile
<1>1. CASE Authentic(id) = {}
  BY <1>1, DoneBarring DEF Authenticate
<1>2. CASE Authentic(id) # {}
  <2>1. PICK r : r = [client[c] EXCEPT !.pc = "vouch", !.profile = p]
    OBVIOUS
  <2>2. Become(c, r)
    BY <1>2, <2>1 DEF Authenticate
  <2>3. PICK s \in sessions : s.id = id /\ s.profile = p
    BY <1>2 DEF Authentic
  <2> HIDE DEF p
  <2>4. /\ r.pc = "vouch" /\ r.profile = p /\ r.barred = client[c].barred
        /\ r.session = client[c].session
        /\ Refused(client[c]) /\ At(c, "authenticate") /\ UNCHANGED <<minted, active>>
    BY <2>1 DEF Together, TypeOK, Clients, Barring, Authenticate, AuthenticateEffect
  <2>5. ASSUME client[c].barred
        PROVE  /\ client[c].session <= minted
               /\ \A x \in sessions : x.id = client[c].session => x.profile \notin active
    BY <2>4, <2>5 DEF Refused, At
  <2>6. client[c].barred => r.session <= minted' /\ r.profile \notin active'
    BY <2>3, <2>4, <2>5
  <2>7. Refused(r)'
    BY <2>4, <2>6 DEF Refused
  <2> QED BY <2>2, <2>7, BarringMove
<1> QED BY <1>1, <1>2

LEMMA VouchBarring ==
    ASSUME Together, Barring, [Next]_vars, NEW c \in Callers, Vouch(c)
    PROVE  Barring'
<1>1. CASE client[c].profile \in active
  <2>1. PICK r : r = [client[c] EXCEPT !.pc = "accepted"]
    OBVIOUS
  <2>2. r.barred = client[c].barred /\ client[c].barred \in BOOLEAN /\ Refused(client[c])
        /\ At(c, "vouch")
    BY <2>1 DEF Together, TypeOK, Clients, Barring, Vouch
  <2>3. ~r.barred
    BY <1>1, <2>2 DEF Refused, At
  <2>4. Refused(r)'
    BY <2>3 DEF Refused
  <2> QED BY <1>1, <2>1, <2>4, BarringMove DEF Vouch, Goto
<1>2. CASE client[c].profile \notin active
  BY <1>2, GotoBarring DEF Vouch
<1> QED BY <1>1, <1>2

LEMMA NextBarring ==
    ASSUME Together, Barring, [Next]_vars
    PROVE  Barring'
<1>1. ASSUME NEW c \in Callers, Step(c) PROVE Barring'
  <2>1. \/ Done(c) \/ Authenticate(c) \/ Vouch(c)
        \/ \E label : label \notin {"authenticate", "vouch", "accepted"} /\ Goto(c, label)
    BY <1>1 DEF Step, ReadGeneration, CheckStatus, Issue, IssueForPairing, RecoverPairing,
       RecheckStatus, ConfirmRecovery, RevokePairing, Return, RevokeUnvouched
  <2> QED BY <2>1, DoneBarring, GotoBarring, AuthenticateBarring, VouchBarring
<1>2. \/ \E c \in Callers : Start(c) \/ Step(c)
      \/ client' = client
  BY DEF Next, Logout, RequestErasure, EraseSessions, Tick, vars
<1> QED BY <1>1, <1>2, StartBarring, BarringStays

\* A call that starts when its session was revoked or the erasure of its profile
\* requested is refused, although the script and the look at the profile's status
\* are apart and a revocation or another call may come between them.
THEOREM AuthenticationCorrect == Spec => []NoStaleAuthentication
<1>1. Init => Barring
  BY DEF Init, Barring, Refused, Idle
<1>2. Together /\ Barring /\ [Next]_vars => Barring'
  BY NextBarring
<1>3. Together /\ Barring => NoStaleAuthentication
  <2> SUFFICES ASSUME Together, Barring, NEW c \in Callers, At(c, "accepted")
               PROVE  ~client[c].barred
    BY DEF NoStaleAuthentication
  <2> QED BY DEF Barring, Refused, At
<1> QED BY <1>1, <1>2, <1>3, TogetherCorrect, PTL DEF Spec
=============================================================================
