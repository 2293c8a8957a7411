--------------------------- MODULE TraktCredential ---------------------------
(***************************************************************************)
(* The Trakt credential of one profile, shared by every server: connected  *)
(* by an authorization that goes through the user's browser, refreshed by  *)
(* whoever finds it stale, disconnected by the user.  Its row changes only *)
(* by compare and set of the revision; a refresh first takes the token out *)
(* of the row, because Trakt takes a refresh token once.  A call may fail, *)
(* or do its work and lose its answer, and a server may stop.              *)
(***************************************************************************)
EXTENDS Naturals, FiniteSets

CONSTANTS Servers,
    MaxLaunches, MaxDisconnects, MaxStale,
    MaxMishaps   \* how many calls fail or lose their answer, or servers stop

VARIABLES
    row,        \* oauth_credentials, of revision 0 while there is none
    states,     \* the OAuth states in Redis
    profile,    \* its end: the database's, then Redis' generation
    jobs,       \* what each server does
    grants,     \* what Trakt has issued and been sent
    launched, disconnects, staled, mishap

vars == <<row, states, profile, jobs, grants, launched, disconnects, staled, mishap>>

NoToken == [id |-> 0, since |-> 0]
NoFlow == [id |-> 0, gen |-> 0, rev |-> 0, since |-> 0]

\* Where a server is, with the OAuth state it serves, the token it holds, and
\* the revision and the attempt of a refresh.
Idle == [pc |-> "idle", flow |-> NoFlow, token |-> NoToken, rev |-> 0, attempt |-> 0]

\* A token has an id, and knows the disconnections before its user's consent.
Minted(since) == [id |-> grants.tokens + 1, since |-> since]

Fine == UNCHANGED mishap
Mishap == mishap < MaxMishaps /\ mishap' = mishap + 1

Become(s, job) == jobs' = [jobs EXCEPT ![s] = job]
GoTo(s, pc) == Become(s, [jobs[s] EXCEPT !.pc = pc])
End(s) == jobs' = [jobs EXCEPT ![s] = Idle]
At(s, pc) == jobs[s].pc = pc

Init ==
    /\ row = [rev |-> 0, gen |-> 0, state |-> "none", token |-> NoToken, fresh |-> FALSE, attempt |-> 0]
    /\ states = {}
    /\ profile = "active"
    /\ jobs = [s \in Servers |-> Idle]
    /\ grants = [tokens |-> 0, sent |-> {}, twice |-> {}]
    /\ launched = 0 /\ disconnects = 0 /\ staled = 0 /\ mishap = 0

-----------------------------------------------------------------------------
(* The row *)

\* put: one revision further, if the profile is active and nobody was faster.
Current(rev) == profile = "active" /\ row.rev = rev
Put(new) == row' = new

Connected(token) ==
    [rev |-> row.rev + 1, gen |-> row.gen, state |-> "ready", token |-> token,
     fresh |-> TRUE, attempt |-> 0]

TokenFree(state) ==
    [rev |-> row.rev + 1, gen |-> row.gen, state |-> state, token |-> NoToken,
     fresh |-> FALSE, attempt |-> 0]

\* What was sent before is remembered, to say that it never happens.
Send(grant) ==
    grants' = [grants EXCEPT !.sent = @ \cup {grant},
                             !.twice = IF grant \in grants.sent THEN @ \cup {grant} ELSE @]

\* A profile that comes with tokens of its own gets a row, if it has none.
SeedCredential ==
    /\ Current(0) /\ grants.tokens = 0
    /\ \E fresh \in BOOLEAN :
        Put([Connected(Minted(0)) EXCEPT !.fresh = fresh, !.gen = 1])
    /\ grants' = [grants EXCEPT !.tokens = 1]
    /\ UNCHANGED <<states, profile, jobs, launched, disconnects, staled, mishap>>

BecomeStale ==
    /\ row.state = "ready" /\ row.fresh /\ staled < MaxStale
    /\ row' = [row EXCEPT !.fresh = FALSE] /\ staled' = staled + 1
    /\ UNCHANGED <<states, profile, jobs, grants, launched, disconnects, mishap>>

\* The generation of a row that does not exist yet is that of a disconnected one.
Ensured == [TokenFree("disconnected") EXCEPT !.gen = 1]

\* A disconnection replaces whatever is there, and begins a new generation.
Disconnect ==
    /\ profile = "active" /\ disconnects < MaxDisconnects
    /\ Put([TokenFree("disconnected") EXCEPT !.gen = @ + 1])
    /\ disconnects' = disconnects + 1
    /\ UNCHANGED <<states, profile, jobs, grants, launched, staled, mishap>>

\* The end of the profile: in the database, then for its management sessions.
EndProfile ==
    /\ profile # "closed"
    /\ profile' = IF profile = "active" THEN "revoked" ELSE "closed"
    /\ UNCHANGED <<row, states, jobs, grants, launched, disconnects, staled, mishap>>

-----------------------------------------------------------------------------
(* Connecting *)

\* The launch names the row it will replace: its generation and revision.
Launch(s) ==
    /\ At(s, "idle") /\ profile = "active" /\ launched < MaxLaunches
    /\ launched' = launched + 1
    /\ IF row.rev = 0 THEN Put(Ensured) ELSE UNCHANGED row
    /\ Become(s, [Idle EXCEPT !.pc = "issue",
                  !.flow = [id |-> launched + 1, since |-> disconnects,
                            gen |-> IF row.rev = 0 THEN 1 ELSE row.gen,
                            rev |-> IF row.rev = 0 THEN 1 ELSE row.rev]])
    /\ UNCHANGED <<states, profile, grants, disconnects, staled, mishap>>

\* The state is issued only while the profile's management generation stands.
Issue(s) ==
    /\ At(s, "issue") /\ End(s)
    /\ IF profile = "closed" THEN UNCHANGED states
       ELSE states' = states \cup {jobs[s].flow}
    /\ UNCHANGED <<row, profile, grants, launched, disconnects, staled, mishap>>

ExpireState(st) ==
    /\ states' = states \ {st}
    /\ UNCHANGED <<row, profile, jobs, grants, launched, disconnects, staled, mishap>>

\* The browser comes back, perhaps twice: the state is read and decrypted ...
PeekState(s, st) ==
    /\ At(s, "idle") /\ st \in states
    /\ Become(s, [Idle EXCEPT !.pc = "consume", !.flow = st])
    /\ UNCHANGED <<row, states, profile, grants, launched, disconnects, staled, mishap>>

\* Mutant: a state that was read is taken without asking for it again.
ConsumeUnseen(s) ==
    /\ At(s, "consume")
    /\ states' = states \ {jobs[s].flow}
    /\ IF profile # "closed" THEN GoTo(s, "fence") ELSE End(s)
    /\ UNCHANGED <<row, profile, grants, launched, disconnects, staled, mishap>>

\* ... and consumed, if it is still there and the profile is managed as before.
\* The user may have denied the authorization: then that is all.
ConsumeState(s) ==
    /\ At(s, "consume")
    /\ states' = states \ {jobs[s].flow}
    /\ \/ /\ jobs[s].flow \in states /\ profile # "closed"
          /\ GoTo(s, "fence")
       \/ End(s)
    /\ UNCHANGED <<row, profile, grants, launched, disconnects, staled, mishap>>

\* Nothing is exchanged for a row that has moved since the launch.
Fence(s) ==
    /\ At(s, "fence")
    /\ IF Current(jobs[s].flow.rev) /\ row.gen = jobs[s].flow.gen
       THEN GoTo(s, "exchange") ELSE End(s)
    /\ UNCHANGED <<row, states, profile, grants, launched, disconnects, staled, mishap>>

CodeOf(st) == <<"code", st.id>>

\* Trakt takes a code once.  Its answer may be lost.
Exchange(s) ==
    /\ At(s, "exchange")
    /\ LET st == jobs[s].flow IN
       \/ /\ Fine
          /\ IF CodeOf(st) \in grants.sent THEN Send(CodeOf(st)) /\ End(s)
             ELSE /\ grants' = [grants EXCEPT !.tokens = @ + 1, !.sent = @ \cup {CodeOf(st)}]
                  /\ Become(s, [jobs[s] EXCEPT !.pc = "write", !.token = Minted(st.since)])
       \/ Mishap /\ Send(CodeOf(st)) /\ End(s)
    /\ UNCHANGED <<row, states, profile, launched, disconnects, staled>>

\* Mutant: the write reads the revision again and keeps to that one.
WriteLate(s) ==
    /\ At(s, "write") /\ End(s)
    /\ IF profile = "active" THEN Put(Connected(jobs[s].token)) ELSE UNCHANGED row
    /\ UNCHANGED <<states, profile, grants, launched, disconnects, staled, mishap>>

\* replaceTraktCredential, fenced by generation and revision.
WriteCredential(s) ==
    /\ At(s, "write") /\ End(s)
    /\ IF Current(jobs[s].flow.rev) /\ row.gen = jobs[s].flow.gen
       THEN \/ Fine /\ Put(Connected(jobs[s].token))
            \/ Mishap /\ UNCHANGED row
       ELSE Fine /\ UNCHANGED row
    /\ UNCHANGED <<states, profile, grants, launched, disconnects, staled>>

-----------------------------------------------------------------------------
(* Refreshing: getConfiguredTraktToken *)

\* Whoever finds the token stale takes it out of the row and becomes the only
\* one who may send it; if the answer is lost, nobody is.
ClaimRefresh(s) ==
    /\ At(s, "idle") /\ profile = "active" /\ row.state = "ready" /\ ~row.fresh
    /\ Put([TokenFree("refreshing") EXCEPT !.attempt = row.rev])
    /\ \/ Fine /\ Become(s, [Idle EXCEPT !.pc = "refresh", !.token = row.token, !.rev = row.rev + 1])
       \/ Mishap /\ UNCHANGED jobs
    /\ UNCHANGED <<states, profile, grants, launched, disconnects, staled>>

TokenOf(token) == <<"token", token.id>>

\* Trakt answers with a new token, or refuses, or the answer is lost.
Refresh(s) ==
    /\ At(s, "refresh")
    /\ LET token == jobs[s].token IN
       \/ /\ Fine
          /\ IF TokenOf(token) \in grants.sent THEN Send(TokenOf(token)) /\ GoTo(s, "fail")
             ELSE /\ grants' = [grants EXCEPT !.tokens = @ + 1, !.sent = @ \cup {TokenOf(token)}]
                  /\ Become(s, [jobs[s] EXCEPT !.pc = "persist", !.token = Minted(token.since)])
       \/ Mishap /\ Send(TokenOf(token)) /\ GoTo(s, "fail")
    /\ UNCHANGED <<row, states, profile, launched, disconnects, staled>>

\* The new token is kept only by the revision of the claim.  After a failure
\* the row is read again: it may hold the new token all the same.
Persist(s) ==
    /\ At(s, "persist")
    /\ IF Current(jobs[s].rev)
       THEN \/ Fine /\ Put(Connected(jobs[s].token)) /\ End(s)
            \/ Mishap /\ UNCHANGED row /\ GoTo(s, "fail")
       ELSE Fine /\ UNCHANGED row /\ GoTo(s, "fail")
    /\ UNCHANGED <<states, profile, grants, launched, disconnects, staled>>

\* failClosedTraktCredential: only the very attempt is given up.
FailClosed(attempt) ==
    IF profile = "active" /\ row.state = "refreshing" /\ row.attempt = attempt
    THEN Put(TokenFree("reauthorization_required")) ELSE UNCHANGED row

GiveUpRefresh(s) ==
    /\ At(s, "fail") /\ End(s)
    /\ FailClosed(jobs[s].rev - 1)
    /\ UNCHANGED <<states, profile, grants, launched, disconnects, staled, mishap>>

\* Everybody else polls; a request that has waited long enough gives up the
\* attempt that it saw last.
Observe(s) ==
    /\ At(s, "idle") /\ profile = "active" /\ row.state = "refreshing"
    /\ Become(s, [Idle EXCEPT !.pc = "wait", !.attempt = row.attempt])
    /\ UNCHANGED <<row, states, profile, grants, launched, disconnects, staled, mishap>>

StopWaiting(s) ==
    /\ At(s, "wait") /\ End(s)
    /\ FailClosed(jobs[s].attempt)
    /\ UNCHANGED <<states, profile, grants, launched, disconnects, staled, mishap>>

PollAgain(s) ==
    /\ At(s, "wait") /\ row.attempt # jobs[s].attempt
    /\ IF row.state = "refreshing" /\ profile = "active"
       THEN Become(s, [jobs[s] EXCEPT !.attempt = row.attempt]) ELSE End(s)
    /\ UNCHANGED <<row, states, profile, grants, launched, disconnects, staled, mishap>>

Stop(s) ==
    /\ jobs[s] # Idle /\ Mishap /\ End(s)
    /\ UNCHANGED <<row, states, profile, grants, launched, disconnects, staled>>

-----------------------------------------------------------------------------
Connect(s) ==
    \/ Launch(s) \/ Issue(s) \/ (\E st \in states : PeekState(s, st)) \/ ConsumeState(s)
    \/ Fence(s) \/ Exchange(s) \/ WriteCredential(s)

Use(s) ==
    \/ ClaimRefresh(s) \/ Refresh(s) \/ Persist(s) \/ GiveUpRefresh(s)
    \/ Observe(s) \/ PollAgain(s) \/ StopWaiting(s)

Next ==
    \/ \E s \in Servers : Connect(s) \/ Use(s) \/ Stop(s)
    \/ SeedCredential \/ BecomeStale \/ Disconnect \/ EndProfile
    \/ \E st \in states : ExpireState(st)

Spec == Init /\ [][Next]_vars

-----------------------------------------------------------------------------
\* Trakt is never sent the same authorization code or refresh token twice, by
\* whatever servers at whatever time, and the row never offers one it was sent.
GrantsUsedOnce ==
    /\ grants.twice = {}
    /\ row.state = "ready" => TokenOf(row.token) \notin grants.sent

\* After a disconnection no token comes back that the user had agreed to
\* before: not by a refresh, nor a callback, nor the profile's own tokens.
ConsentStands == row.state = "ready" => row.token.since = disconnects
=============================================================================
