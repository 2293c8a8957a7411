---------------------------- MODULE PlaybackSessions ----------------------------
(***************************************************************************)
(* The sessions of a device's playbacks and what they send to Trakt, by    *)
(* the calls of src/lib/trakt-scrobble-service.js over                     *)
(* storage/postgres/playback-session-repository.js: a session is opened    *)
(* for a claim and ends the one that the claim superseded; an event moves  *)
(* it and enqueues a dispatch in one transaction; the call then delivers   *)
(* from the outbox until it meets its own dispatch, next to the worker.    *)
(* Each transaction is one step, and so is an admission, which holds the   *)
(* profile's lock while it calls Trakt.                                    *)
(*                                                                         *)
(* A dispatch is named by its session, the session's revision as it was    *)
(* read, and the event; its progress is left out, a completion is a stop,  *)
(* and callers who name their dispatches themselves are left out.          *)
(***************************************************************************)
EXTENDS Naturals

CONSTANTS
    Sessions, Sources, Callers, Workers, None,
    Events,      \* of start, resume, pause, background and stop
    MaxCalls, MaxChanges, MaxFaults

VARIABLES
    claim,      \* the active claim of the device in Redis
    source,     \* the source of each session that was claimed
    binding,    \* the profile's revision and the device's generation, None when erased
    sessions,   \* playback_sessions
    revoked,    \* playback_source_revocations
    outbox,     \* scrobble_dispatches
    calls,      \* the calls of the service under way
    leases,     \* what each worker, or call that delivers, has claimed
    sent,       \* how often Trakt was called for each dispatch
    ended,      \* sessions that a call has found to have ended
    spent       \* calls and faults so far

vars == <<claim, source, binding, sessions, revoked, outbox, calls, leases, sent, ended, spent>>

Idle == [pc |-> "idle", op |-> None, session |-> None, target |-> None, binding |-> None,
         seen |-> None, event |-> None, id |-> None, told |-> None]

Init ==
    /\ claim = [session |-> None, superseded |-> None]
    /\ source = [s \in Sessions |-> None]
    /\ binding = [profile |-> 1, device |-> 1]
    /\ sessions = [s \in Sessions |-> None] /\ revoked = {} /\ outbox = << >>
    /\ calls = [c \in Callers |-> Idle] /\ leases = [w \in Workers \cup Callers |-> None]
    /\ sent = << >> /\ ended = {}
    /\ spent = [calls |-> 0, faults |-> 0]

\* A player claims a source for a new session, which supersedes the last one.
Claim(s, x) ==
    /\ source[s] = None
    /\ source' = [source EXCEPT ![s] = x]
    /\ claim' = [session |-> s, superseded |-> claim.session]
    /\ UNCHANGED <<binding, sessions, revoked, outbox, calls, leases, sent, ended, spent>>

Waiting(d) == d.status \in {"queued", "leased"}

\* Mutant: what a worker has leased is left to it.
WithdrawnIfQueued(which) ==
    [i \in DOMAIN outbox |-> IF i.session \in which /\ outbox[i].status = "queued"
                             THEN [outbox[i] EXCEPT !.status = "revoked"] ELSE outbox[i]]

\* A table with a row, a new one or another one under its name.
Put(table, i, row) == [j \in DOMAIN table \cup {i} |-> IF j = i THEN row ELSE table[j]]

\* The outbox after the dispatches of some sessions were revoked.
Withdrawn(which) ==
    [i \in DOMAIN outbox |-> IF i.session \in which /\ Waiting(outbox[i])
                             THEN [outbox[i] EXCEPT !.status = "revoked"] ELSE outbox[i]]

Ended(which) ==
    [s \in Sessions |-> IF s \in which /\ sessions[s] # None /\ sessions[s].state # "released"
                        THEN [sessions[s] EXCEPT !.state = "released", !.revision = @ + 1]
                        ELSE sessions[s]]

-----------------------------------------------------------------------------
(* Calls *)

Become(c, call) == calls' = [calls EXCEPT ![c] = call]
\* An answer other than that it was open, released or scrobbled says no.
Tell(c, answer) ==
    Become(c, IF answer = "no" THEN [Idle EXCEPT !.told = "no"]
              ELSE [Idle EXCEPT !.told = answer, !.target = calls[c].target, !.id = calls[c].id])

Begin(c, call) ==
    /\ calls[c].pc = "idle" /\ binding # None
    /\ spent.calls < MaxCalls /\ spent' = [spent EXCEPT !.calls = @ + 1]
    /\ Become(c, call)
    /\ UNCHANGED <<claim, source, binding, sessions, revoked, outbox, leases, sent, ended>>

\* bindClaim: the superseded session first.
BindClaim(c) ==
    /\ claim.session # None
    /\ Begin(c, [Idle EXCEPT !.pc = IF claim.superseded = None THEN "open" ELSE "read", !.op = "bind",
                             !.session = claim.session, !.target = claim.superseded,
                             !.binding = binding])

ReleaseSession(c, s) ==
    source[s] # None /\ Begin(c, [Idle EXCEPT !.pc = "read", !.op = "release", !.session = s,
                                              !.target = s, !.binding = binding])

\* Nothing to end: a release says so, a bind goes on.
NothingEnds(c) ==
    IF calls[c].op = "bind" THEN Become(c, [calls[c] EXCEPT !.pc = "open"]) ELSE Tell(c, "no")

ReadTarget(c) ==
    LET target == sessions[calls[c].target]
    IN  /\ calls[c].pc = "read"
        /\ IF target = None \/ target.binding # calls[c].binding \/ target.state = "released"
           THEN NothingEnds(c)
           ELSE Become(c, [calls[c] EXCEPT !.pc = "invalidate", !.seen = target])
        /\ UNCHANGED <<claim, source, binding, sessions, revoked, outbox, leases, sent, ended, spent>>

\* The session ends where it was seen, or is read again.
InvalidateSession(c) ==
    LET s == calls[c].target
    IN  /\ calls[c].pc = "invalidate"
        /\ IF sessions[s] = calls[c].seen
           THEN /\ sessions' = Ended({s}) /\ outbox' = Withdrawn({s})
                /\ Become(c, [calls[c] EXCEPT
                       !.pc = IF calls[c].op = "bind" THEN "open" ELSE "revoke", !.seen = None])
                /\ ended' = ended \cup {s}
           ELSE /\ Become(c, [calls[c] EXCEPT !.pc = "read", !.seen = None])
                /\ UNCHANGED <<sessions, outbox, ended>>
        /\ UNCHANGED <<claim, source, binding, revoked, leases, sent, spent>>

\* A release revokes the source of the session too, in another transaction.
InvalidateSource(c) ==
    LET x == source[calls[c].target]
        its == {s \in Sessions : source[s] = x}
    IN  /\ calls[c].pc = "revoke"
        /\ Tell(c, "released")
        /\ IF binding = None THEN UNCHANGED <<revoked, sessions, outbox>>
           ELSE /\ revoked' = revoked \cup {x}
                /\ sessions' = IF x \in revoked THEN sessions ELSE Ended(its)
                /\ outbox' = IF x \in revoked THEN outbox ELSE Withdrawn(its)
        /\ UNCHANGED <<claim, source, binding, leases, sent, ended, spent>>

\* Mutant: whether the source was revoked is not asked.
OpenableAnyway(c) ==
    /\ binding = calls[c].binding
    /\ sessions[calls[c].session] = None
       \/ /\ sessions[calls[c].session].binding = binding
          /\ sessions[calls[c].session].state = "playing"

\* A session may be opened, or found as it was opened.
Openable(c) ==
    /\ binding = calls[c].binding /\ source[calls[c].session] \notin revoked
    /\ sessions[calls[c].session] = None
       \/ /\ sessions[calls[c].session].binding = binding
          /\ sessions[calls[c].session].state = "playing"

OpenSession(c) ==
    LET s == calls[c].session
    IN  /\ calls[c].pc = "open"
        /\ IF Openable(c)
           THEN /\ sessions' = [sessions EXCEPT ![s] =
                       IF @ = None THEN [state |-> "playing", revision |-> 1, binding |-> binding]
                       ELSE @]
                /\ Tell(c, "open")
           ELSE Tell(c, "no") /\ UNCHANGED sessions
        /\ UNCHANGED <<claim, source, binding, revoked, outbox, leases, sent, ended, spent>>

-----------------------------------------------------------------------------
(* Events *)

State(event) ==
    CASE event \in {"start", "resume"} -> "playing"
      [] event = "pause" -> "paused"
      [] event = "background" -> "backgrounded"
      [] event = "stop" -> "released"

\* What _authoritativeTransition makes of an event of a player that last saw the
\* session at a revision, None when it does not say.
Suppressed(session, event, revision) ==
    CASE event = "start" -> session.state # "playing"
      [] event = "resume" -> session.state = "playing" \/ revision # session.revision
      [] event \in {"pause", "background"} ->
             revision \notin {None, session.revision} \/ session.state = State(event)
      [] event = "stop" -> FALSE

IsStale(session, event, revision) ==
    event = "stop" /\ revision \notin {None, session.revision}

\* The call has read its claim; what it was told of the session may be old.
Scrobble(c, event, revision) ==
    /\ claim.session # None
    /\ Begin(c, [Idle EXCEPT !.pc = "session", !.op = "scrobble", !.session = claim.session,
                             !.binding = binding, !.event = event, !.seen = revision])

ReadSession(c) ==
    LET q == calls[c]
        session == sessions[q.session]
    IN  /\ q.pc = "session"
        /\ IF session = None \/ session.binding # q.binding \/ session.state = "released"
              \/ Suppressed(session, q.event, q.seen) \/ IsStale(session, q.event, q.seen)
           THEN Tell(c, "no")
           ELSE Become(c, [q EXCEPT !.pc = "enqueue", !.seen = session,
                   !.id = [session |-> q.session, revision |-> session.revision,
                           event |-> q.event]])
        /\ UNCHANGED <<claim, source, binding, sessions, revoked, outbox, leases, sent, ended, spent>>

\* transitionAndEnqueue: the same dispatch again is found, another one under its
\* name is a conflict; the session must be as it was read and may move.
TransitionAndEnqueue(c) ==
    LET q == calls[c]
        s == q.session
        state == State(q.event)
        moves == sessions[s].state # state
        next == IF moves THEN [q.seen EXCEPT !.state = state, !.revision = @ + 1] ELSE q.seen
        row == [status |-> "queued", attempts |-> 0, moved |-> FALSE, ripe |-> TRUE,
                revision |-> next.revision, state |-> state, binding |-> q.binding]
    IN  /\ q.pc = "enqueue"
        /\ IF sessions[s] = None \/ sessions[s].binding # q.binding
           THEN Tell(c, "no") /\ UNCHANGED <<sessions, outbox>>
           ELSE IF q.id \in DOMAIN outbox
           THEN /\ IF outbox[q.id].revision = sessions[s].revision
                   THEN Become(c, [q EXCEPT !.pc = "deliver", !.seen = None])
                   ELSE Tell(c, "no")
                /\ UNCHANGED <<sessions, outbox>>
           ELSE IF sessions[s] # q.seen \/ binding # q.binding \/ source[s] \in revoked
           THEN Tell(c, "no") /\ UNCHANGED <<sessions, outbox>>
           ELSE /\ sessions' = [sessions EXCEPT ![s] = next]
                /\ outbox' = Put(IF moves THEN Withdrawn({s}) ELSE outbox, q.id, row)
                /\ Become(c, [q EXCEPT !.pc = "deliver", !.seen = None])
        /\ UNCHANGED <<claim, source, binding, revoked, leases, sent, ended, spent>>

-----------------------------------------------------------------------------
(* Delivery *)

\* A dispatch is of the session as it is.
Current(i) ==
    LET d == outbox[i]
        session == sessions[i.session]
    IN  /\ binding = d.binding /\ source[i.session] \notin revoked /\ session # None
        /\ session.binding = d.binding /\ session.revision = d.revision /\ session.state = d.state

ClaimDispatch(w, i) ==
    /\ leases[w] = None /\ (w \in Callers => calls[w].pc = "deliver")
    /\ Waiting(outbox[i]) /\ outbox[i].ripe /\ Current(i)
    /\ outbox' = [outbox EXCEPT ![i].status = "leased", ![i].ripe = FALSE, ![i].attempts = @ + 1]
    /\ leases' = [leases EXCEPT ![w] = [id |-> i, attempt |-> outbox[i].attempts + 1]]
    /\ UNCHANGED <<claim, source, binding, sessions, revoked, calls, sent, ended, spent>>

LeaseOf(w) ==
    /\ leases[w].id \in DOMAIN outbox
    /\ outbox[leases[w].id].status = "leased" /\ outbox[leases[w].id].attempts = leases[w].attempt

\* Mutant: a second claim is taken for a retry.
AmbiguousFromThird(d) == d.attempts > 2

\* An earlier claim may have reached Trakt: only a second one after a retry that
\* was written is safe.
Ambiguous(d) == d.attempts > 1 /\ ~(d.attempts = 2 /\ d.moved)

\* The end of a worker's dispatch; a call whose own it was is answered.
Done(w, answer) ==
    /\ leases' = [leases EXCEPT ![w] = None]
    /\ IF w \in Callers /\ calls[w].id = leases[w].id THEN Tell(w, answer) ELSE UNCHANGED calls

\* Another holds the dispatch by now, or nobody.
Lost(w) ==
    /\ leases[w] # None /\ ~LeaseOf(w)
    /\ Done(w, "no")
    /\ UNCHANGED <<claim, source, binding, sessions, revoked, outbox, sent, ended, spent>>

\* The admission finds that the lease ran out, or that the dispatch is of what
\* was; that it is revoked then is rolled back.
Late(w) ==
    /\ leases[w] # None /\ LeaseOf(w)
    /\ outbox[leases[w].id].ripe \/ ~Current(leases[w].id)
    /\ Done(w, "no")
    /\ UNCHANGED <<claim, source, binding, sessions, revoked, outbox, sent, ended, spent>>

Admitted(w) ==
    leases[w] # None /\ LeaseOf(w) /\ ~outbox[leases[w].id].ripe /\ Current(leases[w].id)

\* It is consumed without a call.
Consume(w) ==
    /\ Admitted(w) /\ Ambiguous(outbox[leases[w].id])
    /\ outbox' = [outbox EXCEPT ![leases[w].id].status = "delivered"]
    /\ Done(w, "no")
    /\ UNCHANGED <<claim, source, binding, sessions, revoked, sent, ended, spent>>

Called(i) == sent' = Put(sent, i, IF i \in DOMAIN sent THEN sent[i] + 1 ELSE 1)

\* Trakt is called, whatever it answers.
Deliver(w, answer) ==
    LET i == leases[w].id
    IN  /\ Admitted(w) /\ ~Ambiguous(outbox[i])
        /\ Called(i)
        /\ outbox' = [outbox EXCEPT ![i].status = "delivered"]
        /\ Done(w, answer)
        /\ UNCHANGED <<claim, source, binding, sessions, revoked, ended, spent>>

\* No credential, or a failure before anything was sent: it is due again later.
Retry(w) ==
    LET i == leases[w].id
    IN  /\ leases[w] # None /\ LeaseOf(w) /\ ~Ambiguous(outbox[i])
        /\ spent.faults < MaxFaults /\ spent' = [spent EXCEPT !.faults = @ + 1]
        /\ outbox' = [outbox EXCEPT ![i].status = "queued", ![i].moved = TRUE, ![i].ripe = FALSE]
        /\ Done(w, "no")
        /\ UNCHANGED <<claim, source, binding, sessions, revoked, sent, ended>>

\* A call that finds no more to claim reads what became of its own dispatch.
Settle(c) ==
    LET i == calls[c].id
    IN  /\ calls[c].pc = "deliver" /\ leases[c] = None
        /\ Tell(c, IF i \in DOMAIN outbox /\ outbox[i].status = "delivered"
                   THEN "scrobbled" ELSE "no")
        /\ UNCHANGED <<claim, source, binding, sessions, revoked, outbox, leases, sent, ended, spent>>

\* A process dies, between two transactions or in the middle of an admission.
Crash(w) ==
    /\ spent.faults < MaxFaults /\ spent' = [spent EXCEPT !.faults = @ + 1]
    /\ leases[w] # None \/ (w \in Callers /\ calls[w].pc # "idle")
    /\ leases' = [leases EXCEPT ![w] = None]
    /\ calls' = IF w \in Callers THEN [calls EXCEPT ![w] = Idle] ELSE calls
    /\ \/ UNCHANGED sent
       \/ Admitted(w) /\ ~Ambiguous(outbox[leases[w].id]) /\ Called(leases[w].id)
    /\ UNCHANGED <<claim, source, binding, sessions, revoked, outbox, ended>>

\* A retry is due, or the lease of one that is gone runs out.
Ripen(i) ==
    /\ Waiting(outbox[i]) /\ ~outbox[i].ripe
    /\ \A w \in Workers \cup Callers : leases[w] # None => leases[w].id # i
    /\ outbox' = [outbox EXCEPT ![i].ripe = TRUE]
    /\ UNCHANGED <<claim, source, binding, sessions, revoked, calls, leases, sent, ended, spent>>

\* A lease runs out under a worker.
Overrun(w) ==
    /\ leases[w] # None /\ LeaseOf(w) /\ ~outbox[leases[w].id].ripe
    /\ spent.faults < MaxFaults /\ spent' = [spent EXCEPT !.faults = @ + 1]
    /\ outbox' = [outbox EXCEPT ![leases[w].id].ripe = TRUE]
    /\ UNCHANGED <<claim, source, binding, sessions, revoked, calls, leases, sent, ended>>

-----------------------------------------------------------------------------
(* The owner *)

OfSessions == {s \in Sessions : sessions[s] # None}

\* The profile or the device gets a new generation, in the transaction that ends
\* the sessions of the old one.
InvalidateProfile ==
    /\ binding # None /\ binding.profile + binding.device <= MaxChanges
    /\ binding' = [binding EXCEPT !.profile = @ + 1]
    /\ outbox' = Withdrawn({s \in OfSessions : sessions[s].binding.profile <= binding.profile})
    /\ sessions' = Ended({s \in OfSessions : sessions[s].binding.profile <= binding.profile})
    /\ UNCHANGED <<claim, source, revoked, calls, leases, sent, ended, spent>>

InvalidateDevice ==
    /\ binding # None /\ binding.profile + binding.device <= MaxChanges
    /\ binding' = [binding EXCEPT !.device = @ + 1]
    /\ outbox' = Withdrawn({s \in OfSessions : sessions[s].binding.device <= binding.device})
    /\ sessions' = Ended({s \in OfSessions : sessions[s].binding.device <= binding.device})
    /\ UNCHANGED <<claim, source, revoked, calls, leases, sent, ended, spent>>

EraseProfile ==
    /\ binding # None /\ binding' = None
    /\ sessions' = [s \in Sessions |-> None] /\ outbox' = << >> /\ revoked' = {}
    /\ UNCHANGED <<claim, source, calls, leases, sent, ended, spent>>

Revisions == {None} \cup UNION {1..sessions[s].revision : s \in OfSessions}

Next ==
    \/ \E s \in Sessions, x \in Sources : Claim(s, x)
    \/ \E c \in Callers :
           \/ BindClaim(c) \/ \E s \in Sessions : ReleaseSession(c, s)
           \/ \E event \in Events, revision \in Revisions : Scrobble(c, event, revision)
           \/ ReadTarget(c) \/ InvalidateSession(c) \/ InvalidateSource(c) \/ OpenSession(c)
           \/ ReadSession(c) \/ TransitionAndEnqueue(c) \/ Settle(c)
    \/ \E w \in Workers \cup Callers :
           \/ \E i \in DOMAIN outbox : ClaimDispatch(w, i)
           \/ Lost(w) \/ Late(w) \/ Consume(w) \/ Retry(w) \/ Overrun(w) \/ Crash(w)
           \/ \E answer \in {"scrobbled", "no"} : Deliver(w, answer)
    \/ \E i \in DOMAIN outbox : Ripen(i)
    \/ InvalidateProfile \/ InvalidateDevice \/ EraseProfile

Spec == Init /\ [][Next]_vars

-----------------------------------------------------------------------------
\* What waits to be sent is of its session as it is: no call, release or change
\* of the owner leaves behind a dispatch of what was
\* (_transitionLockedInTransaction, invalidateSession, invalidateDevice).
WaitingIsCurrent == \A i \in DOMAIN outbox : Waiting(outbox[i]) => Current(i)

\* Trakt is called once at most for a dispatch, and a call that answers that its
\* event was scrobbled has a dispatch that is over, however calls, workers, lost
\* leases and repeated events mix (_isRecoveredAmbiguousLease, _deliverInline).
ScrobbledOnce ==
    /\ \A i \in DOMAIN sent : sent[i] <= 1
    /\ \A c \in Callers : calls[c].told = "scrobbled" /\ binding # None =>
           outbox[calls[c].id].status = "delivered"

\* A session that was ended stays so, and with it, once its release was
\* answered, every session of the same source (invalidateSession,
\* invalidateSourceClaim, openSession).
EndedStays ==
    /\ \A s \in ended : sessions[s] # None => sessions[s].state = "released"
    /\ \A c \in Callers : calls[c].told = "released" /\ binding # None =>
           \A s \in OfSessions : source[s] = source[calls[c].target] =>
               sessions[s].state = "released"
=============================================================================
