--------------------------- MODULE ScrobbleOutbox ---------------------------
(***************************************************************************)
(* The workers that carry the outbox to Trakt, next to the players, claims *)
(* and owners that change the ledger under them.                           *)
(*                                                                         *)
(* A worker leases a dispatch, finds a credential, and calls Trakt inside  *)
(* the transaction that admits the dispatch: until that transaction ends,  *)
(* or its connection is lost, no other transaction gets the profile's row. *)
(* The clock is not modelled: a queued dispatch falls due, and a lease     *)
(* runs out, at any time after they were given.                            *)
(***************************************************************************)
EXTENDS HistoryLedger

CONSTANTS
    Workers,        \* the processes of the Bridge that run a worker
    MaxBreaks,      \* bound: connections lost and processes crashed
    MaxAttempts     \* bound: leases that run out under a working worker

ASSUME OutboxAssumption ==
    /\ None \notin Workers
    /\ MaxBreaks \in Nat /\ MaxAttempts \in Nat

VARIABLES
    workers,    \* where each worker is, with the dispatch and the lease it holds
    holder,     \* the worker whose transaction holds the row of the profile
    sent,       \* how many requests left for Trakt for each dispatch
    breaks      \* connections lost and crashes so far

vars == <<ledgerVars, workers, holder, sent, breaks>>

At(id) == outbox[id[1]][id[2]]

Put(id, d) == outbox' = [outbox EXCEPT ![id[1]][id[2]] = d]

Idle == [pc |-> "idle", id |-> None, attempt |-> 0]

Init ==
    /\ LedgerInit
    /\ workers = [w \in Workers |-> Idle]
    /\ holder = None
    /\ sent = [id \in Ids |-> 0]
    /\ breaks = 0

Goto(w, pc) == workers' = [workers EXCEPT ![w].pc = pc]

Rest(w) == workers' = [workers EXCEPT ![w] = Idle]

restOfLedger == <<profile, grants, replaced, sessions, receipts, history>>

\* What a dispatch was made under still holds.
Admissible(id) ==
    LET d == At(id)
        s == sessions[id[1]]
    IN /\ profile.bound
       /\ d.generation = profile.generation
       /\ s.revision = d.revision
       /\ s.state = d.state

\* The worker's lease is the last one given, and has not run out.
LeaseOf(w) ==
    LET d == At(workers[w].id)
    IN d.status = "leased" /\ d.attempts = workers[w].attempt

Locked(id) == holder # None /\ workers[holder].id = id

-----------------------------------------------------------------------------
(* A worker's pass.                                                          *)

\* Mutant: every second claim is taken for a retry.
AmbiguousFromThird(d, attempt) == attempt > 2

\* A lease that ran out may have reached Trakt; a second claim is safe only
\* after the first put the dispatch off.
Ambiguous(d, attempt) == attempt > 1 /\ ~(attempt = 2 /\ d.moved)

Claim(w, id) ==
    LET d == At(id)
        attempt == d.attempts + 1
    IN /\ workers[w].pc = "idle"
       /\ Waiting(d) /\ d.ripe
       /\ Admissible(id)
       /\ ~Locked(id)
       /\ Put(id, [d EXCEPT !.status = "leased", !.attempts = attempt, !.ripe = FALSE])
       /\ workers' = [workers EXCEPT ![w] =
                         [pc |-> IF Ambiguous(d, attempt) THEN "ambiguous" ELSE "claimed",
                          id |-> id, attempt |-> attempt]]
       /\ UNCHANGED <<restOfLedger, holder, sent, breaks>>

\* What withDispatchAdmission asks before it runs the operation.
Admitted(w) == LeaseOf(w) /\ ~At(workers[w].id).ripe /\ Admissible(workers[w].id)

Delivered(id) == Put(id, [At(id) EXCEPT !.status = "delivered", !.ripe = FALSE])

\* A dispatch that may have reached Trakt is consumed without a call.
Consume(w) ==
    /\ workers[w].pc = "ambiguous" /\ holder = None
    /\ IF Admitted(w) THEN Delivered(workers[w].id) ELSE UNCHANGED outbox
    /\ Rest(w)
    /\ UNCHANGED <<restOfLedger, holder, sent, breaks>>

\* The credential of the profile, or the refusal to give one.
Resolve(w) ==
    /\ workers[w].pc = "claimed"
    /\ \E pc \in {"ready", "retrying"} : Goto(w, pc)
    /\ UNCHANGED <<ledgerVars, holder, sent, breaks>>

\* The revocation of a dispatch that is not admitted is rolled back by the error
\* that reports it.
Admit(w) ==
    /\ workers[w].pc = "ready" /\ holder = None
    /\ IF Admitted(w) THEN Goto(w, "calling") /\ holder' = w
       ELSE Rest(w) /\ UNCHANGED holder
    /\ UNCHANGED <<ledgerVars, sent, breaks>>

\* What Trakt is asked to do.
Action(event) ==
    CASE event \in {"start", "resume"} -> "start"
      [] event = "pause" -> "pause"
      [] event \in {"stop", "completion"} -> "stop"

Issue(w) ==
    /\ workers[w].pc = "calling"
    /\ sent' = [sent EXCEPT ![workers[w].id] = @ + 1]
    /\ Goto(w, "called")
    /\ UNCHANGED <<ledgerVars, holder, breaks>>

\* An error that may have come after the request left.
Fail(w) ==
    /\ workers[w].pc = "calling"
    /\ Goto(w, "called")
    /\ UNCHANGED <<ledgerVars, holder, sent, breaks>>

Release(w) == holder' = IF holder = w THEN None ELSE holder

\* The request provably did not leave: the name did not resolve, or the
\* connection was refused.
Refuse(w) ==
    /\ workers[w].pc = "calling"
    /\ Goto(w, "retrying")
    /\ Release(w)
    /\ UNCHANGED <<ledgerVars, sent, breaks>>

\* The admission commits, unless its connection is gone.
Settle(w) ==
    /\ workers[w].pc = "called"
    /\ IF holder = w /\ LeaseOf(w) THEN Delivered(workers[w].id) ELSE UNCHANGED outbox
    /\ Release(w)
    /\ Rest(w)
    /\ UNCHANGED <<restOfLedger, sent, breaks>>

PutOff(d) == [d EXCEPT !.status = "queued", !.moved = TRUE, !.ripe = FALSE]

RetryDispatch(w) ==
    LET d == At(workers[w].id)
    IN /\ workers[w].pc = "retrying" /\ holder = None
       /\ IF ~LeaseOf(w) THEN UNCHANGED outbox
          ELSE Put(workers[w].id, IF d.generation = profile.generation THEN PutOff(d)
                                  ELSE Withdrawn(d))
       /\ Rest(w)
       /\ UNCHANGED <<restOfLedger, holder, sent, breaks>>

-----------------------------------------------------------------------------
(* Time and failure.                                                         *)

\* Mutant: a lease does not run out.
RipenQueued(id) ==
    /\ At(id).status = "queued" /\ ~At(id).ripe
    /\ Put(id, [At(id) EXCEPT !.ripe = TRUE])
    /\ UNCHANGED <<restOfLedger, workers, holder, sent, breaks>>

\* next_attempt_at, or the end of the lease, is reached.
Ripen(id) ==
    LET d == At(id)
        worked == \E w \in Workers : workers[w].id = id /\ workers[w].attempt = d.attempts
    IN /\ Waiting(d) /\ ~d.ripe
       /\ (d.status = "leased" /\ worked) => d.attempts < MaxAttempts
       /\ Put(id, [d EXCEPT !.ripe = TRUE])
       /\ UNCHANGED <<restOfLedger, workers, holder, sent, breaks>>

\* The connection of an admission is lost while Trakt is called: PostgreSQL
\* rolls back, and the worker learns of it when it settles.
LoseConnection ==
    /\ holder # None /\ breaks < MaxBreaks
    /\ holder' = None
    /\ breaks' = breaks + 1
    /\ UNCHANGED <<ledgerVars, workers, sent>>

Crash(w) ==
    /\ workers[w].pc # "idle" /\ breaks < MaxBreaks
    /\ Release(w)
    /\ Rest(w)
    /\ breaks' = breaks + 1
    /\ UNCHANGED <<ledgerVars, sent>>

-----------------------------------------------------------------------------
(* The others' transactions, each of which waits for the row of the profile. *)

\* Mutant: the admission does not keep the row of the profile locked.
Unheld == TRUE

Unlocked == holder = None

Play(g, k, e) == \E r \in 1..grants[g].revision : ApplyEvent(g, k, e, r)

Player ==
    /\ Unlocked
    /\ \E g \in Grants :
          \/ Reserve(g)
          \/ \E kind \in Kinds, s \in Grants \cup {None} : Finalize(g, kind, s)
          \/ \E k \in Keys, e \in Events : Play(g, k, e)
          \/ RevokeSession(g)
    /\ UNCHANGED <<workers, holder, sent, breaks>>

\* prune locks no profile.
Expire ==
    /\ \E g \in Grants : Abandon(g)
    /\ UNCHANGED <<workers, holder, sent, breaks>>

Owner ==
    /\ Unlocked
    /\ ClearHistory \/ RevokeDevice
    /\ UNCHANGED <<workers, holder, sent, breaks>>

WorkerStep(w) ==
    \/ Consume(w) \/ Resolve(w) \/ Admit(w) \/ Issue(w) \/ Fail(w) \/ Refuse(w)
    \/ Settle(w) \/ RetryDispatch(w)

Next ==
    \/ Player \/ Expire \/ Owner
    \/ \E w \in Workers : WorkerStep(w) \/ Crash(w)
    \/ \E w \in Workers, id \in Ids : Claim(w, id)
    \/ \E id \in Ids : Ripen(id)
    \/ LoseConnection

Spec == Init /\ [][Next]_vars

\* Workers run, on a timer, in a process that is restarted; time passes.
Fairness ==
    /\ \A w \in Workers : WF_vars(WorkerStep(w))
    /\ \A id \in Ids : WF_vars(\E w \in Workers : Claim(w, id)) /\ WF_vars(Ripen(id))

FairSpec == Spec /\ Fairness

-----------------------------------------------------------------------------
(* Properties.                                                               *)

States == {"none", "playing", "paused", "backgrounded", "released"}

SessionType == [state : States, revision : Nat]

GrantType ==
    [status : {"none", "reserved", "active", "released", "revoked", "superseded"},
     kind : Kinds \cup {None}, generation : Nat, state : States, revision : Nat,
     terminal : Keys \cup {None}]

DispatchType ==
    [status : {"none", "queued", "leased", "delivered", "revoked"},
     event : {"none", "start", "resume", "pause", "stop", "completion"}, state : States,
     revision : Nat, generation : Nat, attempts : Nat, moved : BOOLEAN, ripe : BOOLEAN]

WorkerType ==
    [pc : {"claimed", "ambiguous", "ready", "calling", "called", "retrying"},
     id : Ids, attempt : Nat]

LedgerType ==
    /\ profile \in [generation : 1..MaxGeneration, bound : BOOLEAN]
    /\ grants \in [Grants -> GrantType]
    /\ replaced \in [Grants -> Grants \cup {None}]
    /\ sessions \in [Grants -> SessionType]
    /\ receipts \in [Grants -> [Keys -> Events \cup {"none"}]]
    /\ outbox \in [Grants -> [Keys -> DispatchType]]
    /\ \A g \in Grants, k \in Keys : outbox[g][k].ripe => Waiting(outbox[g][k])
    /\ history \in [Ids -> Nat]

\* Every variable keeps its type, and an outbox row is due or overdue only while
\* it waits, as the lease columns of scrobble_dispatches demand.
TypeOK ==
    /\ LedgerType
    /\ workers \in [Workers -> {Idle} \cup WorkerType]
    /\ holder \in Workers \cup {None}
    /\ sent \in [Ids -> Nat]
    /\ breaks \in 0..MaxBreaks

\* A dispatch leaves for Trakt at most once, whatever leases run out, processes
\* crash and connections are lost: the rule of a second claim
\* (_isRecoveredAmbiguousLease) never sends what may have been sent.
SentOnce == \A id \in Ids : sent[id] <= 1

\* An event is merged into the history once however often its player sends it,
\* what the owner cleared stays cleared, and an event of a canonical grant is
\* in the history of its generation exactly when it is in the outbox.
AppliedOnce ==
    \A id \in Ids :
        /\ history[id] <= 1
        /\ history[id] = 1 =>
              /\ grants[id[1]].generation = profile.generation
              /\ grants[id[1]].kind = "canonical" => At(id).status # "none"
        /\ At(id).generation = profile.generation => history[id] = 1

\* The rows of a grant and of its session are moved by different repositories
\* and agree: an active grant of a bound device is where its session is, and a
\* grant that ended left no session playing.
GrantsMatchSessions ==
    \A g \in Grants :
        /\ grants[g].status = "active" /\ grants[g].kind = "canonical" /\ profile.bound =>
              SessionMatches(g)
        /\ grants[g].status \in {"released", "revoked", "superseded"} =>
              sessions[g].state \in {"none", "released"}

\* What a worker may still carry to Trakt is authorized: nothing of a grant
\* that was revoked, replaced or cleared is left to be admitted.  The admission
\* itself never looks at the grants.
AdmissibleIsAuthorized ==
    \A id \in Ids :
        Waiting(At(id)) /\ Admissible(id) =>
            /\ GrantCurrent(id[1])
            /\ grants[id[1]].status \in {"active", "released"}
            /\ grants[id[1]].state = At(id).state

\* The rows of a grant, of its session and of its dispatches say the same of it.
RowsAgree == GrantsMatchSessions /\ AdmissibleIsAuthorized

\* What the requests of Trakt say of a playback.
Says(action) ==
    CASE action = "start" -> {"playing"}
      [] action = "pause" -> {"paused", "backgrounded"}
      [] action = "stop" -> {"released"}

\* While its admission lasts, a request leaves under the state of the playback
\* that it reports: no pause, end, revocation or clearing comes between.
SentWhileCurrent ==
    [][\A w \in Workers :
          LET id == workers[w].id
          IN holder = w /\ Issue(w) =>
                /\ Admissible(id) /\ LeaseOf(w)
                /\ sessions[id[1]].state \in Says(Action(At(id).event))]_vars

\* A dispatch that waits and reports where the playback still is.
Reports(id) == Waiting(At(id)) /\ Admissible(id)

\* A dispatch that reports where the playback still is does not wait for ever:
\* it is delivered or withdrawn, or the playback moves on.
CurrentSettles == \A id \in Ids : Reports(id) ~> ~Reports(id)
=============================================================================
