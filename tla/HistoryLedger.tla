--------------------------- MODULE HistoryLedger ---------------------------
(***************************************************************************)
(* The rows of one profile behind the playback history, and the            *)
(* transactions on them.                                                   *)
(*                                                                         *)
(* A playback claim reserves a grant, which finalization makes active and  *)
(* which a terminal event releases.  A canonical grant has a playback      *)
(* session, and each of its events leaves a dispatch for Trakt in the      *)
(* outbox.  Every transaction but Abandon and prune starts by locking the  *)
(* row of the profile, so the modules that use this one guard them by      *)
(* that lock.                                                              *)
(***************************************************************************)
EXTENDS Integers

CONSTANTS
    None,           \* no grant, no row
    Grants,         \* one per playback claim, with its session
    Keys,           \* the idempotency keys of the events of a grant
    Events,         \* the kinds of events that are sent
    Kinds,          \* the kinds of grants that claims lead to
    MaxGeneration   \* bound: the history is cleared less often than this

AllEvents == {"start", "progress", "resume", "pause", "background", "stop", "completion"}

ASSUME LedgerAssumption ==
    /\ None \notin Grants
    /\ Events \subseteq AllEvents
    /\ Kinds \subseteq {"canonical", "local", "negative"}
    /\ MaxGeneration \in Nat \ {0}

VARIABLES
    profile,    \* the generation of the history, and whether the device is still bound
    grants,     \* the row of each grant
    replaced,   \* the session that replaced each session (kind 'supersession')
    sessions,   \* the playback session of each canonical grant
    receipts,   \* the answered events of each grant
    outbox,     \* the dispatch of each event
    history     \* how often each event was merged into the rows of the history

ledgerVars == <<profile, grants, replaced, sessions, receipts, outbox, history>>

NoGrant == [status |-> "none", kind |-> None, generation |-> 0, state |-> "none",
            revision |-> 0, terminal |-> None]

NoSession == [state |-> "none", revision |-> 0]

NoDispatch == [status |-> "none", event |-> "none", state |-> "none", revision |-> 0,
               generation |-> 0, attempts |-> 0, moved |-> FALSE, ripe |-> FALSE]

Ids == Grants \X Keys

NoHistory == [id \in Ids |-> 0]

LedgerInit ==
    /\ profile = [generation |-> 1, bound |-> TRUE]
    /\ grants = [g \in Grants |-> NoGrant]
    /\ replaced = [g \in Grants |-> None]
    /\ sessions = [g \in Grants |-> NoSession]
    /\ receipts = [g \in Grants |-> [k \in Keys |-> "none"]]
    /\ outbox = [g \in Grants |-> [k \in Keys |-> NoDispatch]]
    /\ history = NoHistory

\* The binding that a grant was reserved under is still the profile's.
BindingCurrent(g) == profile.bound /\ grants[g].generation = profile.generation

GrantCurrent(g) ==
    /\ BindingCurrent(g)
    /\ grants[g].status \notin {"none", "revoked", "superseded"}
    /\ replaced[g] = None

Waiting(d) == d.status \in {"queued", "leased"}

\* Mutant: a dispatch that a worker has leased is left to it.
WithdrawnIfQueued(d) ==
    IF d.status = "queued" THEN [d EXCEPT !.status = "revoked", !.ripe = FALSE] ELSE d

Withdrawn(d) == IF Waiting(d) THEN [d EXCEPT !.status = "revoked", !.ripe = FALSE] ELSE d

\* Mutant: only a session that plays is ended.
EndedIfPlaying(s) ==
    IF s.state # "playing" THEN s ELSE [state |-> "released", revision |-> s.revision + 1]

Ended(s) ==
    IF s.state \in {"none", "released"} THEN s
    ELSE [state |-> "released", revision |-> s.revision + 1]

-----------------------------------------------------------------------------
(* A claim: reservation, finalization and what ends a reservation.           *)

Reserve(g) ==
    /\ grants[g].status = "none"
    /\ profile.bound
    /\ grants' = [grants EXCEPT ![g] = [NoGrant EXCEPT !.status = "reserved",
                                                       !.generation = profile.generation]]
    /\ UNCHANGED <<profile, replaced, sessions, receipts, outbox, history>>

\* What _supersedeInTransaction makes of the rows of session s.
Retired(s) ==
    [grant |-> [grants[s] EXCEPT !.status = "superseded"],
     session |-> Ended(sessions[s]),
     outbox |-> [k \in Keys |-> Withdrawn(outbox[s][k])]]

\* Finalization makes grant g active, and ends the session s that its claim
\* replaced, unless another claim has replaced s already.
Finalize(g, kind, s) ==
    LET retired == s # None /\ grants[s].status # "none"
        Row(table, row) == IF retired THEN [table EXCEPT ![s] = row] ELSE table
        active == [grants[g] EXCEPT !.status = "active", !.kind = kind,
                                    !.state = "playing", !.revision = 1]
    IN /\ grants[g].status = "reserved"
       /\ GrantCurrent(g)
       /\ s # None => s # g /\ replaced[s] = None /\ kind # "negative"
       /\ grants' = [Row(grants, Retired(s).grant) EXCEPT ![g] = active]
       /\ sessions' = [Row(sessions, Retired(s).session) EXCEPT
                          ![g] = IF kind = "canonical"
                                 THEN [state |-> "playing", revision |-> 1] ELSE @]
       /\ outbox' = Row(outbox, Retired(s).outbox)
       /\ replaced' = IF s = None THEN replaced ELSE [replaced EXCEPT ![s] = g]
       /\ UNCHANGED <<profile, receipts, history>>

\* A failed claim, or the time of the reservation, ends a reservation.
Abandon(g) ==
    /\ grants[g].status = "reserved"
    /\ grants' = [grants EXCEPT ![g].status = "revoked"]
    /\ UNCHANGED <<profile, replaced, sessions, receipts, outbox, history>>

-----------------------------------------------------------------------------
(* An event of a player.                                                     *)

Terminal(e) == e \in {"stop", "completion"}

StateFor(e) ==
    CASE e = "pause" -> "paused"
      [] e = "background" -> "backgrounded"
      [] Terminal(e) -> "released"
      [] OTHER -> "playing"

\* A periodic event that was under way when the playback was paused.
Suppressed(g, e) ==
    /\ grants[g].state \in {"paused", "backgrounded"}
    /\ e \in {"start", "progress"}

NextRevision(g, e) ==
    IF StateFor(e) = grants[g].state THEN grants[g].revision ELSE grants[g].revision + 1

\* The session of a canonical grant still is where the grant is.
SessionMatches(g) ==
    /\ sessions[g].state = grants[g].state
    /\ sessions[g].revision = grants[g].revision

\* Mutant: the receipts are read only once the grant is released.
FreshUnlessReleased(g, k) ==
    /\ GrantCurrent(g)
    /\ grants[g].status = "active"

\* An event is new while the grant is active, and no event with its key has
\* been answered.
Fresh(g, k) ==
    /\ GrantCurrent(g)
    /\ grants[g].status = "active"
    /\ receipts[g][k] = "none"

\* The outbox knows neither progress nor background.
DispatchEvent(e) ==
    CASE e = "progress" -> "start"
      [] e = "background" -> "pause"
      [] OTHER -> e

Dispatch(g, e) ==
    [status |-> "queued", event |-> DispatchEvent(e), state |-> StateFor(e),
     revision |-> NextRevision(g, e), generation |-> grants[g].generation,
     attempts |-> 0, moved |-> FALSE, ripe |-> TRUE]

Enqueue(g, k, e) ==
    IF grants[g].kind # "canonical" THEN UNCHANGED <<sessions, outbox>>
    ELSE /\ SessionMatches(g)
         /\ sessions' = [sessions EXCEPT ![g] = [state |-> StateFor(e),
                                                 revision |-> NextRevision(g, e)]]
         /\ outbox' = [outbox EXCEPT ![g][k] = Dispatch(g, e)]

Merge(g, k) ==
    IF grants[g].kind = "negative" THEN history ELSE [history EXCEPT ![<<g, k>>] = @ + 1]

\* Event e with key k, sent by a player that knew revision r.
ApplyEvent(g, k, e, r) ==
    /\ Fresh(g, k)
    /\ r = grants[g].revision
    /\ receipts' = [receipts EXCEPT ![g][k] = e]
    /\ IF Suppressed(g, e) THEN UNCHANGED <<grants, sessions, outbox, history>>
       ELSE /\ Enqueue(g, k, e)
            /\ history' = Merge(g, k)
            /\ grants' = [grants EXCEPT
                   ![g].state = StateFor(e),
                   ![g].revision = NextRevision(g, e),
                   ![g].status = IF Terminal(e) THEN "released" ELSE @,
                   ![g].terminal = IF Terminal(e) THEN k ELSE @]
    /\ UNCHANGED <<profile, replaced>>

-----------------------------------------------------------------------------
(* What takes grants away.                                                   *)

\* The response of a claim did not reach the player.
RevokeSession(g) ==
    /\ grants[g].status \notin {"none", "revoked"}
    /\ grants' = [grants EXCEPT ![g].status = "revoked"]
    /\ outbox' = [outbox EXCEPT ![g] = [k \in Keys |-> Withdrawn(@[k])]]
    /\ sessions' = [sessions EXCEPT ![g] = Ended(@)]
    /\ UNCHANGED <<profile, replaced, receipts, history>>

OfGeneration(g) == grants[g].status # "none" /\ grants[g].generation = profile.generation

ClearHistory ==
    /\ profile.generation < MaxGeneration
    /\ profile' = [profile EXCEPT !.generation = @ + 1]
    /\ history' = NoHistory
    /\ grants' = [g \in Grants |->
                     IF OfGeneration(g) THEN [grants[g] EXCEPT !.status = "revoked"]
                     ELSE grants[g]]
    /\ outbox' = [g \in Grants |-> [k \in Keys |->
                     IF outbox[g][k].generation = profile.generation
                     THEN Withdrawn(outbox[g][k]) ELSE outbox[g][k]]]
    /\ sessions' = [g \in Grants |-> Ended(sessions[g])]
    /\ UNCHANGED <<replaced, receipts>>

\* The device loses its binding; its grants keep their status.
RevokeDevice ==
    /\ profile.bound
    /\ profile' = [profile EXCEPT !.bound = FALSE]
    /\ outbox' = [g \in Grants |-> [k \in Keys |-> Withdrawn(outbox[g][k])]]
    /\ sessions' = [g \in Grants |-> Ended(sessions[g])]
    /\ UNCHANGED <<grants, replaced, receipts, history>>
=============================================================================
