------------------------ MODULE ScrobbleOutboxProofs ------------------------
(***************************************************************************)
(* A dispatch leaves for Trakt at most once.                               *)
(*                                                                         *)
(* SentOnce is not inductive.  LeaseInv adds which worker may still send:  *)
(* claims are numbered, a worker that may send holds the first claim, or   *)
(* the second of a dispatch that was put off, and a dispatch that was put  *)
(* off has nobody left on its first claim.                                 *)
(***************************************************************************)
EXTENDS ScrobbleOutbox, TLAPS

\* The workers that may still send a dispatch, or put it off.
MaySend == {"claimed", "ready", "calling"}

Unambiguous == MaySend \cup {"called", "retrying"}

Numbered ==
    \A w \in Workers :
        workers[w].pc # "idle" =>
            /\ workers[w].id \in Ids
            /\ workers[w].attempt \in 1..At(workers[w].id).attempts

OneWorkerPerClaim ==
    \A v, w \in Workers :
        /\ workers[v].pc # "idle" /\ workers[w].pc # "idle"
        /\ workers[v].id = workers[w].id /\ workers[v].attempt = workers[w].attempt
        => v = w

SecondOnlyIfMoved ==
    \A w \in Workers :
        workers[w].pc \in Unambiguous =>
            \/ workers[w].attempt = 1
            \/ workers[w].attempt = 2 /\ At(workers[w].id).moved

MovedLeavesNobody ==
    /\ \A id \in Ids : At(id).moved => At(id).attempts > 0
    /\ \A w \in Workers :
          workers[w].pc # "idle" /\ At(workers[w].id).moved => workers[w].attempt > 1

Untouched ==
    \A g \in Grants, k \in Keys : receipts[g][k] = "none" => outbox[g][k] = NoDispatch

SentIsSpent ==
    \A id \in Ids :
        sent[id] # 0 =>
            /\ sent[id] = 1
            /\ At(id).attempts > 0
            /\ ~(At(id).attempts = 1 /\ At(id).moved)
            /\ \A w \in Workers :
                  workers[w].pc # "idle" /\ workers[w].id = id =>
                      /\ workers[w].pc \notin MaySend
                      /\ ~(workers[w].pc = "retrying" /\ workers[w].attempt = 1)

LeaseInv ==
    /\ Numbered /\ OneWorkerPerClaim /\ SecondOnlyIfMoved /\ MovedLeavesNobody
    /\ Untouched /\ SentIsSpent

-----------------------------------------------------------------------------
(* Types, and what a step of the ledger leaves to the workers.               *)

Statuses == {"none", "reserved", "active", "released", "revoked", "superseded"}

\* No claim is given, and none is forgotten.
KeepsClaims ==
    \A g \in Grants, k \in Keys :
        /\ outbox'[g][k].attempts = outbox[g][k].attempts
        /\ outbox'[g][k].moved = outbox[g][k].moved

LEMMA IdParts ==
    ASSUME NEW id \in Ids
    PROVE  id = <<id[1], id[2]>> /\ id[1] \in Grants /\ id[2] \in Keys
  BY DEF Ids

LEMMA PutRow ==
    ASSUME LedgerType, NEW id \in Ids, NEW d \in DispatchType, Put(id, d),
           d.ripe => Waiting(d)
    PROVE  /\ outbox' \in [Grants -> [Keys -> DispatchType]]
           /\ \A g \in Grants, k \in Keys : outbox'[g][k].ripe => Waiting(outbox'[g][k])
           /\ \A g \in Grants, k \in Keys :
                 outbox'[g][k] = IF <<g, k>> = id THEN d ELSE outbox[g][k]
<1>1. outbox' \in [Grants -> [Keys -> DispatchType]]
  BY IdParts DEF LedgerType, Put
<1>2. ASSUME NEW g \in Grants, NEW k \in Keys
      PROVE  outbox'[g][k] = IF <<g, k>> = id THEN d ELSE outbox[g][k]
  BY IdParts DEF LedgerType, Put
<1>3. \A g \in Grants, k \in Keys : outbox'[g][k].ripe => Waiting(outbox'[g][k])
  BY <1>2 DEF LedgerType
<1> QED BY <1>1, <1>2, <1>3

LEMMA WithdrawnRow ==
    ASSUME NEW d \in DispatchType, d.ripe => Waiting(d)
    PROVE  /\ Withdrawn(d) \in DispatchType
           /\ Withdrawn(d).ripe => Waiting(Withdrawn(d))
           /\ Withdrawn(d).attempts = d.attempts /\ Withdrawn(d).moved = d.moved
           /\ d = NoDispatch => Withdrawn(d) = NoDispatch
<1>1. Withdrawn(d) \in DispatchType
  BY DEF Withdrawn, Waiting, DispatchType
<1>2. Withdrawn(d).ripe => Waiting(Withdrawn(d))
  BY DEF Withdrawn, Waiting, DispatchType
<1>3. Withdrawn(d).attempts = d.attempts /\ Withdrawn(d).moved = d.moved
  BY DEF Withdrawn, Waiting, DispatchType
<1>4. Withdrawn(NoDispatch) = NoDispatch
  BY DEF Withdrawn, Waiting, NoDispatch
<1> QED BY <1>1, <1>2, <1>3, <1>4

\* The rows of the outbox, some of which a transaction withdraws.
OnlyWithdraws ==
    /\ outbox' \in [Grants -> [Keys -> DispatchType]]
    /\ \A g \in Grants, k \in Keys : outbox'[g][k].ripe => Waiting(outbox'[g][k])
    /\ Untouched' /\ KeepsClaims

LEMMA WithdrawnRows ==
    ASSUME LedgerType, Untouched, receipts' = receipts,
           outbox' = [g \in Grants |-> [k \in Keys |-> outbox'[g][k]]],
           \A g \in Grants, k \in Keys : outbox'[g][k] \in {outbox[g][k], Withdrawn(outbox[g][k])}
    PROVE  OnlyWithdraws
<1>1. ASSUME NEW g \in Grants, NEW k \in Keys
      PROVE  /\ outbox'[g][k] \in DispatchType
             /\ outbox'[g][k].ripe => Waiting(outbox'[g][k])
             /\ outbox'[g][k].attempts = outbox[g][k].attempts
             /\ outbox'[g][k].moved = outbox[g][k].moved
             /\ outbox[g][k] = NoDispatch => outbox'[g][k] = NoDispatch
  <2>1. outbox[g][k] \in DispatchType /\ (outbox[g][k].ripe => Waiting(outbox[g][k]))
    BY DEF LedgerType
  <2> QED BY <2>1, WithdrawnRow
<1>2. outbox' \in [Grants -> [Keys -> DispatchType]]
  BY <1>1
<1> QED BY <1>1, <1>2 DEF OnlyWithdraws, KeepsClaims, Untouched

LEMMA GrantRow ==
    ASSUME NEW grant \in GrantType, NEW status \in Statuses
    PROVE  [grant EXCEPT !.status = status] \in GrantType
  BY DEF GrantType, Statuses

LEMMA RowTypes ==
    ASSUME LedgerType, NEW g \in Grants
    PROVE  grants[g] \in GrantType /\ sessions[g] \in SessionType
  BY DEF LedgerType

LEMMA EndedSession ==
    ASSUME NEW s \in SessionType
    PROVE  Ended(s) \in SessionType
  BY DEF Ended, SessionType, States

LEMMA ReserveStep ==
    ASSUME LedgerType, Untouched, NEW g \in Grants, Reserve(g)
    PROVE  LedgerType' /\ Untouched' /\ KeepsClaims
<1>1. profile.generation \in Nat
  BY DEF LedgerType
<1>2. [NoGrant EXCEPT !.status = "reserved", !.generation = profile.generation] \in GrantType
  BY <1>1 DEF GrantType, NoGrant, States
<1>3. grants' \in [Grants -> GrantType]
  BY <1>2 DEF LedgerType, Reserve
<1> QED BY <1>3 DEF LedgerType, Reserve, Untouched, KeepsClaims

LEMMA AbandonStep ==
    ASSUME LedgerType, Untouched, NEW g \in Grants, Abandon(g)
    PROVE  LedgerType' /\ Untouched' /\ KeepsClaims
<1>1. [grants[g] EXCEPT !.status = "revoked"] \in GrantType
  BY RowTypes, GrantRow DEF Statuses
<1>2. grants' \in [Grants -> GrantType]
  BY <1>1 DEF LedgerType, Abandon
<1> QED BY <1>2 DEF LedgerType, Abandon, Untouched, KeepsClaims

LEMMA FinalizeStep ==
    ASSUME LedgerType, Untouched, NEW g \in Grants, NEW kind \in Kinds,
           NEW s \in Grants \cup {None}, Finalize(g, kind, s)
    PROVE  LedgerType' /\ Untouched' /\ KeepsClaims
<1> DEFINE retired == s # None /\ grants[s].status # "none"
           active == [grants[g] EXCEPT !.status = "active", !.kind = kind,
                                       !.state = "playing", !.revision = 1]
           playing == IF kind = "canonical" THEN [state |-> "playing", revision |-> 1]
                      ELSE sessions[g]
<1>1. active \in GrantType
  <2>1. grants[g] \in GrantType
    BY RowTypes
  <2> QED BY <2>1 DEF GrantType, States
<1>2. [state |-> "playing", revision |-> 1] \in SessionType
  BY DEF SessionType, States
<1>3. /\ replaced' \in [Grants -> Grants \cup {None}]
      /\ UNCHANGED <<profile, receipts, history>>
  BY DEF LedgerType, Finalize
<1>4. CASE ~retired
  <2>1. outbox' = outbox /\ grants' = [grants EXCEPT ![g] = active]
    BY <1>4 DEF Finalize
  <2>2. sessions' = [sessions EXCEPT ![g] = playing]
    BY <1>4 DEF Finalize, LedgerType
  <2>3. grants' \in [Grants -> GrantType] /\ sessions' \in [Grants -> SessionType]
    BY <1>1, <1>2, <2>1, <2>2 DEF LedgerType
  <2> QED BY <1>3, <2>1, <2>3 DEF LedgerType, Untouched, KeepsClaims
<1>5. CASE retired
  <2>1. /\ s \in Grants
        /\ outbox' = [outbox EXCEPT ![s] = [k \in Keys |-> Withdrawn(outbox[s][k])]]
    BY <1>5 DEF Finalize, Retired
  <2>2. grants' \in [Grants -> GrantType]
    <3>1. [grants[s] EXCEPT !.status = "superseded"] \in GrantType
      BY <2>1, RowTypes, GrantRow DEF Statuses
    <3>2. grants' = [[grants EXCEPT ![s] = [grants[s] EXCEPT !.status = "superseded"]]
                       EXCEPT ![g] = active]
      BY <1>5 DEF Finalize, Retired
    <3> QED BY <1>1, <2>1, <3>1, <3>2 DEF LedgerType
  <2>3. sessions' \in [Grants -> SessionType]
    <3>1. s # g
      BY <1>5 DEF Finalize
    <3>2. Ended(sessions[s]) \in SessionType
      BY <2>1, EndedSession DEF LedgerType
    <3>3. sessions' = [[sessions EXCEPT ![s] = Ended(sessions[s])] EXCEPT ![g] = playing]
      BY <1>5, <2>1, <3>1 DEF Finalize, Retired, LedgerType
    <3> QED BY <1>2, <2>1, <3>2, <3>3 DEF LedgerType
  <2>4. OnlyWithdraws
    <3>1. \A i \in Grants, k \in Keys :
             outbox'[i][k] = IF i = s THEN Withdrawn(outbox[i][k]) ELSE outbox[i][k]
      BY <2>1 DEF LedgerType
    <3>2. outbox' = [i \in Grants |-> [k \in Keys |-> outbox'[i][k]]]
      BY <2>1 DEF LedgerType
    <3> QED BY <1>3, <3>1, <3>2, WithdrawnRows
  <2> QED BY <1>3, <2>2, <2>3, <2>4 DEF LedgerType, OnlyWithdraws
<1> QED BY <1>4, <1>5

LEMMA ApplyEventStep ==
    ASSUME LedgerType, Untouched, NEW g \in Grants, NEW k \in Keys, NEW e \in Events, NEW r,
           ApplyEvent(g, k, e, r)
    PROVE  LedgerType' /\ Untouched' /\ KeepsClaims
<1>1. /\ e \in AllEvents /\ e # "none"
      /\ outbox[g][k] = NoDispatch
      /\ receipts' \in [Grants -> [Keys -> Events \cup {"none"}]]
      /\ receipts'[g][k] # "none"
      /\ \A i \in Grants, j \in Keys : receipts'[i][j] = "none" => receipts[i][j] = "none"
      /\ UNCHANGED <<profile, replaced>>
  BY LedgerAssumption DEF LedgerType, Untouched, ApplyEvent, Fresh, AllEvents
<1>2. CASE Suppressed(g, e)
  BY <1>1, <1>2 DEF LedgerType, ApplyEvent, Untouched, KeepsClaims
<1>3. CASE ~Suppressed(g, e)
  <2>1. StateFor(e) \in States /\ NextRevision(g, e) \in Nat
    <3>1. StateFor(e) \in States
      BY DEF StateFor, Terminal, States
    <3>2. grants[g].revision \in Nat
      BY RowTypes DEF GrantType
    <3> QED BY <3>1, <3>2 DEF NextRevision
  <2>2. grants' \in [Grants -> GrantType]
    <3>1. PICK status \in Statuses, terminal \in Keys \cup {None} :
             grants' = [grants EXCEPT ![g].state = StateFor(e),
                                      ![g].revision = NextRevision(g, e),
                                      ![g].status = status,
                                      ![g].terminal = terminal]
      <4>1. grants[g].status \in Statuses /\ grants[g].terminal \in Keys \cup {None}
        BY RowTypes DEF GrantType, Statuses
      <4>2. "released" \in Statuses
        BY DEF Statuses
      <4>3. CASE Terminal(e)
        BY <1>3, <4>2, <4>3 DEF ApplyEvent
      <4>4. CASE ~Terminal(e)
        BY <1>3, <4>1, <4>4 DEF ApplyEvent
      <4> QED BY <4>3, <4>4
    <3>2. [grants[g] EXCEPT !.state = StateFor(e), !.revision = NextRevision(g, e),
                            !.status = status, !.terminal = terminal] \in GrantType
      <4>1. grants[g] \in GrantType
        BY RowTypes
      <4> QED BY <2>1, <4>1 DEF GrantType, Statuses
    <3>3. grants' = [grants EXCEPT ![g] =
             [grants[g] EXCEPT !.state = StateFor(e), !.revision = NextRevision(g, e),
                               !.status = status, !.terminal = terminal]]
      BY <3>1 DEF LedgerType
    <3> QED BY <3>2, <3>3 DEF LedgerType
  <2>3. history' \in [Ids -> Nat]
    <3>1. <<g, k>> \in Ids /\ history \in [Ids -> Nat] /\ history' = Merge(g, k)
      BY <1>3 DEF LedgerType, ApplyEvent, Ids
    <3> QED BY <3>1 DEF Merge
  <2>4. Enqueue(g, k, e)
    BY <1>3 DEF ApplyEvent
  <2>5. CASE grants[g].kind # "canonical"
    BY <1>1, <2>2, <2>3, <2>4, <2>5 DEF Enqueue, LedgerType, Untouched, KeepsClaims
  <2>6. CASE grants[g].kind = "canonical"
    <3>1. /\ Dispatch(g, e) \in DispatchType
          /\ Dispatch(g, e).attempts = 0 /\ Dispatch(g, e).moved = FALSE
          /\ Waiting(Dispatch(g, e))
      <4>1. grants[g].generation \in Nat
        BY RowTypes DEF GrantType
      <4>2. DispatchEvent(e) \in {"start", "resume", "pause", "stop", "completion"}
        BY <1>1 DEF DispatchEvent, AllEvents
      <4> QED BY <2>1, <4>1, <4>2 DEF Dispatch, DispatchType, Waiting
    <3>2. sessions' \in [Grants -> SessionType]
      <4>1. [state |-> StateFor(e), revision |-> NextRevision(g, e)] \in SessionType
        BY <2>1 DEF SessionType
      <4> QED BY <2>4, <2>6, <4>1 DEF Enqueue, LedgerType
    <3>3. /\ outbox' \in [Grants -> [Keys -> DispatchType]]
          /\ \A i \in Grants, j \in Keys :
                outbox'[i][j] = IF i = g /\ j = k THEN Dispatch(g, e) ELSE outbox[i][j]
      <4>1. outbox' = [outbox EXCEPT ![g][k] = Dispatch(g, e)]
        BY <2>4, <2>6 DEF Enqueue
      <4>2. outbox \in [Grants -> [Keys -> DispatchType]]
        BY DEF LedgerType
      <4> QED BY <3>1, <4>1, <4>2
    <3>4. KeepsClaims
      <4>1. outbox[g][k].attempts = 0 /\ outbox[g][k].moved = FALSE
        BY <1>1 DEF NoDispatch
      <4> QED BY <3>1, <3>3, <4>1 DEF KeepsClaims
    <3>5. Untouched'
      BY <1>1, <3>3 DEF Untouched
    <3>6. \A i \in Grants, j \in Keys : outbox'[i][j].ripe => Waiting(outbox'[i][j])
      BY <3>1, <3>3 DEF LedgerType
    <3> QED BY <1>1, <2>2, <2>3, <3>2, <3>3, <3>4, <3>5, <3>6 DEF LedgerType
  <2> QED BY <2>5, <2>6
<1> QED BY <1>2, <1>3

LEMMA RevokeSessionStep ==
    ASSUME LedgerType, Untouched, NEW g \in Grants, RevokeSession(g)
    PROVE  LedgerType' /\ Untouched' /\ KeepsClaims
<1>1. grants' \in [Grants -> GrantType]
  <2>1. [grants[g] EXCEPT !.status = "revoked"] \in GrantType
    BY RowTypes, GrantRow DEF Statuses
  <2> QED BY <2>1 DEF LedgerType, RevokeSession
<1>2. sessions' \in [Grants -> SessionType]
  BY EndedSession DEF LedgerType, RevokeSession
<1>3. OnlyWithdraws
  <2>1. \A i \in Grants, k \in Keys :
           outbox'[i][k] = IF i = g THEN Withdrawn(outbox[i][k]) ELSE outbox[i][k]
    BY DEF LedgerType, RevokeSession
  <2>2. /\ outbox' = [i \in Grants |-> [k \in Keys |-> outbox'[i][k]]]
        /\ receipts' = receipts
    BY DEF LedgerType, RevokeSession
  <2> QED BY <2>1, <2>2, WithdrawnRows
<1> QED BY <1>1, <1>2, <1>3 DEF LedgerType, RevokeSession, OnlyWithdraws

LEMMA ClearHistoryStep ==
    ASSUME LedgerType, Untouched, ClearHistory
    PROVE  LedgerType' /\ Untouched' /\ KeepsClaims
<1>1. profile' \in [generation : 1..MaxGeneration, bound : BOOLEAN]
  BY LedgerAssumption DEF LedgerType, ClearHistory
<1>2. grants' \in [Grants -> GrantType]
  <2>1. \A g \in Grants : [grants[g] EXCEPT !.status = "revoked"] \in GrantType
    BY RowTypes, GrantRow DEF Statuses
  <2> QED BY <2>1, RowTypes DEF ClearHistory
<1>3. sessions' \in [Grants -> SessionType]
  BY EndedSession, RowTypes DEF ClearHistory
<1>4. OnlyWithdraws
  <2>1. \A g \in Grants, k \in Keys :
           outbox'[g][k] \in {outbox[g][k], Withdrawn(outbox[g][k])}
    BY DEF ClearHistory
  <2>2. /\ outbox' = [g \in Grants |-> [k \in Keys |-> outbox'[g][k]]]
        /\ receipts' = receipts
    BY DEF ClearHistory
  <2> QED BY <2>1, <2>2, WithdrawnRows
<1>5. history' \in [Ids -> Nat]
  BY DEF ClearHistory, NoHistory
<1> QED BY <1>1, <1>2, <1>3, <1>4, <1>5 DEF LedgerType, ClearHistory, OnlyWithdraws

LEMMA RevokeDeviceStep ==
    ASSUME LedgerType, Untouched, RevokeDevice
    PROVE  LedgerType' /\ Untouched' /\ KeepsClaims
<1>1. profile' \in [generation : 1..MaxGeneration, bound : BOOLEAN]
  BY DEF LedgerType, RevokeDevice
<1>2. sessions' \in [Grants -> SessionType]
  BY EndedSession, RowTypes DEF RevokeDevice
<1>3. OnlyWithdraws
  <2>1. \A g \in Grants, k \in Keys : outbox'[g][k] = Withdrawn(outbox[g][k])
    BY DEF RevokeDevice
  <2>2. /\ outbox' = [g \in Grants |-> [k \in Keys |-> outbox'[g][k]]]
        /\ receipts' = receipts
    BY DEF RevokeDevice
  <2> QED BY <2>1, <2>2, WithdrawnRows
<1> QED BY <1>1, <1>2, <1>3 DEF LedgerType, RevokeDevice, OnlyWithdraws

\* The transactions of the players, of the clock and of the owner.
LEMMA LedgerStep ==
    ASSUME LedgerType, Untouched, Player \/ Expire \/ Owner
    PROVE  /\ LedgerType' /\ Untouched' /\ KeepsClaims
           /\ UNCHANGED <<workers, holder, sent, breaks>>
<1>1. CASE Player
  <2>1. PICK g \in Grants :
           \/ Reserve(g)
           \/ \E kind \in Kinds, s \in Grants \cup {None} : Finalize(g, kind, s)
           \/ \E k \in Keys, e \in Events : Play(g, k, e)
           \/ RevokeSession(g)
    BY <1>1 DEF Player
  <2>2. CASE \E kind \in Kinds, s \in Grants \cup {None} : Finalize(g, kind, s)
    BY <1>1, <2>2, FinalizeStep DEF Player
  <2>3. CASE \E k \in Keys, e \in Events : Play(g, k, e)
    BY <1>1, <2>3, ApplyEventStep DEF Player, Play
  <2> QED BY <1>1, <2>1, <2>2, <2>3, ReserveStep, RevokeSessionStep DEF Player
<1>2. CASE Expire
  BY <1>2, AbandonStep DEF Expire
<1>3. CASE Owner
  BY <1>3, ClearHistoryStep, RevokeDeviceStep DEF Owner
<1> QED BY <1>1, <1>2, <1>3

-----------------------------------------------------------------------------
(* Types, and what a step of a worker does to the outbox and to the workers. *)

WorkersType == workers \in [Workers -> {Idle} \cup WorkerType]

LEMMA WorkerRow ==
    ASSUME WorkersType, NEW w \in Workers, workers[w].pc # "idle"
    PROVE  workers[w] \in WorkerType /\ workers[w].id \in Ids
  BY DEF WorkersType, WorkerType, Idle

LEMMA GotoRow ==
    ASSUME WorkersType, NEW w \in Workers, workers[w].pc # "idle",
           NEW pc \in Unambiguous, Goto(w, pc)
    PROVE  /\ WorkersType'
           /\ workers'[w].pc = pc
           /\ workers'[w].id = workers[w].id /\ workers'[w].attempt = workers[w].attempt
           /\ \A v \in Workers : v # w => workers'[v] = workers[v]
<1>1. workers[w] \in WorkerType
  BY WorkerRow
<1>2. workers' = [workers EXCEPT ![w] = [workers[w] EXCEPT !.pc = pc]]
  BY DEF Goto
<1>3. [workers[w] EXCEPT !.pc = pc] \in WorkerType
  BY <1>1 DEF WorkerType, Unambiguous, MaySend
<1>4. workers'[w] = [workers[w] EXCEPT !.pc = pc]
  BY <1>2 DEF WorkersType
<1>5. /\ workers'[w].pc = pc
      /\ workers'[w].id = workers[w].id /\ workers'[w].attempt = workers[w].attempt
  BY <1>1, <1>4 DEF WorkerType
<1> QED BY <1>2, <1>3, <1>5 DEF WorkersType

LEMMA RestRow ==
    ASSUME WorkersType, NEW w \in Workers, Rest(w)
    PROVE  /\ WorkersType'
           /\ workers'[w] = Idle
           /\ \A v \in Workers : v # w => workers'[v] = workers[v]
  BY DEF WorkersType, Rest

LEMMA AtRow ==
    ASSUME LedgerType, NEW id \in Ids
    PROVE  At(id) \in DispatchType /\ (At(id).ripe => Waiting(At(id)))
  BY IdParts DEF LedgerType, At

LEMMA PutStep ==
    ASSUME LedgerType, Untouched, NEW id \in Ids, NEW d \in DispatchType, Put(id, d),
           d.ripe => Waiting(d), At(id) # NoDispatch, UNCHANGED restOfLedger
    PROVE  /\ LedgerType' /\ Untouched'
           /\ \A i \in Ids : At(i)' = IF i = id THEN d ELSE At(i)
<1>1. /\ outbox' \in [Grants -> [Keys -> DispatchType]]
      /\ \A g \in Grants, k \in Keys : outbox'[g][k].ripe => Waiting(outbox'[g][k])
      /\ \A g \in Grants, k \in Keys :
            outbox'[g][k] = IF <<g, k>> = id THEN d ELSE outbox[g][k]
  BY PutRow
<1>2. Untouched'
  <2>1. receipts[id[1]][id[2]] # "none" /\ receipts' = receipts
    BY IdParts DEF Untouched, At, restOfLedger
  <2> QED BY <1>1, <2>1, IdParts DEF Untouched
<1>3. \A i \in Ids : At(i)' = IF i = id THEN d ELSE At(i)
  BY <1>1, IdParts DEF At
<1>4. LedgerType'
  BY <1>1 DEF LedgerType, restOfLedger
<1> QED BY <1>2, <1>3, <1>4

\* A worker stays, rests, or goes on with a dispatch that it may send.
Moves(w) ==
    \/ workers'[w] = workers[w]
    \/ workers'[w] = Idle
    \/ /\ workers[w].pc \in MaySend /\ workers'[w].pc \in Unambiguous
       /\ workers'[w].id = workers[w].id /\ workers'[w].attempt = workers[w].attempt

SameClaims ==
    \A id \in Ids : At(id)'.attempts = At(id).attempts /\ At(id)'.moved = At(id).moved

LEMMA Kept ==
    ASSUME LedgerType, WorkersType, LeaseInv, Untouched', SameClaims, sent' = sent,
           \A w \in Workers : Moves(w)
    PROVE  LeaseInv'
<1>1. ASSUME NEW w \in Workers, workers'[w].pc # "idle"
      PROVE  /\ workers[w].pc # "idle" /\ workers[w].id \in Ids
             /\ workers'[w].id = workers[w].id /\ workers'[w].attempt = workers[w].attempt
             /\ workers'[w].pc \in Unambiguous => workers[w].pc \in Unambiguous
             /\ \/ workers'[w] = workers[w]
                \/ workers[w].pc \in MaySend
  <2>1. workers'[w] # Idle
    BY <1>1 DEF Idle
  <2>2. workers[w].pc # "idle"
    BY <1>1, <2>1 DEF Moves, MaySend
  <2> QED BY <2>1, <2>2, WorkerRow DEF Moves, Unambiguous
<1>2. Numbered'
  <2>1. ASSUME NEW w \in Workers, workers'[w].pc # "idle"
        PROVE  \E id \in Ids : workers'[w].id = id /\ workers'[w].attempt \in 1..At(id)'.attempts
    BY <1>1, <2>1 DEF LeaseInv, Numbered, SameClaims
  <2> QED BY <2>1 DEF Numbered, At
<1>3. OneWorkerPerClaim'
  BY <1>1 DEF LeaseInv, OneWorkerPerClaim
<1>4. SecondOnlyIfMoved'
  <2>1. ASSUME NEW w \in Workers, workers'[w].pc \in Unambiguous
        PROVE  \/ workers'[w].attempt = 1
               \/ \E id \in Ids : workers'[w].id = id /\ workers'[w].attempt = 2 /\ At(id)'.moved
    <3>1. workers'[w].pc # "idle"
      BY <2>1 DEF Unambiguous, MaySend
    <3> QED BY <1>1, <2>1, <3>1 DEF LeaseInv, SecondOnlyIfMoved, SameClaims
  <2> QED BY <2>1 DEF SecondOnlyIfMoved, At
<1>5. MovedLeavesNobody'
  <2>1. ASSUME NEW w \in Workers, workers'[w].pc # "idle"
        PROVE  \E id \in Ids : workers'[w].id = id /\ (At(id)'.moved => workers'[w].attempt > 1)
    BY <1>1, <2>1 DEF LeaseInv, MovedLeavesNobody, SameClaims
  <2>2. \A id \in Ids : At(id)'.moved => At(id)'.attempts > 0
    BY DEF LeaseInv, MovedLeavesNobody, SameClaims
  <2> QED BY <2>1, <2>2 DEF MovedLeavesNobody, At
<1>6. SentIsSpent'
  <2>1. ASSUME NEW id \in Ids, sent[id] # 0
        PROVE  /\ sent[id] = 1 /\ At(id)'.attempts > 0
               /\ ~(At(id)'.attempts = 1 /\ At(id)'.moved)
    BY <2>1 DEF LeaseInv, SentIsSpent, SameClaims
  <2>2. ASSUME NEW id \in Ids, sent[id] # 0,
               NEW w \in Workers, workers'[w].pc # "idle", workers'[w].id = id
        PROVE  /\ workers'[w].pc \notin MaySend
               /\ ~(workers'[w].pc = "retrying" /\ workers'[w].attempt = 1)
    BY <1>1, <2>2 DEF LeaseInv, SentIsSpent
  <2> QED BY <2>1, <2>2 DEF SentIsSpent, At
<1> QED BY <1>2, <1>3, <1>4, <1>5, <1>6 DEF LeaseInv

-----------------------------------------------------------------------------
(* The steps of the workers, of time and of failure.                         *)

IInv == TypeOK /\ LeaseInv

LEMMA Unpacked ==
    ASSUME IInv
    PROVE  /\ LedgerType /\ WorkersType /\ LeaseInv /\ Untouched
           /\ holder \in Workers \cup {None} /\ sent \in [Ids -> Nat] /\ breaks \in 0..MaxBreaks
  BY DEF IInv, TypeOK, WorkersType, LeaseInv

LEMMA SameLedger ==
    ASSUME IInv, UNCHANGED ledgerVars
    PROVE  LedgerType' /\ Untouched' /\ SameClaims
  BY Unpacked DEF LedgerType, Untouched, SameClaims, At, ledgerVars, Waiting

\* A dispatch that some worker leased, and whose row keeps its claims.
LEMMA SameClaimsPut ==
    ASSUME IInv, NEW id \in Ids, NEW d \in DispatchType, Put(id, d), d.ripe => Waiting(d),
           Waiting(At(id)), UNCHANGED restOfLedger,
           d.attempts = At(id).attempts, d.moved = At(id).moved
    PROVE  LedgerType' /\ Untouched' /\ SameClaims
<1>1. At(id) # NoDispatch
  BY DEF NoDispatch, Waiting
<1> QED BY <1>1, Unpacked, PutStep DEF SameClaims

LEMMA DeliveredStep ==
    ASSUME IInv, NEW w \in Workers, workers[w].pc # "idle", LeaseOf(w),
           Delivered(workers[w].id), UNCHANGED restOfLedger
    PROVE  LedgerType' /\ Untouched' /\ SameClaims
<1> DEFINE id == workers[w].id
           d == [At(id) EXCEPT !.status = "delivered", !.ripe = FALSE]
<1>1. id \in Ids
  BY Unpacked, WorkerRow
<1>2. At(id) \in DispatchType
  BY <1>1, Unpacked, AtRow
<1>3. /\ d \in DispatchType /\ ~d.ripe
      /\ d.attempts = At(id).attempts /\ d.moved = At(id).moved
  BY <1>2 DEF DispatchType
<1>4. Put(id, d) /\ Waiting(At(id))
  BY DEF Delivered, LeaseOf, Waiting
<1> QED BY <1>1, <1>3, <1>4, SameClaimsPut

LEMMA ConsumeStep ==
    ASSUME IInv, NEW w \in Workers, Consume(w)
    PROVE  IInv'
<1>1. LedgerType' /\ Untouched' /\ SameClaims
  <2>1. CASE Admitted(w)
    BY <2>1, DeliveredStep DEF Consume, Admitted
  <2>2. CASE ~Admitted(w)
    BY <2>2, SameLedger DEF Consume, ledgerVars, restOfLedger
  <2> QED BY <2>1, <2>2
<1>2. WorkersType' /\ \A v \in Workers : Moves(v)
  BY Unpacked, RestRow DEF Consume, Moves
<1>3. UNCHANGED <<holder, sent, breaks>>
  BY DEF Consume
<1> QED BY <1>1, <1>2, <1>3, Unpacked, Kept DEF IInv, TypeOK, WorkersType

LEMMA ResolveStep ==
    ASSUME IInv, NEW w \in Workers, Resolve(w)
    PROVE  IInv'
<1>1. LedgerType' /\ Untouched' /\ SameClaims
  BY SameLedger DEF Resolve
<1>2. WorkersType' /\ \A v \in Workers : Moves(v)
  <2>1. PICK pc \in {"ready", "retrying"} : Goto(w, pc)
    BY DEF Resolve
  <2> QED BY <2>1, Unpacked, GotoRow DEF Resolve, Moves, Unambiguous, MaySend
<1>3. UNCHANGED <<holder, sent, breaks>>
  BY DEF Resolve
<1> QED BY <1>1, <1>2, <1>3, Unpacked, Kept DEF IInv, TypeOK, WorkersType

LEMMA AdmitStep ==
    ASSUME IInv, NEW w \in Workers, Admit(w)
    PROVE  IInv'
<1>1. LedgerType' /\ Untouched' /\ SameClaims
  BY SameLedger DEF Admit
<1>2. WorkersType' /\ \A v \in Workers : Moves(v)
  <2>1. CASE Goto(w, "calling")
    BY <2>1, Unpacked, GotoRow DEF Admit, Moves, Unambiguous, MaySend
  <2>2. CASE Rest(w)
    BY <2>2, Unpacked, RestRow DEF Moves
  <2> QED BY <2>1, <2>2 DEF Admit
<1>3. UNCHANGED <<sent, breaks>> /\ holder' \in {w, holder}
  BY DEF Admit
<1> QED BY <1>1, <1>2, <1>3, Unpacked, Kept DEF IInv, TypeOK, WorkersType

LEMMA FailStep ==
    ASSUME IInv, NEW w \in Workers, Fail(w) \/ Refuse(w)
    PROVE  IInv'
<1>1. LedgerType' /\ Untouched' /\ SameClaims
  BY SameLedger DEF Fail, Refuse
<1>2. WorkersType' /\ \A v \in Workers : Moves(v)
  <2>1. PICK pc \in {"called", "retrying"} : Goto(w, pc)
    BY DEF Fail, Refuse
  <2> QED BY <2>1, Unpacked, GotoRow DEF Fail, Refuse, Moves, Unambiguous, MaySend
<1>3. UNCHANGED <<sent, breaks>> /\ holder' \in {None, holder}
  BY DEF Fail, Refuse, Release
<1> QED BY <1>1, <1>2, <1>3, Unpacked, Kept DEF IInv, TypeOK, WorkersType

LEMMA SettleStep ==
    ASSUME IInv, NEW w \in Workers, Settle(w)
    PROVE  IInv'
<1>1. LedgerType' /\ Untouched' /\ SameClaims
  <2>1. CASE holder = w /\ LeaseOf(w)
    BY <2>1, DeliveredStep DEF Settle
  <2>2. CASE ~(holder = w /\ LeaseOf(w))
    BY <2>2, SameLedger DEF Settle, ledgerVars, restOfLedger
  <2> QED BY <2>1, <2>2
<1>2. WorkersType' /\ \A v \in Workers : Moves(v)
  BY Unpacked, RestRow DEF Settle, Moves
<1>3. UNCHANGED <<sent, breaks>> /\ holder' \in {None, holder}
  BY DEF Settle, Release
<1> QED BY <1>1, <1>2, <1>3, Unpacked, Kept DEF IInv, TypeOK, WorkersType

LEMMA BreakStep ==
    ASSUME IInv, LoseConnection \/ \E w \in Workers : Crash(w)
    PROVE  IInv'
<1>1. LedgerType' /\ Untouched' /\ SameClaims
  BY SameLedger DEF LoseConnection, Crash
<1>2. WorkersType' /\ \A v \in Workers : Moves(v)
  <2>1. CASE LoseConnection
    BY <2>1, Unpacked DEF LoseConnection, Moves, WorkersType
  <2>2. CASE \E w \in Workers : Crash(w)
    BY <2>2, Unpacked, RestRow DEF Crash, Moves
  <2> QED BY <2>1, <2>2
<1>3. sent' = sent /\ breaks' \in 0..MaxBreaks /\ holder' \in {None, holder}
  BY Unpacked, OutboxAssumption DEF LoseConnection, Crash, Release
<1> QED BY <1>1, <1>2, <1>3, Unpacked, Kept DEF IInv, TypeOK, WorkersType

LEMMA RipenStep ==
    ASSUME IInv, NEW id \in Ids, Ripen(id)
    PROVE  IInv'
<1>1. LedgerType' /\ Untouched' /\ SameClaims
  <2> DEFINE d == [At(id) EXCEPT !.ripe = TRUE]
  <2>1. At(id) \in DispatchType
    BY Unpacked, AtRow
  <2>2. Waiting(At(id)) /\ Put(id, d) /\ UNCHANGED restOfLedger
    BY DEF Ripen
  <2>3. d \in DispatchType /\ d.attempts = At(id).attempts /\ d.moved = At(id).moved
    BY <2>1 DEF DispatchType
  <2>4. Waiting(d)
    BY <2>1, <2>2 DEF DispatchType, Waiting
  <2> QED BY <2>2, <2>3, <2>4, SameClaimsPut
<1>2. WorkersType' /\ \A v \in Workers : Moves(v)
  BY Unpacked DEF Ripen, Moves, WorkersType
<1>3. UNCHANGED <<holder, sent, breaks>>
  BY DEF Ripen
<1> QED BY <1>1, <1>2, <1>3, Unpacked, Kept DEF IInv, TypeOK, WorkersType

LEMMA OthersStep ==
    ASSUME IInv, Player \/ Expire \/ Owner
    PROVE  IInv'
<1>1. /\ LedgerType' /\ Untouched' /\ KeepsClaims
      /\ UNCHANGED <<workers, holder, sent, breaks>>
  BY Unpacked, LedgerStep
<1>2. SameClaims
  BY <1>1, IdParts DEF SameClaims, KeepsClaims, At
<1>3. WorkersType' /\ \A v \in Workers : Moves(v)
  BY <1>1, Unpacked DEF Moves, WorkersType
<1> QED BY <1>1, <1>2, <1>3, Unpacked, Kept DEF IInv, TypeOK, WorkersType

-----------------------------------------------------------------------------
(* The three steps that the rule of the second claim is about.               *)

\* A request leaves from a worker that may send, so none has left before, and
\* no other worker may send or put off the same dispatch.
LEMMA IssueStep ==
    ASSUME IInv, NEW w \in Workers, Issue(w)
    PROVE  IInv'
<1> DEFINE id == workers[w].id
<1>1. LedgerType' /\ Untouched' /\ SameClaims
  BY SameLedger DEF Issue
<1>2. workers[w].pc = "calling" /\ id \in Ids
  BY Unpacked, WorkerRow DEF Issue
<1>3. /\ WorkersType' /\ workers'[w].pc = "called"
      /\ workers'[w].id = workers[w].id /\ workers'[w].attempt = workers[w].attempt
      /\ \A v \in Workers : v # w => workers'[v] = workers[v]
  BY <1>2, Unpacked, GotoRow DEF Issue, Unambiguous, MaySend
<1>4. sent[id] = 0
  BY <1>2 DEF IInv, LeaseInv, SentIsSpent, MaySend
<1>5. /\ sent' = [sent EXCEPT ![id] = 1] /\ sent' \in [Ids -> Nat]
      /\ UNCHANGED <<holder, breaks, outbox>>
  BY <1>2, <1>4, Unpacked DEF Issue, ledgerVars
<1>6. LeaseInv /\ outbox' = outbox
  BY <1>5, Unpacked
<1>7. Numbered' /\ OneWorkerPerClaim' /\ MovedLeavesNobody'
  BY <1>2, <1>3, <1>6 DEF LeaseInv, Numbered, OneWorkerPerClaim, MovedLeavesNobody, At
<1>8. SecondOnlyIfMoved'
  BY <1>2, <1>3, <1>6 DEF LeaseInv, SecondOnlyIfMoved, At, Unambiguous, MaySend
<1>9. /\ At(id).attempts > 0
      /\ ~(At(id).attempts = 1 /\ At(id).moved)
  BY <1>2, <1>6, Unpacked, AtRow DEF LeaseInv, Numbered, MovedLeavesNobody, DispatchType
<1>10. ASSUME NEW v \in Workers, v # w, workers[v].pc # "idle", workers[v].id = id
       PROVE  /\ workers[v].pc \notin MaySend
              /\ ~(workers[v].pc = "retrying" /\ workers[v].attempt = 1)
  <2>1. workers[v].attempt # workers[w].attempt
    BY <1>2, <1>6, <1>10 DEF LeaseInv, OneWorkerPerClaim
  <2>2. workers[w].attempt = 1 \/ (workers[w].attempt = 2 /\ At(id).moved)
    BY <1>2, <1>6 DEF LeaseInv, SecondOnlyIfMoved, Unambiguous, MaySend
  <2>3. workers[v].pc \in Unambiguous =>
           workers[v].attempt = 1 \/ (workers[v].attempt = 2 /\ At(id).moved)
    BY <1>6, <1>10 DEF LeaseInv, SecondOnlyIfMoved
  <2>4. At(id).moved => workers[v].attempt > 1 /\ workers[w].attempt > 1
    BY <1>2, <1>6, <1>10 DEF LeaseInv, MovedLeavesNobody
  <2>5. workers[v].pc \notin Unambiguous
    BY <2>1, <2>2, <2>3, <2>4
  <2> QED BY <2>5 DEF Unambiguous
<1>11. SentIsSpent'
  <2>1. ASSUME NEW i \in Ids, sent'[i] # 0
        PROVE  /\ sent'[i] = 1 /\ At(i).attempts > 0 /\ ~(At(i).attempts = 1 /\ At(i).moved)
               /\ \A v \in Workers :
                     workers'[v].pc # "idle" /\ workers'[v].id = i =>
                         /\ workers'[v].pc \notin MaySend
                         /\ ~(workers'[v].pc = "retrying" /\ workers'[v].attempt = 1)
    <3>1. CASE i = id
      <4>1. sent'[i] = 1
        BY <1>2, <1>5, <3>1, Unpacked
      <4> QED BY <1>3, <1>9, <1>10, <3>1, <4>1 DEF MaySend
    <3>2. CASE i # id
      <4>1. sent'[i] = sent[i]
        BY <1>2, <1>5, <3>2, Unpacked
      <4> QED BY <1>3, <1>6, <2>1, <3>2, <4>1 DEF LeaseInv, SentIsSpent
    <3> QED BY <3>1, <3>2
  <2>2. \A i \in Ids : At(i)' = At(i)
    BY <1>6 DEF At
  <2> QED BY <2>1, <2>2 DEF SentIsSpent
<1> QED BY <1>1, <1>3, <1>5, <1>7, <1>8, <1>11, Unpacked DEF IInv, TypeOK, WorkersType, LeaseInv

LEMMA ClaimedRow ==
    ASSUME NEW row \in DispatchType, NEW n \in Nat
    PROVE  LET d == [row EXCEPT !.status = "leased", !.attempts = n, !.ripe = FALSE]
           IN d \in DispatchType /\ ~d.ripe /\ d.attempts = n /\ d.moved = row.moved
  BY DEF DispatchType

\* A claim gets the next number, and may send only if it is the first, or the
\* second of a dispatch that was put off, of which nothing has been sent.
LEMMA ClaimStep ==
    ASSUME IInv, NEW w \in Workers, NEW id \in Ids, Claim(w, id)
    PROVE  IInv'
<1> DEFINE attempt == At(id).attempts + 1
           d == [At(id) EXCEPT !.status = "leased", !.attempts = attempt, !.ripe = FALSE]
<1>1. At(id) \in DispatchType /\ At(id).attempts \in Nat
  BY Unpacked, AtRow DEF DispatchType
<1>2. /\ attempt \in Nat \ {0} /\ d \in DispatchType /\ ~d.ripe
      /\ d.attempts = attempt /\ d.moved = At(id).moved
  <2>1. attempt \in Nat \ {0}
    BY <1>1
  <2> HIDE DEF attempt
  <2>2. d \in DispatchType /\ ~d.ripe /\ d.attempts = attempt /\ d.moved = At(id).moved
    BY <1>1, <2>1, ClaimedRow
  <2> QED BY <2>1, <2>2
<1>3. At(id) # NoDispatch /\ Put(id, d) /\ UNCHANGED restOfLedger
  BY DEF Claim, Waiting, NoDispatch
<1>4. /\ LedgerType' /\ Untouched'
      /\ \A i \in Ids :
            /\ At(i)'.attempts = IF i = id THEN attempt ELSE At(i).attempts
            /\ At(i)'.moved = At(i).moved
  BY <1>2, <1>3, Unpacked, PutStep
<1>5. PICK pc \in {"claimed", "ambiguous"} :
         /\ workers' = [workers EXCEPT ![w] = [pc |-> pc, id |-> id, attempt |-> attempt]]
         /\ pc = "claimed" => ~Ambiguous(At(id), attempt)
  BY DEF Claim
<1>6. /\ WorkersType'
      /\ workers'[w].pc = pc /\ workers'[w].id = id /\ workers'[w].attempt = attempt
      /\ \A v \in Workers : v # w => workers'[v] = workers[v]
  BY <1>1, <1>5, Unpacked DEF WorkersType, WorkerType
<1>7. LeaseInv /\ workers[w].pc = "idle" /\ UNCHANGED <<holder, sent, breaks>>
  BY Unpacked DEF Claim
<1>8. \A i \in Ids : At(i).attempts \in Nat
  BY Unpacked, AtRow DEF DispatchType
<1>9. Numbered'
  <2>1. ASSUME NEW v \in Workers, workers'[v].pc # "idle"
        PROVE  \E i \in Ids : workers'[v].id = i /\ workers'[v].attempt \in 1..At(i)'.attempts
    BY <1>1, <1>4, <1>6, <1>7, <1>8, <2>1 DEF LeaseInv, Numbered
  <2> QED BY <2>1 DEF Numbered, At
<1>10. OneWorkerPerClaim'
  <2>1. \A v \in Workers :
           v # w /\ workers'[v].pc # "idle" /\ workers'[v].id = id => workers'[v].attempt < attempt
    BY <1>1, <1>6, <1>7 DEF LeaseInv, Numbered
  <2> QED BY <1>1, <1>6, <1>7, <2>1 DEF LeaseInv, OneWorkerPerClaim
<1>11. SecondOnlyIfMoved'
  <2>1. ASSUME NEW v \in Workers, workers'[v].pc \in Unambiguous
        PROVE  \/ workers'[v].attempt = 1
               \/ \E i \in Ids : workers'[v].id = i /\ workers'[v].attempt = 2 /\ At(i)'.moved
    <3>1. CASE v = w
      <4>1. ~Ambiguous(At(id), attempt)
        BY <1>5, <1>6, <2>1, <3>1 DEF Unambiguous, MaySend
      <4> QED BY <1>1, <1>4, <1>6, <3>1, <4>1 DEF Ambiguous
    <3>2. CASE v # w
      <4>1. workers[v].id \in Ids
        BY <1>6, <2>1, <3>2, Unpacked, WorkerRow DEF Unambiguous, MaySend
      <4> QED BY <1>4, <1>6, <1>7, <2>1, <3>2, <4>1 DEF LeaseInv, SecondOnlyIfMoved
    <3> QED BY <3>1, <3>2
  <2> QED BY <2>1 DEF SecondOnlyIfMoved, At
<1>12. MovedLeavesNobody'
  <2>1. \A i \in Ids : At(i)'.moved => At(i)'.attempts > 0
    BY <1>1, <1>4, <1>7, <1>8 DEF LeaseInv, MovedLeavesNobody
  <2>2. ASSUME NEW v \in Workers, workers'[v].pc # "idle"
        PROVE  \E i \in Ids : workers'[v].id = i /\ (At(i)'.moved => workers'[v].attempt > 1)
    <3>1. CASE v = w
      BY <1>1, <1>4, <1>6, <1>7, <3>1 DEF LeaseInv, MovedLeavesNobody
    <3>2. CASE v # w
      <4>1. workers[v].id \in Ids
        BY <1>6, <2>2, <3>2, Unpacked, WorkerRow
      <4> QED BY <1>4, <1>6, <1>7, <2>2, <3>2, <4>1 DEF LeaseInv, MovedLeavesNobody
    <3> QED BY <3>1, <3>2
  <2> QED BY <2>1, <2>2 DEF MovedLeavesNobody, At
<1>13. SentIsSpent'
  <2>1. ASSUME NEW i \in Ids, sent[i] # 0
        PROVE  /\ sent[i] = 1 /\ At(i)'.attempts > 0 /\ ~(At(i)'.attempts = 1 /\ At(i)'.moved)
               /\ \A v \in Workers :
                     workers'[v].pc # "idle" /\ workers'[v].id = i =>
                         /\ workers'[v].pc \notin MaySend
                         /\ ~(workers'[v].pc = "retrying" /\ workers'[v].attempt = 1)
    <3>1. /\ sent[i] = 1 /\ At(i).attempts > 0 /\ ~(At(i).attempts = 1 /\ At(i).moved)
          /\ \A v \in Workers :
                workers[v].pc # "idle" /\ workers[v].id = i =>
                    /\ workers[v].pc \notin MaySend
                    /\ ~(workers[v].pc = "retrying" /\ workers[v].attempt = 1)
      BY <1>7, <2>1 DEF LeaseInv, SentIsSpent
    <3>2. CASE i # id
      BY <1>4, <1>6, <3>1, <3>2
    <3>3. CASE i = id
      <4>1. Ambiguous(At(id), attempt)
        BY <1>1, <3>1, <3>3 DEF Ambiguous
      <4>2. pc = "ambiguous"
        BY <1>5, <4>1
      <4>3. At(i)'.attempts > 0 /\ ~(At(i)'.attempts = 1)
        BY <1>1, <1>4, <3>1, <3>3
      <4>4. \A v \in Workers : workers'[v].pc # "idle" /\ workers'[v].id = i =>
               /\ workers'[v].pc \notin MaySend
               /\ ~(workers'[v].pc = "retrying" /\ workers'[v].attempt = 1)
        <5>1. ASSUME NEW v \in Workers, workers'[v].pc # "idle", workers'[v].id = i
              PROVE  /\ workers'[v].pc \notin MaySend
                     /\ ~(workers'[v].pc = "retrying" /\ workers'[v].attempt = 1)
          <6>1. CASE v = w
            BY <1>6, <4>2, <6>1 DEF MaySend
          <6>2. CASE v # w
            BY <1>6, <3>1, <5>1, <6>2
          <6> QED BY <6>1, <6>2
        <5> QED BY <5>1
      <4> QED BY <3>1, <4>3, <4>4
    <3> QED BY <3>2, <3>3
  <2> QED BY <1>7, <2>1 DEF SentIsSpent, At
<1> QED BY <1>4, <1>6, <1>7, <1>9, <1>10, <1>11, <1>12, <1>13, Unpacked
        DEF IInv, TypeOK, WorkersType, LeaseInv

\* A dispatch is put off by a worker whose request did not leave, and which
\* then is the last that holds a claim of it, or holds the second.
LEMMA PutOffStep ==
    ASSUME IInv, NEW w \in Workers, RetryDispatch(w), LeaseOf(w),
           Put(workers[w].id, PutOff(At(workers[w].id)))
    PROVE  IInv'
<1> DEFINE id == workers[w].id
           d == PutOff(At(id))
<1>1. workers[w].pc = "retrying" /\ id \in Ids
  BY Unpacked, WorkerRow DEF RetryDispatch
<1>2. At(id) \in DispatchType
  BY <1>1, Unpacked, AtRow
<1>3. d \in DispatchType /\ ~d.ripe /\ d.attempts = At(id).attempts /\ d.moved = TRUE
  BY <1>2 DEF DispatchType, PutOff
<1>4. /\ At(id) # NoDispatch /\ At(id).attempts = workers[w].attempt
      /\ UNCHANGED restOfLedger /\ UNCHANGED <<holder, sent, breaks>> /\ Rest(w)
  BY DEF RetryDispatch, LeaseOf, NoDispatch
<1>5. /\ LedgerType' /\ Untouched'
      /\ \A i \in Ids :
            /\ At(i)'.attempts = At(i).attempts
            /\ At(i)'.moved = IF i = id THEN TRUE ELSE At(i).moved
  BY <1>1, <1>3, <1>4, Unpacked, PutStep
<1>6. /\ WorkersType' /\ workers'[w] = Idle
      /\ \A v \in Workers : v # w => workers'[v] = workers[v]
  BY <1>4, Unpacked, RestRow
<1>7. LeaseInv
  BY Unpacked
<1>8. ASSUME NEW v \in Workers, workers'[v].pc # "idle"
      PROVE  v # w /\ workers'[v] = workers[v] /\ workers[v].id \in Ids
  BY <1>6, <1>8, Unpacked, WorkerRow DEF Idle
<1>9. /\ workers[w].attempt \in 1..At(id).attempts /\ At(id).attempts \in Nat \ {0}
      /\ workers[w].attempt = 1 \/ (workers[w].attempt = 2 /\ At(id).moved)
  BY <1>1, <1>2, <1>7 DEF LeaseInv, Numbered, SecondOnlyIfMoved, Unambiguous, DispatchType
<1>10. Numbered'
  <2>1. ASSUME NEW v \in Workers, workers'[v].pc # "idle"
        PROVE  \E i \in Ids : workers'[v].id = i /\ workers'[v].attempt \in 1..At(i)'.attempts
    BY <1>5, <1>7, <1>8, <2>1 DEF LeaseInv, Numbered
  <2> QED BY <2>1 DEF Numbered, At
<1>11. OneWorkerPerClaim'
  BY <1>7, <1>8 DEF LeaseInv, OneWorkerPerClaim
<1>12. SecondOnlyIfMoved'
  <2>1. ASSUME NEW v \in Workers, workers'[v].pc \in Unambiguous
        PROVE  \/ workers'[v].attempt = 1
               \/ \E i \in Ids : workers'[v].id = i /\ workers'[v].attempt = 2 /\ At(i)'.moved
    <3>1. workers'[v].pc # "idle"
      BY <2>1 DEF Unambiguous, MaySend
    <3>2. /\ workers'[v] = workers[v] /\ workers[v].id \in Ids
          /\ workers[v].attempt = 1 \/ (workers[v].attempt = 2 /\ At(workers[v].id).moved)
      BY <1>7, <1>8, <2>1, <3>1 DEF LeaseInv, SecondOnlyIfMoved
    <3> QED BY <1>5, <3>2
  <2> QED BY <2>1 DEF SecondOnlyIfMoved, At
<1>13. MovedLeavesNobody'
  <2>1. \A i \in Ids : At(i)'.moved => At(i)'.attempts > 0
    <3>1. \A i \in Ids : At(i).moved => At(i).attempts > 0
      BY <1>7 DEF LeaseInv, MovedLeavesNobody
    <3>2. At(id).attempts > 0
      BY <1>9
    <3> QED BY <1>5, <3>1, <3>2
  <2>2. ASSUME NEW v \in Workers, workers'[v].pc # "idle"
        PROVE  \E i \in Ids : workers'[v].id = i /\ (At(i)'.moved => workers'[v].attempt > 1)
    <3>1. CASE workers[v].id = id
      <4>1. workers[v].attempt # workers[w].attempt
        BY <1>1, <1>7, <1>8, <2>2, <3>1 DEF LeaseInv, OneWorkerPerClaim
      <4>2. workers[v].attempt \in 1..workers[w].attempt
        BY <1>4, <1>7, <1>8, <2>2, <3>1 DEF LeaseInv, Numbered
      <4>3. At(id).moved => workers[v].attempt > 1
        BY <1>7, <1>8, <2>2, <3>1 DEF LeaseInv, MovedLeavesNobody
      <4> QED BY <1>8, <1>9, <2>2, <4>1, <4>2, <4>3
    <3>2. CASE workers[v].id # id
      BY <1>5, <1>7, <1>8, <2>2, <3>2 DEF LeaseInv, MovedLeavesNobody
    <3> QED BY <3>1, <3>2
  <2> QED BY <2>1, <2>2 DEF MovedLeavesNobody, At
<1>14. SentIsSpent'
  <2>1. ASSUME NEW i \in Ids, sent[i] # 0
        PROVE  /\ sent[i] = 1 /\ At(i)'.attempts > 0 /\ ~(At(i)'.attempts = 1 /\ At(i)'.moved)
               /\ \A v \in Workers :
                     workers'[v].pc # "idle" /\ workers'[v].id = i =>
                         /\ workers'[v].pc \notin MaySend
                         /\ ~(workers'[v].pc = "retrying" /\ workers'[v].attempt = 1)
    <3>1. /\ sent[i] = 1 /\ At(i).attempts > 0 /\ ~(At(i).attempts = 1 /\ At(i).moved)
          /\ \A v \in Workers :
                workers[v].pc # "idle" /\ workers[v].id = i =>
                    /\ workers[v].pc \notin MaySend
                    /\ ~(workers[v].pc = "retrying" /\ workers[v].attempt = 1)
      BY <1>7, <2>1 DEF LeaseInv, SentIsSpent
    <3>2. i = id => At(i).attempts # 1
      BY <1>1, <1>4, <3>1
    <3> QED BY <1>5, <1>8, <3>1, <3>2
  <2> QED BY <1>4, <2>1 DEF SentIsSpent, At
<1> QED BY <1>4, <1>5, <1>6, <1>10, <1>11, <1>12, <1>13, <1>14, Unpacked
        DEF IInv, TypeOK, WorkersType, LeaseInv

LEMMA RetryStep ==
    ASSUME IInv, NEW w \in Workers, RetryDispatch(w)
    PROVE  IInv'
<1> DEFINE id == workers[w].id
<1>1. id \in Ids /\ UNCHANGED restOfLedger /\ UNCHANGED <<holder, sent, breaks>>
  BY Unpacked, WorkerRow DEF RetryDispatch
<1>2. WorkersType' /\ \A v \in Workers : Moves(v)
  BY Unpacked, RestRow DEF RetryDispatch, Moves
<1>3. CASE ~LeaseOf(w)
  <2>1. LedgerType' /\ Untouched' /\ SameClaims
    BY <1>3, SameLedger DEF RetryDispatch, ledgerVars, restOfLedger
  <2> QED BY <1>1, <1>2, <2>1, Unpacked, Kept DEF IInv, TypeOK, WorkersType
<1>4. CASE LeaseOf(w) /\ At(id).generation = profile.generation
  BY <1>4, PutOffStep DEF RetryDispatch
<1>5. CASE LeaseOf(w) /\ At(id).generation # profile.generation
  <2>1. Put(id, Withdrawn(At(id))) /\ Waiting(At(id))
    BY <1>5 DEF RetryDispatch, LeaseOf, Waiting
  <2>2. At(id) \in DispatchType /\ (At(id).ripe => Waiting(At(id)))
    BY <1>1, Unpacked, AtRow
  <2>3. LedgerType' /\ Untouched' /\ SameClaims
    BY <1>1, <2>1, <2>2, WithdrawnRow, SameClaimsPut
  <2> QED BY <1>1, <1>2, <2>3, Unpacked, Kept DEF IInv, TypeOK, WorkersType
<1> QED BY <1>3, <1>4, <1>5

-----------------------------------------------------------------------------
(* The theorems.                                                             *)

LEMMA InitIInv == Init => IInv
<1> SUFFICES ASSUME Init PROVE IInv
  OBVIOUS
<1>1. LedgerType
  <2>1. NoGrant \in GrantType /\ NoSession \in SessionType
    BY DEF NoGrant, NoSession, GrantType, SessionType, States
  <2>2. NoDispatch \in DispatchType /\ ~NoDispatch.ripe
    BY DEF NoDispatch, DispatchType, States
  <2> QED BY <2>1, <2>2, LedgerAssumption DEF Init, LedgerInit, LedgerType, NoHistory
<1>2. TypeOK
  BY <1>1, OutboxAssumption DEF Init, TypeOK
<1>3. \A id \in Ids : At(id) = NoDispatch
  BY IdParts DEF Init, LedgerInit, At
<1>4. \A w \in Workers : workers[w].pc = "idle"
  BY DEF Init, Idle
<1>5. LeaseInv
  BY <1>3, <1>4 DEF Init, LedgerInit, LeaseInv, Numbered, OneWorkerPerClaim, SecondOnlyIfMoved,
     MovedLeavesNobody, Untouched, SentIsSpent, NoDispatch, Unambiguous, MaySend
<1> QED BY <1>2, <1>5 DEF IInv

LEMMA NextIInv == IInv /\ [Next]_vars => IInv'
<1> SUFFICES ASSUME IInv, [Next]_vars PROVE IInv'
  OBVIOUS
<1>1. CASE Player \/ Expire \/ Owner
  BY <1>1, OthersStep
<1>2. CASE \E w \in Workers : WorkerStep(w)
  BY <1>2, ConsumeStep, ResolveStep, AdmitStep, IssueStep, FailStep, SettleStep, RetryStep
     DEF WorkerStep
<1>3. CASE LoseConnection \/ \E w \in Workers : Crash(w)
  BY <1>3, BreakStep
<1>4. CASE \E w \in Workers, id \in Ids : Claim(w, id)
  BY <1>4, ClaimStep
<1>5. CASE \E id \in Ids : Ripen(id)
  BY <1>5, RipenStep
<1>6. CASE UNCHANGED vars
  <2>1. LedgerType' /\ Untouched' /\ SameClaims
    BY <1>6, SameLedger DEF vars
  <2>2. WorkersType' /\ (\A w \in Workers : Moves(w)) /\ UNCHANGED <<holder, sent, breaks>>
    BY <1>6, Unpacked DEF vars, Moves, WorkersType
  <2> QED BY <2>1, <2>2, Unpacked, Kept DEF IInv, TypeOK, WorkersType
<1> QED BY <1>1, <1>2, <1>3, <1>4, <1>5, <1>6 DEF Next

\* The inductive invariant holds in every state, for any number of grants, keys
\* and workers, and however often leases run out, connections break and
\* processes crash.
THEOREM Leases == Spec => []IInv
  BY InitIInv, NextIInv, PTL DEF Spec

\* Every variable keeps its type, and an outbox row is due only while it waits.
THEOREM TypeCorrect == Spec => []TypeOK
<1>1. IInv => TypeOK
  BY DEF IInv
<1> QED BY <1>1, Leases, PTL

\* A dispatch leaves for Trakt at most once, whatever leases run out, processes
\* crash and connections are lost (_isRecoveredAmbiguousLease).
THEOREM SentOnceCorrect == Spec => []SentOnce
<1>1. IInv => SentOnce
  <2>1. ASSUME IInv, NEW id \in Ids PROVE sent[id] <= 1
    <3>1. sent[id] \in Nat /\ (sent[id] # 0 => sent[id] = 1)
      BY <2>1, Unpacked DEF LeaseInv, SentIsSpent
    <3> QED BY <3>1
  <2> QED BY <2>1 DEF SentOnce
<1> QED BY <1>1, Leases, PTL

-----------------------------------------------------------------------------
(***************************************************************************)
(* The rows of a grant, of its session and of its events agree, and a      *)
(* worker that calls Trakt holds them as they were when it was admitted.   *)
(*                                                                         *)
(* Neither AppliedOnce nor RowsAgree is inductive.  RowsInv adds that what *)
(* has not been finalized has left nothing, that what still lives is of    *)
(* the generation of the history, and that only events of live canonical   *)
(* grants wait; the admission, which never looks at the grants, relies on  *)
(* it.                                                                     *)
(***************************************************************************)

Ending == {"released", "revoked", "superseded"}

SessionOk(g) ==
    /\ grants[g].status \in {"none", "reserved"} => sessions[g] = NoSession
    /\ grants[g].status \in {"active", "released"} =>
          IF grants[g].kind = "canonical" THEN sessions[g].state # "none"
          ELSE sessions[g] = NoSession
    /\ grants[g].status = "released" => grants[g].state = "released"
    /\ grants[g].status \in {"reserved", "active", "released"} =>
          grants[g].generation = profile.generation
    /\ grants[g].status = "active" /\ grants[g].kind = "canonical" /\ profile.bound =>
          SessionMatches(g)
    /\ grants[g].status \in Ending => sessions[g].state \in {"none", "released"}

WaitsWell(g, k) ==
    Waiting(outbox[g][k]) =>
        /\ profile.bound /\ outbox[g][k].generation = profile.generation
        /\ grants[g].status \in {"active", "released"} /\ grants[g].kind = "canonical"
        /\ replaced[g] = None

MergedWell(g, k) ==
    /\ history[<<g, k>>] \in {0, 1}
    /\ history[<<g, k>>] = 1 =>
          /\ receipts[g][k] # "none" /\ grants[g].generation = profile.generation
          /\ grants[g].kind = "canonical" => outbox[g][k].status # "none"
    /\ outbox[g][k].generation <= profile.generation
    /\ outbox[g][k].generation = profile.generation => history[<<g, k>>] = 1

SaysWell(d) == d.status # "none" => d.state \in Says(Action(d.event))

EventOk(g, k) ==
    /\ grants[g].status \in {"none", "reserved"} => receipts[g][k] = "none"
    /\ WaitsWell(g, k)
    /\ MergedWell(g, k)
    /\ SaysWell(outbox[g][k])

RowsInv ==
    /\ \A g \in Grants : SessionOk(g)
    /\ \A g \in Grants, k \in Keys : EventOk(g, k)

LEMMA SameSession ==
    ASSUME RowsInv, NEW i \in Grants, profile' = profile,
           grants'[i] = grants[i], sessions'[i] = sessions[i]
    PROVE  SessionOk(i)'
  BY DEF RowsInv, SessionOk, SessionMatches

LEMMA SameEvent ==
    ASSUME RowsInv, NEW i \in Grants, NEW k \in Keys, profile' = profile,
           grants'[i] = grants[i], replaced'[i] = replaced[i],
           receipts'[i][k] = receipts[i][k], outbox'[i][k] = outbox[i][k],
           history'[<<i, k>>] = history[<<i, k>>]
    PROVE  EventOk(i, k)'
  BY DEF RowsInv, EventOk, WaitsWell, MergedWell, SaysWell

LEMMA WithdrawnFacts ==
    ASSUME NEW d \in DispatchType
    PROVE  /\ ~Waiting(Withdrawn(d))
           /\ Withdrawn(d).generation = d.generation
           /\ Withdrawn(d).status = "none" <=> d.status = "none"
           /\ SaysWell(d) => SaysWell(Withdrawn(d))
  BY DEF Withdrawn, Waiting, DispatchType, SaysWell

LEMMA EndedFacts ==
    ASSUME NEW s \in SessionType
    PROVE  /\ Ended(s).state \in {"none", "released"}
           /\ Ended(s).state = "none" <=> s.state = "none"
           /\ s = NoSession => Ended(s) = NoSession
  BY DEF Ended, SessionType, NoSession

\* An event that is withdrawn, in a row whose grant keeps its generation.
LEMMA WithdrawnEvent ==
    ASSUME LedgerType, RowsInv, NEW i \in Grants, NEW k \in Keys,
           profile'.generation = profile.generation,
           grants'[i].generation = grants[i].generation, grants'[i].kind = grants[i].kind,
           grants'[i].status \notin {"none", "reserved"} \/ grants'[i].status = grants[i].status,
           outbox'[i][k] = Withdrawn(outbox[i][k]),
           receipts'[i][k] = receipts[i][k], history'[<<i, k>>] = history[<<i, k>>]
    PROVE  EventOk(i, k)'
<1>1. outbox[i][k] \in DispatchType /\ EventOk(i, k)
  BY DEF LedgerType, RowsInv
<1>2. /\ ~Waiting(outbox'[i][k]) /\ outbox'[i][k].generation = outbox[i][k].generation
      /\ outbox'[i][k].status = "none" <=> outbox[i][k].status = "none"
      /\ SaysWell(outbox'[i][k])
  BY <1>1, WithdrawnFacts DEF EventOk
<1>3. WaitsWell(i, k)' /\ SaysWell(outbox[i][k])'
  BY <1>2 DEF WaitsWell, SaysWell
<1>4. MergedWell(i, k)'
  BY <1>1, <1>2 DEF EventOk, MergedWell
<1> QED BY <1>1, <1>3, <1>4 DEF EventOk

LEMMA ReserveRows ==
    ASSUME LedgerType, RowsInv, NEW g \in Grants, Reserve(g)
    PROVE  RowsInv'
<1>1. /\ grants'[g] = [NoGrant EXCEPT !.status = "reserved", !.generation = profile.generation]
      /\ \A i \in Grants : i # g => grants'[i] = grants[i]
      /\ UNCHANGED <<profile, replaced, sessions, receipts, outbox, history>>
      /\ grants[g].status = "none"
  BY DEF LedgerType, Reserve
<1>2. ASSUME NEW i \in Grants PROVE SessionOk(i)'
  <2>1. CASE i = g
    BY <1>1, <2>1 DEF RowsInv, SessionOk, NoGrant, Ending
  <2> QED BY <1>1, <2>1, SameSession
<1>3. ASSUME NEW i \in Grants, NEW k \in Keys PROVE EventOk(i, k)'
  <2>1. CASE i = g
    <3>1. EventOk(g, k) /\ receipts[g][k] = "none"
      BY <1>1 DEF RowsInv, EventOk
    <3>2. history[<<g, k>>] = 0 /\ ~Waiting(outbox[g][k])
      BY <1>1, <3>1 DEF EventOk, MergedWell, WaitsWell
    <3> QED BY <1>1, <2>1, <3>1, <3>2 DEF EventOk, MergedWell, WaitsWell, SaysWell
  <2> QED BY <1>1, <2>1, SameEvent
<1> QED BY <1>2, <1>3 DEF RowsInv

LEMMA AbandonRows ==
    ASSUME LedgerType, RowsInv, NEW g \in Grants, Abandon(g)
    PROVE  RowsInv'
<1>1. /\ grants'[g] = [grants[g] EXCEPT !.status = "revoked"] /\ grants[g] \in GrantType
      /\ \A i \in Grants : i # g => grants'[i] = grants[i]
      /\ UNCHANGED <<profile, replaced, sessions, receipts, outbox, history>>
      /\ grants[g].status = "reserved"
  BY DEF LedgerType, Abandon
<1>2. ASSUME NEW i \in Grants PROVE SessionOk(i)'
  <2>1. CASE i = g
    BY <1>1, <2>1 DEF RowsInv, SessionOk, NoSession, Ending, GrantType
  <2> QED BY <1>1, <2>1, SameSession
<1>3. ASSUME NEW i \in Grants, NEW k \in Keys PROVE EventOk(i, k)'
  <2>1. CASE i = g
    BY <1>1, <2>1 DEF RowsInv, EventOk, MergedWell, WaitsWell, SaysWell, GrantType
  <2> QED BY <1>1, <2>1, SameEvent
<1> QED BY <1>2, <1>3 DEF RowsInv

LEMMA RevokeSessionRows ==
    ASSUME LedgerType, RowsInv, NEW g \in Grants, RevokeSession(g)
    PROVE  RowsInv'
<1>1. /\ grants'[g] = [grants[g] EXCEPT !.status = "revoked"] /\ grants[g] \in GrantType
      /\ \A i \in Grants : i # g =>
            grants'[i] = grants[i] /\ sessions'[i] = sessions[i] /\ outbox'[i] = outbox[i]
      /\ sessions'[g] = Ended(sessions[g]) /\ sessions[g] \in SessionType
      /\ \A k \in Keys : outbox'[g][k] = Withdrawn(outbox[g][k])
      /\ UNCHANGED <<profile, replaced, receipts, history>>
  BY DEF LedgerType, RevokeSession
<1>2. ASSUME NEW i \in Grants PROVE SessionOk(i)'
  <2>1. CASE i = g
    BY <1>1, <2>1, EndedFacts DEF SessionOk, Ending, GrantType
  <2> QED BY <1>1, <2>1, SameSession
<1>3. ASSUME NEW i \in Grants, NEW k \in Keys PROVE EventOk(i, k)'
  <2>1. CASE i = g
    <3>1. /\ grants'[g].generation = grants[g].generation /\ grants'[g].kind = grants[g].kind
          /\ grants'[g].status = "revoked"
      BY <1>1 DEF GrantType
    <3> QED BY <1>1, <2>1, <3>1, WithdrawnEvent
  <2> QED BY <1>1, <2>1, SameEvent
<1> QED BY <1>2, <1>3 DEF RowsInv

LEMMA RevokeDeviceRows ==
    ASSUME LedgerType, RowsInv, RevokeDevice
    PROVE  RowsInv'
<1>1. /\ profile'.generation = profile.generation /\ ~profile'.bound
      /\ \A i \in Grants : sessions'[i] = Ended(sessions[i]) /\ sessions[i] \in SessionType
      /\ \A i \in Grants, k \in Keys : outbox'[i][k] = Withdrawn(outbox[i][k])
      /\ UNCHANGED <<grants, replaced, receipts, history>>
  BY DEF LedgerType, RevokeDevice
<1>2. ASSUME NEW i \in Grants PROVE SessionOk(i)'
  BY <1>1, EndedFacts DEF RowsInv, SessionOk, Ending
<1>3. ASSUME NEW i \in Grants, NEW k \in Keys PROVE EventOk(i, k)'
  BY <1>1, WithdrawnEvent
<1> QED BY <1>2, <1>3 DEF RowsInv

\* The history starts over: what was merged is gone, what waited is withdrawn,
\* and every grant that lived was of the generation that ends.
LEMMA ClearHistoryRows ==
    ASSUME LedgerType, RowsInv, ClearHistory
    PROVE  RowsInv'
<1>1. /\ profile'.generation = profile.generation + 1 /\ profile.generation \in Nat
      /\ \A i \in Grants :
            /\ sessions'[i] = Ended(sessions[i]) /\ sessions[i] \in SessionType
            /\ grants[i] \in GrantType
            /\ grants'[i] = IF OfGeneration(i) THEN [grants[i] EXCEPT !.status = "revoked"]
                            ELSE grants[i]
      /\ \A i \in Grants, k \in Keys :
            outbox'[i][k] = IF outbox[i][k].generation = profile.generation
                            THEN Withdrawn(outbox[i][k]) ELSE outbox[i][k]
      /\ \A id \in Ids : history'[id] = 0
      /\ UNCHANGED <<replaced, receipts>>
  BY DEF LedgerType, ClearHistory, NoHistory
<1>2. ASSUME NEW i \in Grants
      PROVE  /\ grants'[i].status \notin {"reserved", "active", "released"}
             /\ grants'[i].status = "none" => grants[i].status = "none"
  BY <1>1 DEF RowsInv, SessionOk, OfGeneration, GrantType
<1>3. ASSUME NEW i \in Grants PROVE SessionOk(i)'
  <2>1. grants'[i].status = "none" => sessions'[i] = NoSession
    BY <1>1, <1>2, EndedFacts DEF RowsInv, SessionOk
  <2>2. sessions'[i].state \in {"none", "released"}
    BY <1>1, EndedFacts
  <2> QED BY <1>2, <2>1, <2>2 DEF SessionOk
<1>4. ASSUME NEW i \in Grants, NEW k \in Keys PROVE EventOk(i, k)'
  <2>1. outbox[i][k] \in DispatchType /\ EventOk(i, k)
    BY DEF LedgerType, RowsInv
  <2>2. /\ ~Waiting(outbox'[i][k]) /\ outbox'[i][k].generation = outbox[i][k].generation
        /\ SaysWell(outbox'[i][k])
    BY <1>1, <2>1, WithdrawnFacts DEF EventOk, WaitsWell
  <2>3. history'[<<i, k>>] = 0
    BY <1>1 DEF Ids
  <2>4. outbox[i][k].generation \in Nat
    BY <2>1 DEF DispatchType
  <2>5. MergedWell(i, k)'
    BY <1>1, <2>1, <2>2, <2>3, <2>4 DEF EventOk, MergedWell
  <2>6. grants'[i].status \in {"none", "reserved"} => receipts'[i][k] = "none"
    BY <1>1, <1>2, <2>1 DEF EventOk
  <2> QED BY <2>2, <2>5, <2>6 DEF EventOk, WaitsWell, SaysWell
<1> QED BY <1>3, <1>4 DEF RowsInv

\* What finalization makes of the other rows: of the session it replaces, if
\* that has rows, and of nothing else.
LEMMA FinalizeOthers ==
    ASSUME LedgerType, NEW g \in Grants, NEW kind \in Kinds,
           NEW s \in Grants \cup {None}, Finalize(g, kind, s), NEW i \in Grants, i # g
    PROVE  \/ /\ grants'[i] = grants[i] /\ sessions'[i] = sessions[i] /\ outbox'[i] = outbox[i]
              /\ grants[i].status = "none" \/ replaced'[i] = replaced[i]
           \/ /\ grants'[i] = [grants[i] EXCEPT !.status = "superseded"]
              /\ sessions'[i] = Ended(sessions[i])
              /\ \A k \in Keys : outbox'[i][k] = Withdrawn(outbox[i][k])
<1> DEFINE retired == s # None /\ grants[s].status # "none"
<1>1. CASE ~retired
  BY <1>1 DEF LedgerType, Finalize
<1>2. CASE retired /\ i # s
  BY <1>2 DEF LedgerType, Finalize, Retired
<1>3. CASE retired /\ i = s
  BY <1>3 DEF LedgerType, Finalize, Retired
<1> QED BY <1>1, <1>2, <1>3

LEMMA FinalizeRows ==
    ASSUME LedgerType, RowsInv, NEW g \in Grants, NEW kind \in Kinds,
           NEW s \in Grants \cup {None}, Finalize(g, kind, s)
    PROVE  RowsInv'
<1>1. UNCHANGED <<profile, receipts, history>>
  BY DEF Finalize
<1>2. /\ grants'[g] = [grants[g] EXCEPT !.status = "active", !.kind = kind,
                                        !.state = "playing", !.revision = 1]
      /\ grants[g] \in GrantType /\ grants[g].status = "reserved"
      /\ grants[g].generation = profile.generation /\ profile.bound
      /\ replaced[g] = None /\ replaced'[g] = None /\ outbox'[g] = outbox[g]
      /\ sessions'[g] = IF kind = "canonical" THEN [state |-> "playing", revision |-> 1]
                        ELSE sessions[g]
  BY DEF LedgerType, Finalize, GrantCurrent, BindingCurrent, Retired
<1>3. /\ grants'[g].status = "active" /\ grants'[g].kind = kind
      /\ grants'[g].state = "playing" /\ grants'[g].revision = 1
      /\ grants'[g].generation = grants[g].generation
      /\ grants'[g].generation = profile'.generation
  BY <1>1, <1>2 DEF GrantType
<1>4. ASSUME NEW i \in Grants PROVE SessionOk(i)'
  <2>1. CASE i = g
    <3>1. sessions[g] = NoSession
      BY <1>2 DEF RowsInv, SessionOk
    <3>2. grants'[g].status \notin Ending
      BY <1>3 DEF Ending
    <3>3. CASE kind = "canonical"
      <4>1. sessions'[g].state = "playing" /\ sessions'[g].revision = 1
        BY <1>2, <3>3
      <4>2. SessionMatches(g)'
        BY <1>3, <4>1 DEF SessionMatches
      <4> QED BY <1>3, <2>1, <3>2, <3>3, <4>1, <4>2 DEF SessionOk
    <3>4. CASE kind # "canonical"
      <4>1. sessions'[g] = NoSession
        BY <1>2, <3>1, <3>4
      <4> QED BY <1>3, <2>1, <3>2, <3>4, <4>1 DEF SessionOk
    <3> QED BY <3>3, <3>4
  <2>2. CASE i # g /\ grants'[i] = grants[i] /\ sessions'[i] = sessions[i]
    BY <1>1, <2>2, SameSession
  <2>3. CASE grants'[i] = [grants[i] EXCEPT !.status = "superseded"]
             /\ sessions'[i] = Ended(sessions[i])
    BY <2>3, RowTypes, EndedFacts DEF SessionOk, Ending, GrantType
  <2> QED BY <2>1, <2>2, <2>3, FinalizeOthers
<1>5. ASSUME NEW i \in Grants, NEW k \in Keys PROVE EventOk(i, k)'
  <2>1. CASE i = g
    <3>1. EventOk(g, k) /\ receipts[g][k] = "none"
      BY <1>2 DEF RowsInv, EventOk
    <3>2. history[<<g, k>>] = 0 /\ ~Waiting(outbox[g][k])
      BY <1>2, <3>1 DEF EventOk, MergedWell, WaitsWell
    <3> QED BY <1>1, <1>2, <1>3, <2>1, <3>1, <3>2 DEF EventOk, MergedWell, WaitsWell, SaysWell
  <2>2. CASE grants'[i] = grants[i] /\ outbox'[i] = outbox[i]
             /\ (grants[i].status = "none" \/ replaced'[i] = replaced[i])
    BY <1>1, <2>2 DEF RowsInv, EventOk, WaitsWell, MergedWell, SaysWell
  <2>3. CASE grants'[i] = [grants[i] EXCEPT !.status = "superseded"]
             /\ (\A j \in Keys : outbox'[i][j] = Withdrawn(outbox[i][j]))
    <3>1. /\ grants'[i].generation = grants[i].generation /\ grants'[i].kind = grants[i].kind
          /\ grants'[i].status = "superseded"
      BY <2>3, RowTypes DEF GrantType
    <3> QED BY <1>1, <2>3, <3>1, WithdrawnEvent
  <2> QED BY <2>1, <2>2, <2>3, FinalizeOthers
<1> QED BY <1>4, <1>5 DEF RowsInv

\* What an event makes of the row of its grant.
LEMMA EventGrant ==
    ASSUME LedgerType, NEW g \in Grants, NEW k \in Keys, NEW e \in Events, NEW r,
           ApplyEvent(g, k, e, r), ~Suppressed(g, e)
    PROVE  /\ grants'[g].kind = grants[g].kind
           /\ grants'[g].generation = grants[g].generation
           /\ grants'[g].state = StateFor(e) /\ grants'[g].revision = NextRevision(g, e)
           /\ grants'[g].status = IF Terminal(e) THEN "released" ELSE "active"
           /\ \A i \in Grants : i # g => grants'[i] = grants[i]
<1>1. grants[g] \in GrantType /\ grants[g].status = "active"
  BY RowTypes DEF ApplyEvent, Fresh
<1>2. PICK t : grants' = [grants EXCEPT ![g].state = StateFor(e),
                                ![g].revision = NextRevision(g, e),
                                ![g].status = IF Terminal(e) THEN "released" ELSE @,
                                ![g].terminal = t]
  BY DEF ApplyEvent
<1>3. grants' = [grants EXCEPT ![g] =
         [grants[g] EXCEPT !.state = StateFor(e), !.revision = NextRevision(g, e),
                           !.status = IF Terminal(e) THEN "released" ELSE @, !.terminal = t]]
  BY <1>2 DEF LedgerType
<1>4. grants'[g] = [grants[g] EXCEPT !.state = StateFor(e), !.revision = NextRevision(g, e),
                           !.status = IF Terminal(e) THEN "released" ELSE @, !.terminal = t]
  BY <1>3 DEF LedgerType
<1> QED BY <1>1, <1>3, <1>4 DEF GrantType, LedgerType

\* The event that a dispatch carries says where the player is.
LEMMA DispatchSays ==
    ASSUME NEW e \in AllEvents
    PROVE  StateFor(e) \in Says(Action(DispatchEvent(e)))
  BY DEF AllEvents, StateFor, Terminal, DispatchEvent, Action, Says

LEMMA ApplyEventRows ==
    ASSUME LedgerType, Untouched, RowsInv, NEW g \in Grants, NEW k \in Keys, NEW e \in Events,
           NEW r, ApplyEvent(g, k, e, r)
    PROVE  RowsInv'
<1>1. /\ UNCHANGED <<profile, replaced>> /\ profile.bound /\ replaced[g] = None
      /\ grants[g].generation = profile.generation /\ grants[g].status = "active"
      /\ receipts[g][k] = "none" /\ receipts'[g][k] = e /\ e \in AllEvents /\ e # "none"
      /\ \A i \in Grants, j \in Keys : i # g \/ j # k => receipts'[i][j] = receipts[i][j]
  BY LedgerAssumption DEF LedgerType, ApplyEvent, Fresh, GrantCurrent, BindingCurrent, AllEvents
<1>2. grants[g] \in GrantType /\ profile.generation \in Nat /\ outbox[g][k] = NoDispatch
  BY <1>1, RowTypes DEF LedgerType, Untouched
<1>3. SessionOk(g) /\ EventOk(g, k)
  BY DEF RowsInv
<1>4. history[<<g, k>>] = 0 /\ outbox[g][k].status = "none" /\ outbox[g][k].generation = 0
  BY <1>1, <1>2, <1>3 DEF EventOk, MergedWell, NoDispatch
<1>5. CASE Suppressed(g, e)
  <2>1. UNCHANGED <<grants, sessions, outbox, history>>
    BY <1>5 DEF ApplyEvent
  <2>2. ASSUME NEW i \in Grants, NEW j \in Keys PROVE EventOk(i, j)'
    <3>1. EventOk(i, j)
      BY DEF RowsInv
    <3>2. CASE i = g /\ j = k
      BY <1>1, <1>4, <2>1, <3>1, <3>2 DEF EventOk, WaitsWell, MergedWell, SaysWell, Waiting
    <3>3. CASE i # g \/ j # k
      BY <1>1, <2>1, <3>1, <3>3 DEF EventOk, WaitsWell, MergedWell, SaysWell
    <3> QED BY <3>2, <3>3
  <2> QED BY <1>1, <2>1, <2>2, SameSession DEF RowsInv
<1>6. CASE ~Suppressed(g, e)
  <2>1. /\ grants'[g].kind = grants[g].kind
        /\ grants'[g].generation = grants[g].generation
        /\ grants'[g].state = StateFor(e) /\ grants'[g].revision = NextRevision(g, e)
        /\ grants'[g].status = IF Terminal(e) THEN "released" ELSE "active"
        /\ \A i \in Grants : i # g => grants'[i] = grants[i]
    BY <1>6, EventGrant
  <2>2. /\ \A i \in Grants, j \in Keys :
              i # g \/ j # k => history'[<<i, j>>] = history[<<i, j>>]
        /\ history'[<<g, k>>] = IF grants[g].kind = "negative" THEN 0 ELSE 1
    <3>1. /\ <<g, k>> \in Ids /\ history \in [Ids -> Nat]
          /\ history' = Merge(g, k)
      BY <1>6 DEF LedgerType, ApplyEvent, Ids
    <3> QED BY <1>4, <3>1 DEF Merge, Ids
  <2>3. Enqueue(g, k, e)
    BY <1>6 DEF ApplyEvent
  <2>4. /\ \A i \in Grants : i # g => sessions'[i] = sessions[i]
        /\ \A i \in Grants, j \in Keys : i # g \/ j # k => outbox'[i][j] = outbox[i][j]
        /\ IF grants[g].kind = "canonical"
           THEN /\ sessions'[g] = [state |-> StateFor(e), revision |-> NextRevision(g, e)]
                /\ outbox'[g][k] = Dispatch(g, e)
           ELSE sessions'[g] = sessions[g] /\ outbox'[g][k] = outbox[g][k]
    BY <2>3 DEF Enqueue, LedgerType
  <2>5. StateFor(e) # "none" /\ (Terminal(e) => StateFor(e) = "released")
    BY DEF StateFor, Terminal
  <2>6. ASSUME NEW i \in Grants PROVE SessionOk(i)'
    <3>1. CASE i # g
      BY <1>1, <2>1, <2>4, <3>1, SameSession
    <3>2. CASE i = g /\ grants[g].kind = "canonical"
      <4>1. sessions'[g].state = StateFor(e) /\ sessions'[g].revision = NextRevision(g, e)
        BY <2>4, <3>2
      <4> QED BY <1>1, <2>1, <2>5, <3>2, <4>1 DEF SessionOk, SessionMatches, Ending
    <3>3. CASE i = g /\ grants[g].kind # "canonical"
      <4>1. sessions'[g] = NoSession /\ NoSession.state = "none"
        BY <1>1, <1>3, <2>4, <3>3 DEF SessionOk, NoSession
      <4> QED BY <1>1, <2>1, <2>5, <3>3, <4>1 DEF SessionOk, SessionMatches, Ending
    <3> QED BY <3>1, <3>2, <3>3
  <2>7. ASSUME NEW i \in Grants, NEW j \in Keys PROVE EventOk(i, j)'
    <3>1. CASE i # g
      BY <1>1, <2>1, <2>2, <2>4, <3>1, SameEvent
    <3>2. CASE i = g /\ j # k
      <4>1. EventOk(g, j)
        BY DEF RowsInv
      <4>2. grants'[g].status \in {"active", "released"}
        BY <2>1
      <4> QED BY <1>1, <2>1, <2>2, <2>4, <3>2, <4>1, <4>2
              DEF EventOk, WaitsWell, MergedWell, SaysWell
    <3>3. CASE i = g /\ j = k /\ grants[g].kind = "canonical"
      <4>1. /\ outbox'[g][k].status = "queued" /\ outbox'[g][k].event = DispatchEvent(e)
            /\ outbox'[g][k].state = StateFor(e)
            /\ outbox'[g][k].generation = grants[g].generation
        BY <2>4, <3>3 DEF Dispatch
      <4>2. SaysWell(outbox[g][k])'
        BY <1>1, <4>1, DispatchSays DEF SaysWell
      <4>3. WaitsWell(g, k)'
        BY <1>1, <2>1, <3>3, <4>1 DEF WaitsWell
      <4>4. MergedWell(g, k)'
        BY <1>1, <1>2, <2>1, <2>2, <3>3, <4>1 DEF MergedWell
      <4> QED BY <2>1, <3>3, <4>2, <4>3, <4>4 DEF EventOk
    <3>4. CASE i = g /\ j = k /\ grants[g].kind # "canonical"
      <4>1. outbox'[g][k].status = "none" /\ outbox'[g][k].generation = 0
        BY <1>4, <2>4, <3>4
      <4>2. profile.generation > 0
        BY DEF LedgerType
      <4> QED BY <1>1, <1>2, <2>1, <2>2, <3>4, <4>1, <4>2
              DEF EventOk, WaitsWell, MergedWell, SaysWell, Waiting
    <3> QED BY <3>1, <3>2, <3>3, <3>4
  <2> QED BY <2>6, <2>7 DEF RowsInv
<1> QED BY <1>5, <1>6

-----------------------------------------------------------------------------
(* The steps of the workers and of time.                                     *)

\* A worker only moves a dispatch on: it makes none, and lets none wait again.
LEMMA PutRows ==
    ASSUME LedgerType, RowsInv, NEW id \in Ids, NEW d \in DispatchType, Put(id, d),
           UNCHANGED restOfLedger,
           At(id).status # "none", d.status # "none", Waiting(d) => Waiting(At(id)),
           d.generation = At(id).generation, d.event = At(id).event, d.state = At(id).state
    PROVE  RowsInv'
<1>1. \A g \in Grants, k \in Keys : outbox'[g][k] = IF <<g, k>> = id THEN d ELSE outbox[g][k]
  BY IdParts DEF LedgerType, Put
<1>2. ASSUME NEW i \in Grants PROVE SessionOk(i)'
  BY SameSession DEF restOfLedger
<1>3. ASSUME NEW i \in Grants, NEW k \in Keys PROVE EventOk(i, k)'
  <2>1. CASE <<i, k>> = id
    <3>1. EventOk(i, k) /\ At(id) = outbox[i][k] /\ outbox'[i][k] = d
      BY <1>1, <2>1 DEF RowsInv, At
    <3>2. SaysWell(outbox[i][k])'
      BY <3>1 DEF EventOk, SaysWell
    <3>3. WaitsWell(i, k)'
      BY <3>1 DEF EventOk, WaitsWell, restOfLedger
    <3>4. MergedWell(i, k)'
      BY <3>1 DEF EventOk, MergedWell, restOfLedger
    <3> QED BY <3>1, <3>2, <3>3, <3>4 DEF EventOk, restOfLedger
  <2>2. CASE <<i, k>> # id
    BY <1>1, <2>2, SameEvent DEF restOfLedger
  <2> QED BY <2>1, <2>2
<1> QED BY <1>2, <1>3 DEF RowsInv

LEMMA SameRows ==
    ASSUME RowsInv, UNCHANGED ledgerVars
    PROVE  RowsInv'
  BY SameSession, SameEvent DEF RowsInv, ledgerVars

LEMMA DeliveredRows ==
    ASSUME IInv, RowsInv, NEW w \in Workers, workers[w].pc # "idle", LeaseOf(w),
           Delivered(workers[w].id), UNCHANGED restOfLedger
    PROVE  RowsInv'
<1> DEFINE id == workers[w].id
           d == [At(id) EXCEPT !.status = "delivered", !.ripe = FALSE]
<1>1. id \in Ids /\ At(id) \in DispatchType
  BY Unpacked, WorkerRow, AtRow
<1>2. /\ d \in DispatchType /\ d.status = "delivered" /\ d.generation = At(id).generation
      /\ d.event = At(id).event /\ d.state = At(id).state
  BY <1>1 DEF DispatchType
<1>3. Put(id, d) /\ At(id).status = "leased"
  BY DEF Delivered, LeaseOf
<1> HIDE DEF d, id
<1> QED BY <1>1, <1>2, <1>3, Unpacked, PutRows DEF Waiting

LEMMA ClaimRows ==
    ASSUME IInv, RowsInv, NEW w \in Workers, NEW id \in Ids, Claim(w, id)
    PROVE  RowsInv'
<1> DEFINE d == [At(id) EXCEPT !.status = "leased", !.attempts = At(id).attempts + 1,
                               !.ripe = FALSE]
<1>1. At(id) \in DispatchType /\ At(id).attempts + 1 \in Nat
  BY Unpacked, AtRow DEF DispatchType
<1>2. /\ d \in DispatchType /\ d.status = "leased" /\ d.generation = At(id).generation
      /\ d.event = At(id).event /\ d.state = At(id).state
  BY <1>1 DEF DispatchType
<1>3. Put(id, d) /\ Waiting(At(id)) /\ UNCHANGED restOfLedger
  BY DEF Claim
<1> HIDE DEF d
<1> QED BY <1>1, <1>2, <1>3, Unpacked, PutRows DEF Waiting

LEMMA RetryRows ==
    ASSUME IInv, RowsInv, NEW w \in Workers, RetryDispatch(w)
    PROVE  RowsInv'
<1> DEFINE id == workers[w].id
           d == IF At(id).generation = profile.generation THEN PutOff(At(id))
                ELSE Withdrawn(At(id))
<1>1. id \in Ids /\ At(id) \in DispatchType /\ UNCHANGED restOfLedger
  BY Unpacked, WorkerRow, AtRow DEF RetryDispatch
<1>2. CASE ~LeaseOf(w)
  BY <1>1, <1>2, SameRows DEF RetryDispatch, restOfLedger, ledgerVars
<1>3. CASE LeaseOf(w)
  <2>1. Put(id, d) /\ At(id).status = "leased"
    BY <1>3 DEF RetryDispatch, LeaseOf
  <2>2. /\ d \in DispatchType /\ d.status # "none" /\ d.generation = At(id).generation
        /\ d.event = At(id).event /\ d.state = At(id).state
    BY <1>1, <2>1 DEF DispatchType, PutOff, Withdrawn, Waiting
  <2> HIDE DEF d, id
  <2> QED BY <1>1, <2>1, <2>2, Unpacked, PutRows DEF Waiting
<1> QED BY <1>2, <1>3

LEMMA RipenRows ==
    ASSUME IInv, RowsInv, NEW id \in Ids, Ripen(id)
    PROVE  RowsInv'
<1> DEFINE d == [At(id) EXCEPT !.ripe = TRUE]
<1>1. At(id) \in DispatchType
  BY Unpacked, AtRow
<1>2. /\ d \in DispatchType /\ d.status = At(id).status /\ d.generation = At(id).generation
      /\ d.event = At(id).event /\ d.state = At(id).state
  BY <1>1 DEF DispatchType
<1>3. Put(id, d) /\ Waiting(At(id)) /\ UNCHANGED restOfLedger
  BY DEF Ripen
<1> HIDE DEF d
<1> QED BY <1>1, <1>2, <1>3, Unpacked, PutRows DEF Waiting

LEMMA InitRows == Init => RowsInv
<1> SUFFICES ASSUME Init PROVE RowsInv
  OBVIOUS
<1>1. ASSUME NEW g \in Grants PROVE SessionOk(g)
  BY DEF Init, LedgerInit, SessionOk, NoGrant, NoSession, Ending
<1>2. ASSUME NEW g \in Grants, NEW k \in Keys PROVE EventOk(g, k)
  BY DEF Init, LedgerInit, EventOk, WaitsWell, MergedWell, SaysWell, Waiting, NoGrant,
         NoDispatch, NoHistory, Ids
<1> QED BY <1>1, <1>2 DEF RowsInv

LEMMA NextRows == IInv /\ RowsInv /\ [Next]_vars => RowsInv'
<1> SUFFICES ASSUME IInv, RowsInv, [Next]_vars PROVE RowsInv'
  OBVIOUS
<1>1. LedgerType /\ Untouched
  BY Unpacked
<1>2. CASE Player
  <2>1. PICK g \in Grants :
           \/ Reserve(g)
           \/ \E kind \in Kinds, s \in Grants \cup {None} : Finalize(g, kind, s)
           \/ \E k \in Keys, e \in Events : Play(g, k, e)
           \/ RevokeSession(g)
    BY <1>2 DEF Player
  <2> QED BY <1>1, <2>1, ReserveRows, FinalizeRows, ApplyEventRows, RevokeSessionRows DEF Play
<1>3. CASE Expire
  BY <1>1, <1>3, AbandonRows DEF Expire
<1>4. CASE Owner
  BY <1>1, <1>4, ClearHistoryRows, RevokeDeviceRows DEF Owner
<1>5. ASSUME NEW w \in Workers, WorkerStep(w) PROVE RowsInv'
  <2>1. CASE Consume(w)
    <3>1. CASE Admitted(w)
      BY <2>1, <3>1, DeliveredRows DEF Consume, Admitted
    <3>2. CASE ~Admitted(w)
      BY <2>1, <3>2, SameRows DEF Consume, restOfLedger, ledgerVars
    <3> QED BY <3>1, <3>2
  <2>2. CASE Settle(w)
    <3>1. CASE holder = w /\ LeaseOf(w)
      BY <2>2, <3>1, DeliveredRows DEF Settle
    <3>2. CASE ~(holder = w /\ LeaseOf(w))
      BY <2>2, <3>2, SameRows DEF Settle, restOfLedger, ledgerVars
    <3> QED BY <3>1, <3>2
  <2>3. CASE RetryDispatch(w)
    BY <2>3, RetryRows
  <2>4. CASE Resolve(w) \/ Admit(w) \/ Issue(w) \/ Fail(w) \/ Refuse(w)
    BY <2>4, SameRows DEF Resolve, Admit, Issue, Fail, Refuse
  <2> QED BY <1>5, <2>1, <2>2, <2>3, <2>4 DEF WorkerStep
<1>6. CASE \E w \in Workers, id \in Ids : Claim(w, id)
  BY <1>6, ClaimRows
<1>7. CASE \E id \in Ids : Ripen(id)
  BY <1>7, RipenRows
<1>8. CASE LoseConnection \/ (\E w \in Workers : Crash(w)) \/ UNCHANGED vars
  BY <1>8, SameRows DEF LoseConnection, Crash, vars
<1> QED BY <1>2, <1>3, <1>4, <1>5, <1>6, <1>7, <1>8 DEF Next

-----------------------------------------------------------------------------
(* The admission, and what it holds.                                         *)

HeldInv ==
    holder # None =>
        /\ workers[holder].pc \in {"calling", "called"}
        /\ LeaseOf(holder)
        /\ Admissible(workers[holder].id)

RInv == IInv /\ RowsInv /\ HeldInv

\* A step that leaves the worker that holds the row, its dispatch but for the
\* end of its lease, and the session of it alone.
LEMMA StillHeld ==
    ASSUME IInv, HeldInv, NEW w \in Workers, holder = w, holder' = w,
           workers'[w].id = workers[w].id, workers'[w].attempt = workers[w].attempt,
           workers'[w].pc \in {"calling", "called"},
           UNCHANGED <<profile, sessions>>,
           NEW d \in DispatchType, At(workers[w].id)' = d,
           d.status = At(workers[w].id).status, d.attempts = At(workers[w].id).attempts,
           d.generation = At(workers[w].id).generation, d.state = At(workers[w].id).state,
           d.revision = At(workers[w].id).revision
    PROVE  HeldInv'
<1>1. w # None
  BY OutboxAssumption
<1>2. LeaseOf(w) /\ Admissible(workers[w].id)
  BY <1>1 DEF HeldInv
<1> DEFINE id == workers[w].id
<1>3. outbox'[id[1]][id[2]] = d
  BY DEF At
<1>4. LeaseOf(w)'
  BY <1>2, <1>3 DEF LeaseOf, At
<1>5. Admissible(workers[w].id)'
  BY <1>2, <1>3 DEF Admissible, At
<1> QED BY <1>4, <1>5 DEF HeldInv

LEMMA PutAt ==
    ASSUME LedgerType, NEW id \in Ids, NEW d, Put(id, d), NEW j \in Ids
    PROVE  At(j)' = IF j = id THEN d ELSE At(j)
<1>1. \A g \in Grants, k \in Keys : outbox'[g][k] = IF <<g, k>> = id THEN d ELSE outbox[g][k]
  BY IdParts DEF LedgerType, Put
<1>2. j = <<j[1], j[2]>> /\ j[1] \in Grants /\ j[2] \in Keys
  BY IdParts
<1>3. outbox'[j[1]][j[2]] = IF j = id THEN d ELSE outbox[j[1]][j[2]]
  BY <1>1, <1>2
<1> QED BY <1>3 DEF At

\* A step that touches neither the ledger nor the worker that holds the row.
LEMMA HeldAside ==
    ASSUME IInv, HeldInv, holder # None, holder' = holder, workers'[holder] = workers[holder],
           UNCHANGED <<profile, sessions, outbox>>
    PROVE  HeldInv'
<1>1. holder \in Workers /\ workers[holder].pc # "idle"
  BY Unpacked DEF HeldInv
<1>2. workers[holder].id \in Ids /\ At(workers[holder].id) \in DispatchType
  BY <1>1, Unpacked, WorkerRow, AtRow
<1>3. At(workers[holder].id)' = At(workers'[holder].id)
  BY DEF At
<1>4. workers'[holder].pc \in {"calling", "called"}
  BY DEF HeldInv
<1> QED BY <1>1, <1>2, <1>3, <1>4, StillHeld DEF At

\* The worker that holds the row sends, or fails to.
LEMMA HeldCalls ==
    ASSUME IInv, HeldInv, NEW w \in Workers, workers[w].pc = "calling", Goto(w, "called"),
           holder # None, holder' = holder, UNCHANGED ledgerVars
    PROVE  HeldInv'
<1>1. /\ workers'[w].pc = "called" /\ workers'[w].id = workers[w].id
      /\ workers'[w].attempt = workers[w].attempt
      /\ \A v \in Workers : v # w => workers'[v] = workers[v]
  BY Unpacked, GotoRow DEF Unambiguous, MaySend
<1>2. CASE holder # w
  BY <1>1, <1>2, Unpacked, HeldAside DEF ledgerVars
<1>3. CASE holder = w
  <2>1. workers[w].id \in Ids /\ At(workers[w].id) \in DispatchType
    BY Unpacked, WorkerRow, AtRow
  <2>2. At(workers[w].id)' = At(workers[w].id)
    BY <1>1 DEF At, ledgerVars
  <2> QED BY <1>1, <1>3, <2>1, <2>2, StillHeld DEF ledgerVars
<1> QED BY <1>2, <1>3

LEMMA AdmitHeld ==
    ASSUME IInv, NEW w \in Workers, Admit(w)
    PROVE  HeldInv'
<1>1. CASE Admitted(w)
  <2>1. Goto(w, "calling") /\ holder' = w /\ UNCHANGED ledgerVars
    BY <1>1 DEF Admit
  <2>2. /\ workers'[w].pc = "calling" /\ workers'[w].id = workers[w].id
        /\ workers'[w].attempt = workers[w].attempt
    BY <2>1, Unpacked, GotoRow DEF Admit, Unambiguous, MaySend
  <2>3. LeaseOf(w)'
    BY <1>1, <2>1, <2>2 DEF Admitted, LeaseOf, At, ledgerVars
  <2>4. Admissible(workers[w].id)'
    BY <1>1, <2>1, <2>2 DEF Admitted, Admissible, At, ledgerVars
  <2> QED BY <2>1, <2>2, <2>3, <2>4 DEF HeldInv
<1>2. CASE ~Admitted(w)
  BY <1>2 DEF Admit, HeldInv
<1> QED BY <1>1, <1>2

\* Another worker's claim is of another dispatch.
LEMMA ClaimHeld ==
    ASSUME IInv, HeldInv, holder # None, NEW w \in Workers, NEW id \in Ids, Claim(w, id)
    PROVE  HeldInv'
<1>1. /\ holder \in Workers /\ holder # w /\ workers[holder].pc # "idle"
      /\ workers[holder].id # id /\ holder' = holder /\ UNCHANGED restOfLedger
  BY Unpacked DEF HeldInv, Claim, Locked
<1>2. workers'[holder] = workers[holder] /\ workers[holder].id \in Ids
  BY <1>1, Unpacked, WorkerRow DEF Claim
<1>3. At(workers[holder].id)' = At(workers[holder].id)
  <2>1. \A j \in Ids : At(j)' = IF j = id
                              THEN [At(id) EXCEPT !.status = "leased",
                                                  !.attempts = At(id).attempts + 1, !.ripe = FALSE]
                              ELSE At(j)
    BY Unpacked, PutAt DEF Claim
  <2>2. \A j \in Ids : j # id => At(j)' = At(j)
    BY <2>1
  <2>3. outbox'[workers[holder].id[1]][workers[holder].id[2]]
           = outbox[workers[holder].id[1]][workers[holder].id[2]]
    BY <1>1, <1>2, <2>2 DEF At
  <2> QED BY <1>1, <1>2, <2>3 DEF At
<1>4. At(workers[holder].id) \in DispatchType
  BY <1>2, Unpacked, AtRow
<1> QED BY <1>1, <1>2, <1>3, <1>4, StillHeld DEF HeldInv, restOfLedger

LEMMA RipenHeld ==
    ASSUME IInv, HeldInv, holder # None, NEW id \in Ids, Ripen(id)
    PROVE  HeldInv'
<1> DEFINE h == workers[holder].id
           d == IF h = id THEN [At(id) EXCEPT !.ripe = TRUE] ELSE At(h)
<1>1. /\ holder \in Workers /\ holder' = holder /\ UNCHANGED restOfLedger
      /\ workers' = workers /\ h \in Ids
      /\ workers[holder].pc \in {"calling", "called"}
  BY Unpacked, WorkerRow DEF HeldInv, Ripen
<1>2. At(id) \in DispatchType /\ At(h) \in DispatchType
  BY <1>1, Unpacked, AtRow
<1>3. /\ d \in DispatchType /\ d.status = At(h).status /\ d.attempts = At(h).attempts
      /\ d.generation = At(h).generation /\ d.state = At(h).state
      /\ d.revision = At(h).revision
  BY <1>2 DEF DispatchType
<1>4. At(h)' = d
  <2>1. \A j \in Ids : At(j)' = IF j = id THEN [At(id) EXCEPT !.ripe = TRUE] ELSE At(j)
    BY Unpacked, PutAt DEF Ripen
  <2>2. outbox'[h[1]][h[2]] = d
    BY <1>1, <2>1 DEF At
  <2> QED BY <1>1, <2>2 DEF At
<1> HIDE DEF d
<1> QED BY <1>1, <1>3, <1>4, StillHeld DEF restOfLedger

LEMMA NextHeld == IInv /\ HeldInv /\ [Next]_vars => HeldInv'
<1> SUFFICES ASSUME IInv, HeldInv, [Next]_vars PROVE HeldInv'
  OBVIOUS
<1>1. CASE Player \/ Owner
  BY <1>1 DEF Player, Owner, Unlocked, HeldInv
<1>2. CASE holder = None
  <2>1. CASE \E w \in Workers : Admit(w)
    BY <2>1, AdmitHeld
  <2>2. CASE ~\E w \in Workers : Admit(w)
    <3>1. holder' = None
      BY <1>1, <1>2, <2>2 DEF Next, WorkerStep, Expire, Claim, Ripen, LoseConnection, Crash,
         Consume, Resolve, Issue, Fail, Refuse, Settle, RetryDispatch, Release, Player, Owner, vars
    <3> QED BY <3>1 DEF HeldInv
  <2> QED BY <2>1, <2>2
<1>3. CASE holder # None
  <2>1. holder \in Workers /\ workers[holder].pc \in {"calling", "called"}
    BY <1>3, Unpacked DEF HeldInv
  <2>2. CASE Expire \/ UNCHANGED vars
    BY <1>3, <2>2, HeldAside DEF Expire, Abandon, vars, ledgerVars
  <2>3. ASSUME NEW w \in Workers, WorkerStep(w) PROVE HeldInv'
    <3>1. CASE Consume(w) \/ Admit(w) \/ RetryDispatch(w)
      BY <1>3, <3>1 DEF Consume, Admit, RetryDispatch
    <3>2. CASE Resolve(w)
      <4>1. holder # w /\ workers'[holder] = workers[holder]
        BY <2>1, <3>2, Unpacked DEF Resolve, Goto
      <4> QED BY <1>3, <3>2, <4>1, HeldAside DEF Resolve, ledgerVars
    <3>3. CASE Issue(w) \/ Fail(w)
      BY <1>3, <3>3, HeldCalls DEF Issue, Fail
    <3>4. CASE (Refuse(w) \/ Settle(w)) /\ holder = w
      BY <3>4 DEF Refuse, Settle, Release, HeldInv
    <3>5. CASE (Refuse(w) \/ Settle(w)) /\ holder # w
      <4>1. workers'[holder] = workers[holder] /\ holder' = holder
        BY <2>1, <3>5, Unpacked DEF Refuse, Settle, Release, Goto, Rest, WorkersType
      <4> QED BY <1>3, <3>5, <4>1, HeldAside DEF Refuse, Settle, ledgerVars, restOfLedger
    <3> QED BY <2>3, <3>1, <3>2, <3>3, <3>4, <3>5 DEF WorkerStep
  <2>4. CASE \E w \in Workers, id \in Ids : Claim(w, id)
    BY <1>3, <2>4, ClaimHeld
  <2>5. CASE \E id \in Ids : Ripen(id)
    BY <1>3, <2>5, RipenHeld
  <2>6. CASE LoseConnection
    BY <2>6 DEF LoseConnection, HeldInv
  <2>7. ASSUME NEW w \in Workers, Crash(w) PROVE HeldInv'
    <3>1. CASE holder = w
      BY <2>7, <3>1 DEF Crash, Release, HeldInv
    <3>2. CASE holder # w
      <4>1. workers'[holder] = workers[holder] /\ holder' = holder
        BY <2>1, <2>7, <3>2, Unpacked DEF Crash, Release, Rest, WorkersType
      <4> QED BY <1>3, <2>7, <4>1, HeldAside DEF Crash, ledgerVars
    <3> QED BY <3>1, <3>2
  <2> QED BY <1>1, <2>2, <2>3, <2>4, <2>5, <2>6, <2>7 DEF Next
<1> QED BY <1>2, <1>3

-----------------------------------------------------------------------------
(* The theorems.                                                             *)

\* The inductive invariant holds in every state.
THEOREM Rows == Spec => []RInv
<1>1. Init => HeldInv
  BY DEF Init, HeldInv
<1>2. RInv /\ [Next]_vars => RInv'
  BY NextIInv, NextRows, NextHeld DEF RInv
<1> QED BY <1>1, <1>2, InitIInv, InitRows, PTL DEF Spec, RInv

\* An event is merged once, what was cleared stays cleared, and the outbox and
\* the history of a generation hold the same events of canonical grants.
THEOREM AppliedOnceCorrect == Spec => []AppliedOnce
<1>1. RowsInv => AppliedOnce
  <2>1. ASSUME RowsInv, NEW id \in Ids
        PROVE  /\ history[id] <= 1
               /\ history[id] = 1 =>
                     /\ grants[id[1]].generation = profile.generation
                     /\ grants[id[1]].kind = "canonical" => At(id).status # "none"
               /\ At(id).generation = profile.generation => history[id] = 1
    <3>1. id = <<id[1], id[2]>> /\ MergedWell(id[1], id[2])
      BY <2>1, IdParts DEF RowsInv, EventOk
    <3> QED BY <3>1 DEF MergedWell, At
  <2> QED BY <2>1 DEF AppliedOnce
<1> QED BY <1>1, Rows, PTL DEF RInv

\* The rows of grants and of their sessions are moved together.
THEOREM GrantsMatchSessionsCorrect == Spec => []GrantsMatchSessions
<1>1. RowsInv => GrantsMatchSessions
  BY DEF RowsInv, SessionOk, Ending, GrantsMatchSessions
<1> QED BY <1>1, Rows, PTL DEF RInv

\* What may still be admitted is of a grant that is current: the admission need
\* not look at the grants.
THEOREM RowsAgreeCorrect == Spec => []RowsAgree
<1>1. RowsInv => AdmissibleIsAuthorized
  <2>1. ASSUME RowsInv, NEW id \in Ids, Waiting(At(id)), Admissible(id)
        PROVE  /\ GrantCurrent(id[1])
               /\ grants[id[1]].status \in {"active", "released"}
               /\ grants[id[1]].state = At(id).state
    <3>1. /\ id[1] \in Grants /\ SessionOk(id[1]) /\ WaitsWell(id[1], id[2])
          /\ At(id) = outbox[id[1]][id[2]]
      BY <2>1, IdParts DEF RowsInv, EventOk, At
    <3>2. /\ profile.bound /\ replaced[id[1]] = None
          /\ grants[id[1]].status \in {"active", "released"} /\ grants[id[1]].kind = "canonical"
      BY <2>1, <3>1 DEF WaitsWell
    <3>3. grants[id[1]].generation = profile.generation /\ sessions[id[1]].state # "none"
      BY <3>1, <3>2 DEF SessionOk
    <3>4. sessions[id[1]].state = At(id).state
      BY <2>1 DEF Admissible
    <3>5. grants[id[1]].state = At(id).state
      BY <3>1, <3>2, <3>3, <3>4 DEF SessionOk, SessionMatches, Ending
    <3> QED BY <3>2, <3>3, <3>5 DEF GrantCurrent, BindingCurrent
  <2> QED BY <2>1 DEF AdmissibleIsAuthorized
<1> QED BY <1>1, GrantsMatchSessionsCorrect, Rows, PTL DEF RInv, RowsAgree

\* A request leaves under the state of the playback that it reports.
THEOREM SentWhileCurrentCorrect == Spec => SentWhileCurrent
<1>1. ASSUME RInv, NEW w \in Workers, holder = w, Issue(w)
      PROVE  /\ Admissible(workers[w].id) /\ LeaseOf(w)
             /\ sessions[workers[w].id[1]].state \in Says(Action(At(workers[w].id).event))
  <2>1. Admissible(workers[w].id) /\ LeaseOf(w) /\ workers[w].id \in Ids
    BY <1>1, OutboxAssumption, Unpacked, WorkerRow DEF RInv, HeldInv, Issue
  <2>2. SaysWell(At(workers[w].id))
    BY <1>1, <2>1, IdParts DEF RInv, RowsInv, EventOk, At
  <2> QED BY <2>1, <2>2 DEF Admissible, LeaseOf, SaysWell
<1>2. RInv /\ [Next]_vars =>
         [\A w \in Workers :
             holder = w /\ Issue(w) =>
                /\ Admissible(workers[w].id) /\ LeaseOf(w)
                /\ sessions[workers[w].id[1]].state \in Says(Action(At(workers[w].id).event))]_vars
  BY <1>1
<1> QED BY <1>2, Rows, PTL DEF Spec, SentWhileCurrent
=============================================================================
