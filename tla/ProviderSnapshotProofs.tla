----------------------- MODULE ProviderSnapshotProofs -----------------------
(***************************************************************************)
(* Proofs about ProviderSnapshot, for any number of clients, any attempt   *)
(* limit and any number of mutations and faults.  Whether or not state     *)
(* checks are prompt: type correctness; no writer is left that could       *)
(* change the collection once a stable generation is published; and the    *)
(* collection moves behind a pending generation.  When no state check      *)
(* outlives a lease: reads and contexts agree, and the protocol            *)
(* implements SnapshotRegister.                                            *)
(***************************************************************************)
EXTENDS ProviderSnapshot, TLAPS

-----------------------------------------------------------------------------
(* Type correctness.                                                         *)

Tasks == {"none", "begin", "before", "after", "preclear", "clear"}

ClientsTyped == client' \in [Clients -> ClientStates]

LEMMA IdleTyped == Idle \in ClientStates /\ Idle.pc = "idle"
BY BoundsAssumption DEF Idle, ClientStates, Labels, Stable, NoGeneration, Generations

\* A client that becomes a typed state leaves the clients typed.
LEMMA BecomeTyped ==
    ASSUME TypeOK, NEW c \in Clients, NEW r \in ClientStates, Become(c, r)
    PROVE  /\ ClientsTyped
           /\ client'[c] = r
           /\ \A d \in Clients : d # c => client'[d] = client[d]
BY DEF TypeOK, Become, ClientsTyped

\* The turns of the retry loops.
LEMMA RetryTyped ==
    ASSUME TypeOK, NEW c \in Clients, NEW t \in Tasks, Retry(c, t)
    PROVE  /\ ClientsTyped
           /\ client'[c].pc \in {"state", "idle"}
           /\ \A d \in Clients : d # c => client'[d] = client[d]
<1> DEFINE r == [Idle EXCEPT !.pc = "state", !.task = t,
                    !.tries = client[c].tries + 1,
                    !.revision = IF t = "begin" THEN client[c].revision ELSE 0]
<1>1. CASE client[c].tries + 1 < MaxAttempts
  <2>1. client[c] \in ClientStates
    BY DEF TypeOK
  <2>2. r \in ClientStates /\ r.pc = "state"
    <3>1. client[c].tries + 1 \in 0 .. MaxAttempts - 1
      BY <1>1, <2>1, BoundsAssumption DEF ClientStates
    <3>2. (IF t = "begin" THEN client[c].revision ELSE 0) \in Nat \cup {Gone}
      BY <2>1 DEF ClientStates
    <3> QED BY <3>1, <3>2, IdleTyped DEF ClientStates, Labels, Tasks, Observing
  <2>3. Become(c, r)
    BY <1>1 DEF Retry
  <2> QED BY <2>2, <2>3, BecomeTyped
<1>2. CASE ~(client[c].tries + 1 < MaxAttempts)
  BY <1>2, IdleTyped, BecomeTyped DEF Retry, Done
<1> QED BY <1>1, <1>2

\* A step that only edits the client's record.
LEMMA EditTyped ==
    ASSUME TypeOK, NEW c \in Clients, NEW r \in ClientStates, Become(c, r)
    PROVE  ClientsTyped
BY BecomeTyped

LEMMA GenerationsTyped ==
    /\ \A n \in Nat : Stable(n) \in Generations /\ ~Stable(n).pending
    /\ NoGeneration \in Generations
    /\ \A n \in Nat, g \in Generations :
          Pending(n, g) \in Generations /\ Pending(n, g).pending /\ Pending(n, g).id = n
BY DEF Stable, Pending, NoGeneration, Generations

LEMMA FieldsTyped ==
    ASSUME TypeOK, NEW c \in Clients
    PROVE  /\ client[c] \in ClientStates
           /\ generation \in Generations
           /\ client[c].seen \in Generations
BY DEF TypeOK, ClientStates

LEMMA RecheckTyped ==
    ASSUME TypeOK, NEW c \in Clients, Recheck(c)
    PROVE  ClientsTyped /\ client'[c].pc = "state"
                        /\ \A d \in Clients : d # c => client'[d] = client[d]
<1> DEFINE r == [client[c] EXCEPT !.pc = "state", !.resumed = TRUE,
               !.seen = NoGeneration, !.token = NoGeneration,
               !.fence = 0, !.candidate = 0, !.retries = 0]
<1>0. client[c] \in ClientStates /\ NoGeneration \in Generations
  BY FieldsTyped, GenerationsTyped
<1>1. r \in ClientStates /\ r.pc = "state"
  BY <1>0 DEF ClientStates, Labels, Observing
<1> QED BY <1>1, BecomeTyped DEF Recheck

LEMMA RecoverTyped ==
    ASSUME TypeOK, NEW c \in Clients, Recover(c)
    PROVE  ClientsTyped /\ client'[c].pc = "probe"
                        /\ \A d \in Clients : d # c => client'[d] = client[d]
<1> DEFINE r == [client[c] EXCEPT !.pc = "probe", !.seen = NoGeneration,
               !.retries = 0]
<1>0. client[c] \in ClientStates /\ NoGeneration \in Generations
  BY FieldsTyped, GenerationsTyped
<1>1. r \in ClientStates /\ r.pc = "probe"
  BY <1>0 DEF ClientStates, Labels, Observing
<1> QED BY <1>1, BecomeTyped DEF Recover

LEMMA ClearNowTyped ==
    ASSUME TypeOK, NEW c \in Clients, ClearNow(c)
    PROVE  ClientsTyped /\ client'[c].pc = "state"
                        /\ \A d \in Clients : d # c => client'[d] = client[d]
<1> DEFINE r == [Idle EXCEPT !.pc = "state", !.task = "clear"]
<1>1. r \in ClientStates /\ r.pc = "state"
  BY IdleTyped DEF ClientStates, Labels, Observing
<1> QED BY <1>1, BecomeTyped DEF ClearNow

LEMMA DoneTyped ==
    ASSUME TypeOK, NEW c \in Clients, Done(c)
    PROVE  ClientsTyped /\ client'[c].pc = "idle"
                        /\ \A d \in Clients : d # c => client'[d] = client[d]
BY IdleTyped, BecomeTyped DEF Done

LEMMA GotoTyped ==
    ASSUME TypeOK, NEW c \in Clients, NEW l \in Labels, Goto(c, l)
    PROVE  ClientsTyped /\ client'[c] = [client[c] EXCEPT !.pc = l]
                        /\ \A d \in Clients : d # c => client'[d] = client[d]
<1> DEFINE r == [client[c] EXCEPT !.pc = l]
<1>1. r \in ClientStates
  BY FieldsTyped DEF ClientStates
<1> QED BY <1>1, BecomeTyped DEF Goto

LEMMA RecoveredTyped ==
    ASSUME TypeOK, NEW c \in Clients, Recovered(c) \/ Unrecovered(c)
    PROVE  ClientsTyped /\ client'[c].pc \in {"state", "idle"}
                        /\ \A d \in Clients : d # c => client'[d] = client[d]
BY RetryTyped, RecheckTyped, ClearNowTyped DEF Recovered, Unrecovered, Tasks

\* The parts of the type invariant outside the clients' own state.
SharedTyped ==
    /\ generation' \in Generations
    /\ minted' \in Nat
    /\ lease' \in Leases
    /\ mirror' \in Nat
    /\ contexts' \subseteq Snapshots
    /\ active' \in BOOLEAN
    /\ collection' \in Collections
    /\ allocator' \in Nat
    /\ tx' \in Transactions
    /\ served' \subseteq Snapshots
    /\ begun' \in Nat
    /\ faults' \in Nat

LEMMA TypeParts == SharedTyped /\ ClientsTyped => TypeOK'
BY DEF SharedTyped, ClientsTyped, TypeOK

LEMMA LeaseTyped ==
    /\ NoLease \in Leases /\ NoLease.phase = "none" /\ NoLease.fence = 0
    /\ NoTx \in Transactions /\ NoTx.fence = 0 /\ ~NoTx.lost
    /\ \A l \in Leases, n \in Nat :
          /\ [l EXCEPT !.phase = "leased"] \in Leases
          /\ [l EXCEPT !.phase = "fenced", !.fence = n] \in Leases
          /\ [l EXCEPT !.phase = "recovering", !.fence = n] \in Leases
          /\ [l EXCEPT !.expired = TRUE] \in Leases
          /\ l.fence \in Nat
    /\ \A n \in Nat : [fence |-> n, lost |-> FALSE] \in Transactions
    /\ \A t \in Transactions : [t EXCEPT !.lost = TRUE] \in Transactions /\ t.fence \in Nat
    /\ \A k \in Collections, n \in Nat :
          /\ k.revision \in Nat /\ k.fence \in Nat
          /\ [k EXCEPT !.fence = n] \in Collections
          /\ [revision |-> k.revision + 1, fence |-> n] \in Collections
<1>1. NoLease \in Leases /\ NoLease.phase = "none" /\ NoLease.fence = 0
  BY DEF NoLease, Leases
<1>2. NoTx \in Transactions /\ NoTx.fence = 0 /\ ~NoTx.lost
  BY DEF NoTx, Transactions
<1>3. ASSUME NEW l \in Leases, NEW n \in Nat
      PROVE  /\ [l EXCEPT !.phase = "leased"] \in Leases
             /\ [l EXCEPT !.phase = "fenced", !.fence = n] \in Leases
             /\ [l EXCEPT !.phase = "recovering", !.fence = n] \in Leases
             /\ [l EXCEPT !.expired = TRUE] \in Leases
             /\ l.fence \in Nat
  BY DEF Leases
<1>4. \A n \in Nat : [fence |-> n, lost |-> FALSE] \in Transactions
  BY DEF Transactions
<1>5. ASSUME NEW t \in Transactions
      PROVE  [t EXCEPT !.lost = TRUE] \in Transactions /\ t.fence \in Nat
  BY DEF Transactions
<1>6. ASSUME NEW k \in Collections, NEW n \in Nat
      PROVE  /\ k.revision \in Nat /\ k.fence \in Nat
             /\ [k EXCEPT !.fence = n] \in Collections
             /\ [revision |-> k.revision + 1, fence |-> n] \in Collections
  BY DEF Collections
<1> QED BY <1>1, <1>2, <1>3, <1>4, <1>5, <1>6

LEMMA PublishTyped ==
    ASSUME TypeOK
    PROVE  /\ \A g \in Generations : Publish(g) =>
                generation' \in Generations /\
                lease' \in Leases
           /\ PublishFresh =>
                generation' \in Generations /\ minted' \in Nat /\
                lease' \in Leases
<1>1. minted \in Nat /\ minted + 1 \in Nat
  BY DEF TypeOK
<1>2. Stable(minted + 1) \in Generations /\ NoLease \in Leases
  BY <1>1, GenerationsTyped, LeaseTyped
<1> QED BY <1>1, <1>2 DEF Publish, PublishFresh

LEMMA StateScriptTyped ==
    ASSUME TypeOK, NEW c \in Clients, StateScript(c), served' \subseteq Snapshots
    PROVE  SharedTyped
BY FieldsTyped, PublishTyped DEF StateScript, TypeOK, SharedTyped, pgVars, bounds

LEMMA ObserveTyped ==
    ASSUME TypeOK, NEW c \in Clients, Observe(c)
    PROVE  TypeOK'
<1> DEFINE r == [client[c] EXCEPT !.seen = generation]
<1>1. client[c] \in ClientStates /\ generation \in Generations
  BY FieldsTyped
<1>2. r \in ClientStates
  BY <1>1 DEF ClientStates
<1>3. ClientsTyped
  BY <1>2, EditTyped DEF Observe
<1> QED BY <1>3, TypeParts DEF Observe, TypeOK, SharedTyped, redisVars, pgVars, bounds

LEMMA ProbeTyped ==
    ASSUME TypeOK, NEW c \in Clients, Probe(c)
    PROVE  TypeOK'
<1> DEFINE r == [client[c] EXCEPT
                !.pc = IF lease.phase = "fenced" THEN "allocate" ELSE "advance",
                !.seen = NoGeneration, !.token = generation,
                !.fence = lease.fence, !.candidate = 0]
<1>1. client[c] \in ClientStates /\ generation \in Generations /\ NoGeneration \in Generations
      /\ lease.fence \in Nat
  BY FieldsTyped, GenerationsTyped, LeaseTyped DEF TypeOK
<1>2. r \in ClientStates
  BY <1>1 DEF ClientStates, Labels
<1>3. Unrecovered(c) \/ Done(c) \/ Become(c, r)
  BY DEF Probe
<1>4. ClientsTyped
  BY <1>2, <1>3, EditTyped, DoneTyped, RecoveredTyped
<1> QED BY <1>4, TypeParts DEF Probe, TypeOK, SharedTyped, redisVars, pgVars, bounds

LEMMA AllocateTyped ==
    ASSUME TypeOK, NEW c \in Clients, AllocateCandidate(c) \/ ReallocateCandidate(c)
    PROVE  TypeOK'
<1> DEFINE r == [client[c] EXCEPT !.pc = "rbegin",
                  !.candidate = IF active THEN allocator + 1 ELSE 0]
           q == [client[c] EXCEPT !.pc = "rebegin", !.candidate = allocator + 1]
<1>1. client[c] \in ClientStates /\ allocator \in Nat
  BY FieldsTyped DEF TypeOK
<1>2. r \in ClientStates /\ q \in ClientStates
  <2>1. (IF active THEN allocator + 1 ELSE 0) \in Nat /\ allocator + 1 \in Nat
    BY <1>1
  <2> QED BY <1>1, <2>1 DEF ClientStates, Labels, Observing
<1>3. Become(c, r) \/ Become(c, q) \/ Done(c)
  BY DEF AllocateCandidate, ReallocateCandidate
<1>4. ClientsTyped
  BY <1>2, <1>3, EditTyped, DoneTyped
<1>5. allocator' \in Nat
  BY <1>1 DEF AllocateCandidate, ReallocateCandidate
<1> QED BY <1>4, <1>5, TypeParts
        DEF AllocateCandidate, ReallocateCandidate, TypeOK, SharedTyped, redisVars, bounds

LEMMA TakeOverTyped ==
    ASSUME TypeOK, NEW c \in Clients, TakeOver(c)
    PROVE  /\ mirror' \in Nat
           /\ lease' \in Leases
<1>1. mirror \in Nat /\ client[c].candidate \in Nat
  BY FieldsTyped DEF TypeOK, ClientStates
<1>2. Larger(mirror + 1, client[c].candidate) \in Nat
  BY <1>1 DEF Larger
<1> QED BY <1>1, <1>2, LeaseTyped DEF TakeOver, TypeOK

LEMMA BeginRecoveryTyped ==
    ASSUME TypeOK, NEW c \in Clients, BeginRecovery(c) \/ BeginReplacement(c)
    PROVE  TypeOK'
<1> DEFINE r == [client[c] EXCEPT
                  !.pc = IF client[c].candidate = 0 THEN "rcomplete" ELSE "advance",
                  !.seen = NoGeneration, !.token = generation, !.fence = lease'.fence]
           q == [client[c] EXCEPT !.pc = "advance", !.seen = NoGeneration,
                  !.token = generation, !.fence = lease'.fence,
                  !.retries = client[c].retries + 1]
<1>1. client[c] \in ClientStates /\ generation \in Generations /\ NoGeneration \in Generations
  BY FieldsTyped, GenerationsTyped
<1>2. /\ mirror' \in Nat
      /\ lease' \in Leases
  BY TakeOverTyped DEF BeginRecovery, BeginReplacement, TypeOK
<1>3. r \in ClientStates /\ q \in ClientStates
  <2>1. lease'.fence \in Nat
    BY <1>2 DEF Leases
  <2>2. client[c].retries + 1 \in Nat
    BY <1>1 DEF ClientStates
  <2> QED BY <1>1, <2>1, <2>2 DEF ClientStates, Labels
<1>4. Unrecovered(c) \/ Done(c) \/ Become(c, r) \/ Become(c, q)
  BY DEF BeginRecovery, BeginReplacement
<1>5. ClientsTyped
  BY <1>3, <1>4, EditTyped, DoneTyped, RecoveredTyped
<1> QED BY <1>2, <1>5, TypeParts
        DEF BeginRecovery, BeginReplacement, TypeOK, SharedTyped, pgVars, bounds

LEMMA AdvanceFenceTyped ==
    ASSUME TypeOK, NEW c \in Clients, AdvanceFence(c)
    PROVE  TypeOK'
<1>1. client[c].fence \in Nat
  BY FieldsTyped DEF ClientStates
<1>2. ClientsTyped
  BY GotoTyped DEF AdvanceFence, Labels
<1>3. collection' \in Collections /\ allocator' \in Nat
  BY <1>1, LeaseTyped DEF AdvanceFence, TypeOK, Larger
<1> QED BY <1>2, <1>3, TypeParts DEF AdvanceFence, TypeOK, SharedTyped, redisVars, bounds

LEMMA CompleteRecoveryTyped ==
    ASSUME TypeOK, NEW c \in Clients, CompleteRecovery(c)
    PROVE  TypeOK'
<1>1. ClientsTyped
  BY GotoTyped, RecoveredTyped DEF CompleteRecovery, Labels, Observing
<1> QED BY <1>1, PublishTyped, TypeParts
        DEF CompleteRecovery, TypeOK, SharedTyped, pgVars, bounds

LEMMA RecheckStateTyped ==
    ASSUME TypeOK, NEW c \in Clients, RecheckState(c)
    PROVE  TypeOK'
<1> DEFINE r == [client[c] EXCEPT !.pc = "probe", !.seen = NoGeneration,
                       !.retries = client[c].retries + 1]
<1>1. client[c] \in ClientStates /\ NoGeneration \in Generations
  BY FieldsTyped, GenerationsTyped
<1>2. r \in ClientStates
  <2>1. client[c].retries + 1 \in Nat
    BY <1>1 DEF ClientStates
  <2> QED BY <1>1, <2>1 DEF ClientStates, Labels, Observing
<1>3. ClientsTyped
  BY <1>2, EditTyped, RecoveredTyped DEF RecheckState
<1>4. SharedTyped
  BY StateScriptTyped DEF RecheckState, TypeOK
<1> QED BY <1>3, <1>4, TypeParts

LEMMA StorageErrorTyped ==
    ASSUME TypeOK, NEW c \in Clients, StorageError(c)
    PROVE  TypeOK'
BY DoneTyped, TypeParts
   DEF StorageError, Fault, TypeOK, SharedTyped, redisVars, pgVars

LEMMA RecoveryTyped ==
    ASSUME TypeOK, NEW c \in Clients, Recovery(c)
    PROVE  TypeOK'
BY ProbeTyped, AllocateTyped, BeginRecoveryTyped, AdvanceFenceTyped,
   CompleteRecoveryTyped, RecheckStateTyped, StorageErrorTyped DEF Recovery

LEMMA StartTyped ==
    ASSUME TypeOK, NEW c \in Clients, StartReplace(c) \/ StartRead(c) \/ StartClear(c)
    PROVE  TypeOK'
<1> DEFINE r == [Idle EXCEPT !.pc = "state", !.task = "begin",
                  !.revision = IF active THEN collection.revision ELSE 0]
           q(t) == [Idle EXCEPT !.pc = "state", !.task = t]
<1>1. (IF active THEN collection.revision ELSE 0) \in Nat
  BY LeaseTyped DEF TypeOK
<1>2. r \in ClientStates /\ q("before") \in ClientStates /\ q("preclear") \in ClientStates
  BY <1>1, IdleTyped DEF ClientStates, Labels, Observing
<1>3. Become(c, r) \/ Become(c, q("before")) \/ Become(c, q("preclear"))
  BY DEF StartReplace, StartRead, StartClear
<1>4. ClientsTyped
  BY <1>2, <1>3, EditTyped
<1> QED BY <1>4, TypeParts
        DEF StartReplace, StartRead, StartClear, TypeOK, SharedTyped, redisVars, pgVars, bounds

\* The five state checks differ only in what the client does next.
LEMMA CheckTyped ==
    ASSUME TypeOK, NEW c \in Clients,
           \/ CheckBeforeBegin(c) \/ CheckBefore(c) \/ CheckAfter(c)
           \/ CheckBeforeClear(c) \/ CheckClear(c)
    PROVE  TypeOK'
<1> DEFINE r(l) == [client[c] EXCEPT !.pc = l, !.seen = NoGeneration, !.base = generation']
           q == [client[c] EXCEPT !.pc = "record", !.seen = NoGeneration]
<1>1. client[c] \in ClientStates /\ NoGeneration \in Generations
  BY FieldsTyped, GenerationsTyped
<1>2. served' \subseteq Snapshots /\ StateScript(c)
  <2>1. CASE CheckAfter(c)
    BY <2>1, <1>1, PublishTyped DEF CheckAfter, StateScript, TypeOK, ClientStates, Snapshots
  <2>2. CASE ~CheckAfter(c)
    BY <2>2 DEF CheckBeforeBegin, CheckBefore, CheckBeforeClear, CheckClear, TypeOK
  <2> QED BY <2>1, <2>2
<1>3. SharedTyped
  BY <1>2, StateScriptTyped
<1>4. generation' \in Generations
  BY <1>3 DEF SharedTyped
<1>5. r("begin") \in ClientStates /\ r("list") \in ClientStates
      /\ r("invalidate") \in ClientStates /\ q \in ClientStates
  BY <1>1, <1>4 DEF ClientStates, Labels
<1>6. \/ Become(c, r("begin")) \/ Become(c, r("list")) \/ Become(c, r("invalidate"))
      \/ Become(c, q) \/ Done(c) \/ Recover(c) \/ ClearNow(c) \/ Retry(c, "before")
  BY DEF CheckBeforeBegin, CheckBefore, CheckAfter, CheckBeforeClear, CheckClear
<1>7. ClientsTyped
  BY <1>5, <1>6, EditTyped, DoneTyped, RecoverTyped, ClearNowTyped, RetryTyped DEF Tasks
<1> QED BY <1>3, <1>7, TypeParts

LEMMA BeginMutationTyped ==
    ASSUME TypeOK, NEW w \in Clients, BeginMutation(w)
    PROVE  TypeOK'
<1> DEFINE token == Pending(minted + 1, generation)
           r == [client[w] EXCEPT !.pc = "mallocate", !.token = token]
<1>1. client[w] \in ClientStates /\ token \in Generations /\ minted + 1 \in Nat
  BY FieldsTyped, GenerationsTyped DEF TypeOK
<1>2. r \in ClientStates
  BY <1>1 DEF ClientStates, Labels
<1>3. Become(w, r) \/ Recover(w)
  BY DEF BeginMutation
<1>4. ClientsTyped
  BY <1>2, <1>3, EditTyped, RecoverTyped
<1> QED BY <1>1, <1>4, LeaseTyped, TypeParts
        DEF BeginMutation, TypeOK, SharedTyped, pgVars, bounds

LEMMA AllocateFenceTyped ==
    ASSUME TypeOK, NEW w \in Clients, AllocateFence(w)
    PROVE  TypeOK'
<1> DEFINE r == [client[w] EXCEPT !.pc = "fence", !.fence = allocator + 1]
<1>1. client[w] \in ClientStates /\ allocator + 1 \in Nat
  BY FieldsTyped DEF TypeOK
<1>2. r \in ClientStates
  BY <1>1 DEF ClientStates, Labels
<1>3. Become(w, r) \/ Goto(w, "release")
  BY DEF AllocateFence
<1>4. ClientsTyped
  BY <1>2, <1>3, EditTyped, GotoTyped DEF Labels
<1> QED BY <1>1, <1>4, TypeParts
        DEF AllocateFence, TypeOK, SharedTyped, Fault, NoFault, redisVars

LEMMA FenceMutationTyped ==
    ASSUME TypeOK, NEW w \in Clients, FenceMutation(w)
    PROVE  TypeOK'
<1>1. client[w].fence \in Nat
  BY FieldsTyped DEF ClientStates
<1>2. ClientsTyped
  BY GotoTyped DEF FenceMutation, Labels
<1>3. lease' \in Leases
  BY <1>1, LeaseTyped DEF FenceMutation, TypeOK
<1>4. mirror' \in Nat /\ faults' \in Nat
  BY <1>1 DEF FenceMutation, TypeOK, Larger, Fault, NoFault
<1> QED BY <1>2, <1>3, <1>4, TypeParts DEF FenceMutation, TypeOK, SharedTyped, pgVars

LEMMA ApplyTyped ==
    ASSUME TypeOK, ApplyReplacement
    PROVE  collection' \in Collections /\ allocator' \in Nat
           /\ tx' \in Transactions
BY LeaseTyped DEF ApplyReplacement, TypeOK, Larger

LEMMA ReplacementTyped ==
    ASSUME TypeOK, NEW w \in Clients, OpenReplacement(w) \/ Commit(w) \/ LoseCommit(w)
    PROVE  TypeOK'
<1>1. client[w].fence \in Nat
  BY FieldsTyped DEF ClientStates
<1>2. ClientsTyped
  BY GotoTyped DEF OpenReplacement, Commit, LoseCommit, Labels
<1>3. tx' \in Transactions
  BY <1>1, ApplyTyped, LeaseTyped DEF OpenReplacement, Commit, LoseCommit, TypeOK
<1> QED BY <1>2, <1>3, ApplyTyped, TypeParts
        DEF OpenReplacement, Commit, LoseCommit, TypeOK, SharedTyped, Fault, redisVars, bounds

LEMMA EndTyped ==
    ASSUME TypeOK, NEW w \in Clients,
           CompleteMutation(w) \/ ReleaseMutation(w) \/ Invalidate(w)
    PROVE  TypeOK'
BY DoneTyped, PublishTyped, TypeParts
   DEF CompleteMutation, ReleaseMutation, Invalidate, TypeOK, SharedTyped, pgVars, bounds

LEMMA ListTyped ==
    ASSUME TypeOK, NEW c \in Clients, List(c)
    PROVE  TypeOK'
<1> DEFINE r == [client[c] EXCEPT !.pc = "state", !.task = "after", !.resumed = FALSE,
                  !.revision = IF active THEN collection.revision ELSE Gone]
<1>1. client[c] \in ClientStates
      /\ (IF active THEN collection.revision ELSE Gone) \in Nat \cup {Gone}
  BY FieldsTyped, LeaseTyped DEF TypeOK
<1>2. r \in ClientStates
  BY <1>1 DEF ClientStates, Labels, Observing
<1>3. ClientsTyped
  BY <1>2, EditTyped DEF List
<1> QED BY <1>3, TypeParts DEF List, TypeOK, SharedTyped, redisVars, pgVars, bounds

LEMMA RecordTyped ==
    ASSUME TypeOK, NEW c \in Clients, RecordContext(c)
    PROVE  TypeOK'
BY FieldsTyped, DoneTyped, TypeParts
   DEF ClientStates, Snapshots, RecordContext, TypeOK, SharedTyped, pgVars, bounds

LEMMA EnvironmentTyped ==
    ASSUME TypeOK, Environment
    PROVE  TypeOK'
<1>1. CASE ExpireLease
  BY <1>1, LeaseTyped DEF ExpireLease, TypeOK, redisVars, pgVars, bounds
<1>2. CASE SettleTransaction
  BY <1>2, ApplyTyped, LeaseTyped DEF SettleTransaction, TypeOK, redisVars, bounds
<1>3. CASE DeactivateProfile
  BY <1>3 DEF DeactivateProfile, TypeOK, redisVars, bounds
<1>4. ASSUME NEW c \in Clients, Crash(c)
      PROVE  TypeOK'
  <2>1. ClientsTyped
    BY <1>4, DoneTyped DEF Crash
  <2>2. tx' \in Transactions
    BY <1>4, LeaseTyped DEF Crash, TypeOK
  <2> QED BY <1>4, <2>1, <2>2, TypeParts DEF Crash, Fault, TypeOK, SharedTyped, redisVars
<1> QED BY <1>1, <1>2, <1>3, <1>4 DEF Environment

LEMMA InitTyped == Init => TypeOK
<1> SUFFICES ASSUME Init PROVE TypeOK
  OBVIOUS
<1>1. Stable(1) \in Generations /\ Idle \in ClientStates
  BY IdleTyped, GenerationsTyped
<1>2. NoLease \in Leases /\ NoTx \in Transactions
  BY LeaseTyped
<1>3. [revision |-> 0, fence |-> 0] \in Collections
  BY DEF Collections
<1> QED BY <1>1, <1>2, <1>3 DEF Init, TypeOK

LEMMA NextTyped == TypeOK /\ [Next]_vars => TypeOK'
<1> SUFFICES ASSUME TypeOK, [Next]_vars
             PROVE  TypeOK'
  OBVIOUS
<1>1. ASSUME NEW c \in Clients, ClientStep(c)
      PROVE  TypeOK'
  BY <1>1, ObserveTyped, RecoveryTyped DEF ClientStep
<1>2. ASSUME NEW w \in Writers, WriterStep(w)
      PROVE  TypeOK'
  BY <1>2, StartTyped, CheckTyped, BeginMutationTyped, AllocateFenceTyped,
     FenceMutationTyped, ReplacementTyped, EndTyped DEF WriterStep, Clients
<1>3. ASSUME NEW r \in Readers, ReaderStep(r)
      PROVE  TypeOK'
  BY <1>3, StartTyped, CheckTyped, ListTyped, RecordTyped DEF ReaderStep, Clients
<1>4. ASSUME NEW c \in Clearers, ClearerStep(c)
      PROVE  TypeOK'
  BY <1>4, StartTyped, CheckTyped, EndTyped DEF ClearerStep, Clients
<1>5. CASE UNCHANGED vars
  BY <1>5 DEF vars, redisVars, pgVars, bounds, TypeOK
<1> QED BY <1>1, <1>2, <1>3, <1>4, <1>5, EnvironmentTyped DEF Next

\* Every variable keeps its type, and no client runs more turns of a retry loop
\* than the limit allows.
THEOREM TypeCorrect == Spec => []TypeOK
BY InitTyped, NextTyped, PTL DEF Spec

-----------------------------------------------------------------------------
(* Fencing.  FencingInv is inductive relative to TypeOK.  Most steps only    *)
(* move one client outside the writer's critical labels (QuietStep), or      *)
(* publish a stable generation (PublishStep); the rest are taken one by one. *)

CoreUnchanged == UNCHANGED <<generation, minted, lease, mirror, active, collection, tx>>

OthersKept(c) == \A d \in Clients : d # c => client'[d] = client[d]

\* The client's next label carries no obligation of the invariant.
Quiet(c) ==
    /\ client'[c].pc \notin Holding
    /\ client'[c].pc = "rcomplete" => client'[c].fence <= collection.fence \/ ~active
    /\ client'[c].pc = "rbegin" /\ client'[c].candidate = 0 => ~active

LEMMA QuietStep ==
    ASSUME FencingInv, NEW c \in Clients, OthersKept(c), Quiet(c), CoreUnchanged
    PROVE  FencingInv'
<1>1. LeaseInv'
  BY DEF FencingInv, LeaseInv, CoreUnchanged
<1>2. TokenInv'
  BY DEF FencingInv, TokenInv, CoreUnchanged, OthersKept, Quiet
<1>3. WriterInv'
  BY DEF FencingInv, WriterInv, CoreUnchanged, OthersKept, Quiet, At, Holding
<1>4. RecoveryInv'
  BY DEF FencingInv, RecoveryInv, CoreUnchanged, OthersKept, Quiet, At
<1>5. TransactionInv'
  BY DEF FencingInv, TransactionInv, CoreUnchanged, OthersKept, Quiet, At, Holding
<1> QED BY <1>1, <1>2, <1>3, <1>4, <1>5 DEF FencingInv

\* Whoever still waits to replace is refused by PostgreSQL.
Superseded(c) ==
    \A d \in Clients : d # c /\ At(d, "replace") /\ generation = client[d].token =>
        client[d].fence < collection.fence \/ ~active

LEMMA PublishStep ==
    ASSUME TypeOK, FencingInv, NEW c \in Clients, OthersKept(c), Quiet(c), Superseded(c),
           ~generation'.pending, lease' = NoLease, minted' \in Nat, minted' >= minted,
           UNCHANGED <<mirror, active, collection, tx>>
    PROVE  FencingInv'
<1>1. LeaseInv'
  <2>1. mirror \in Nat /\ lease'.phase = "none" /\ lease'.fence = 0
    BY LeaseTyped DEF TypeOK
  <2> QED BY <2>1 DEF LeaseInv
<1>2. TokenInv'
  <2>1. \A d \in Clients : client[d].token.id \in Nat
    BY FieldsTyped DEF ClientStates, Generations
  <2>2. minted \in Nat
    BY DEF TypeOK
  <2> QED BY <2>1, <2>2 DEF FencingInv, TokenInv, OthersKept, Quiet
<1>3. WriterInv'
  BY DEF WriterInv, Quiet, OthersKept, At, Holding, FencingInv, TokenInv, Superseded
<1>4. RecoveryInv'
  BY DEF FencingInv, RecoveryInv, OthersKept, Quiet, At
<1>5. TransactionInv'
  BY DEF FencingInv, TransactionInv, OthersKept, Quiet, At, Holding
<1> QED BY <1>1, <1>2, <1>3, <1>4, <1>5 DEF FencingInv

LEMMA FreshStep ==
    ASSUME TypeOK, PublishFresh
    PROVE  ~generation'.pending /\ lease' = NoLease /\ minted' \in Nat /\ minted' >= minted
BY GenerationsTyped DEF TypeOK, PublishFresh, Publish

\* Nobody who waits to replace owns a lease that was not fenced.
LEMMA LeasedSupersedes ==
    ASSUME FencingInv, NEW c \in Clients, lease.phase = "leased"
    PROVE  Superseded(c)
BY DEF FencingInv, WriterInv, Superseded

\* The state script lapses only a lease that was never fenced.
LEMMA StateScriptStep ==
    ASSUME TypeOK, FencingInv, NEW c \in Clients, OthersKept(c), Quiet(c), StateScript(c)
    PROVE  FencingInv'
<1>1. CASE ~Lapsed
  BY <1>1, QuietStep DEF StateScript, CoreUnchanged, pgVars
<1>2. CASE Lapsed
  BY <1>2, LeasedSupersedes, FreshStep, PublishStep
     DEF Lapsed, StateScript, Publish, TypeOK, pgVars
<1> QED BY <1>1, <1>2

\* What a client's next record is, for the steps below.
LEMMA BecomeStep ==
    ASSUME TypeOK, NEW c \in Clients, NEW r, Become(c, r)
    PROVE  client'[c] = r /\ OthersKept(c)
BY DEF TypeOK, Become, OthersKept

LEMMA LoopStep ==
    ASSUME TypeOK, NEW c \in Clients,
           \/ Recovered(c) \/ Unrecovered(c) \/ Done(c) \/ Recover(c) \/ ClearNow(c)
           \/ Retry(c, "before") \/ Retry(c, "begin")
    PROVE  OthersKept(c) /\ Quiet(c)
BY RecoveredTyped, DoneTyped, RecoverTyped, ClearNowTyped, RetryTyped
   DEF Tasks, OthersKept, Quiet, Holding

LEMMA GotoStep ==
    ASSUME TypeOK, NEW c \in Clients, NEW l \in Labels, Goto(c, l)
    PROVE  /\ OthersKept(c)
           /\ client'[c].pc = l
           /\ client'[c].token = client[c].token
           /\ client'[c].fence = client[c].fence
           /\ client'[c].candidate = client[c].candidate
<1>1. client[c] \in ClientStates
  BY FieldsTyped
<1>2. client'[c] = [client[c] EXCEPT !.pc = l] /\ OthersKept(c)
  BY GotoTyped DEF OthersKept
<1> QED BY <1>1, <1>2 DEF ClientStates

LEMMA ObserveFencing ==
    ASSUME TypeOK, FencingInv, NEW c \in Clients, Observe(c)
    PROVE  FencingInv'
<1>1. client[c] \in ClientStates
  BY FieldsTyped
<1>2. client'[c] = [client[c] EXCEPT !.seen = generation] /\ OthersKept(c)
  BY BecomeStep DEF Observe
<1>3. client'[c].pc = client[c].pc /\ client'[c].candidate = client[c].candidate
  BY <1>1, <1>2 DEF ClientStates
<1>4. Quiet(c)
  BY <1>3 DEF Quiet, Observe, Observing, Holding, FencingInv, RecoveryInv, At
<1>5. CoreUnchanged
  BY DEF CoreUnchanged, Observe, redisVars, pgVars
<1> QED BY <1>2, <1>4, <1>5, QuietStep

LEMMA ProbeFencing ==
    ASSUME TypeOK, FencingInv, NEW c \in Clients, Probe(c)
    PROVE  FencingInv'
<1> DEFINE r == [client[c] EXCEPT
                !.pc = IF lease.phase = "fenced" THEN "allocate" ELSE "advance",
                !.seen = NoGeneration, !.token = generation,
                !.fence = lease.fence, !.candidate = 0]
<1>1. client[c] \in ClientStates
  BY FieldsTyped
<1>2. Unrecovered(c) \/ Done(c) \/ Become(c, r)
  BY DEF Probe
<1>3. OthersKept(c) /\ Quiet(c)
  <2>1. CASE Become(c, r)
    <3>1. client'[c] = r /\ OthersKept(c)
      BY <2>1, BecomeStep
    <3>2. r.pc \in {"allocate", "advance"}
      BY <1>1 DEF ClientStates
    <3> QED BY <3>1, <3>2 DEF Quiet, Holding
  <2> QED BY <1>2, <2>1, LoopStep
<1>4. CoreUnchanged
  BY DEF CoreUnchanged, Probe, redisVars, pgVars
<1> QED BY <1>3, <1>4, QuietStep

LEMMA AllocateFencing ==
    ASSUME TypeOK, FencingInv, NEW c \in Clients, AllocateCandidate(c) \/ ReallocateCandidate(c)
    PROVE  FencingInv'
<1> DEFINE r == [client[c] EXCEPT !.pc = "rbegin",
                  !.candidate = IF active THEN allocator + 1 ELSE 0]
           q == [client[c] EXCEPT !.pc = "rebegin", !.candidate = allocator + 1]
<1>1. client[c] \in ClientStates /\ allocator \in Nat
  BY FieldsTyped DEF TypeOK
<1>2. Become(c, r) \/ Become(c, q) \/ Done(c)
  BY DEF AllocateCandidate, ReallocateCandidate
<1>3. OthersKept(c) /\ Quiet(c)
  <2>1. CASE Become(c, r)
    <3>1. client'[c] = r /\ OthersKept(c)
      BY <2>1, BecomeStep
    <3>2. r.pc = "rbegin" /\ r.candidate = IF active THEN allocator + 1 ELSE 0
      BY <1>1 DEF ClientStates
    <3> QED BY <1>1, <3>1, <3>2 DEF Quiet, Holding
  <2>2. CASE Become(c, q)
    <3>1. client'[c] = q /\ OthersKept(c)
      BY <2>2, BecomeStep
    <3>2. q.pc = "rebegin"
      BY <1>1 DEF ClientStates
    <3> QED BY <3>1, <3>2 DEF Quiet, Holding
  <2> QED BY <1>2, <2>1, <2>2, LoopStep
<1>4. CoreUnchanged
  BY DEF CoreUnchanged, AllocateCandidate, ReallocateCandidate, redisVars
<1> QED BY <1>3, <1>4, QuietStep

\* A takeover puts a higher fence on the lease of the writers it supersedes.
LEMMA TakeOverStep ==
    ASSUME TypeOK, FencingInv, NEW c \in Clients, TakeOver(c), Takeable, OthersKept(c), Quiet(c),
           UNCHANGED <<generation, minted, active, collection, tx>>
    PROVE  FencingInv'
<1>1. CASE lease.fence # client[c].fence
  BY <1>1, QuietStep DEF TakeOver, CoreUnchanged
<1>2. CASE lease.fence = client[c].fence
  <2> DEFINE next == Larger(mirror + 1, client[c].candidate)
  <2>1. /\ mirror \in Nat /\ lease \in Leases /\ client[c].candidate \in Nat
        /\ lease.fence \in Nat
    BY FieldsTyped DEF TypeOK, ClientStates, Leases
  <2>2. next \in Nat /\ next > mirror /\ next > lease.fence
    BY <2>1 DEF Larger, FencingInv, LeaseInv
  <2>3. mirror' = next /\ lease'.phase = "recovering" /\ lease'.fence = next
    BY <1>2, <2>1 DEF TakeOver, Leases
  <2>4. LeaseInv'
    BY <2>2, <2>3 DEF FencingInv, LeaseInv, Takeable
  <2>5. TokenInv'
    BY DEF FencingInv, TokenInv, OthersKept, Quiet
  <2>6. WriterInv'
    <3> SUFFICES ASSUME NEW d \in Clients, At(d, "replace")', generation' = client'[d].token
                 PROVE  lease'.fence > client'[d].fence
      BY <2>3 DEF FencingInv, WriterInv, OthersKept, Quiet, At, Holding
    <3>1. d # c /\ client'[d] = client[d] /\ At(d, "replace") /\ client[d].fence \in Nat
      BY FieldsTyped DEF Quiet, OthersKept, At, Holding, ClientStates
    <3>2. client[d].fence <= lease.fence
      BY <2>1, <3>1 DEF FencingInv, WriterInv
    <3> QED BY <2>1, <2>2, <2>3, <3>1, <3>2
  <2>7. RecoveryInv'
    BY DEF FencingInv, RecoveryInv, OthersKept, Quiet, At
  <2>8. TransactionInv'
    BY DEF FencingInv, TransactionInv, OthersKept, Quiet, At, Holding
  <2> QED BY <2>4, <2>5, <2>6, <2>7, <2>8 DEF FencingInv
<1> QED BY <1>1, <1>2

LEMMA BeginRecoveryFencing ==
    ASSUME TypeOK, FencingInv, NEW c \in Clients, BeginRecovery(c) \/ BeginReplacement(c)
    PROVE  FencingInv'
<1> DEFINE r == [client[c] EXCEPT
                  !.pc = IF client[c].candidate = 0 THEN "rcomplete" ELSE "advance",
                  !.seen = NoGeneration, !.token = generation, !.fence = lease'.fence]
           q == [client[c] EXCEPT !.pc = "advance", !.seen = NoGeneration,
                  !.token = generation, !.fence = lease'.fence,
                  !.retries = client[c].retries + 1]
<1>1. client[c] \in ClientStates
  BY FieldsTyped
<1>2. \/ Unrecovered(c) \/ Done(c) \/ Become(c, q)
      \/ Become(c, r) /\ At(c, "rbegin")
  BY DEF BeginRecovery, BeginReplacement
<1>3. OthersKept(c) /\ Quiet(c)
  <2>1. CASE Become(c, r) /\ At(c, "rbegin")
    <3>1. client'[c] = r /\ OthersKept(c)
      BY <2>1, BecomeStep
    <3>2. r.pc = IF client[c].candidate = 0 THEN "rcomplete" ELSE "advance"
      BY <1>1 DEF ClientStates
    <3>3. client[c].candidate = 0 => ~active
      BY <2>1 DEF FencingInv, RecoveryInv
    <3> QED BY <3>1, <3>2, <3>3 DEF Quiet, Holding
  <2>2. CASE Become(c, q)
    <3>1. client'[c] = q /\ OthersKept(c)
      BY <2>2, BecomeStep
    <3>2. q.pc = "advance"
      BY <1>1 DEF ClientStates
    <3> QED BY <3>1, <3>2 DEF Quiet, Holding
  <2> QED BY <1>2, <2>1, <2>2, LoopStep
<1>4. UNCHANGED <<generation, minted, active, collection, tx>>
  BY DEF BeginRecovery, BeginReplacement, pgVars
<1>5. UNCHANGED <<mirror, lease>> \/ (TakeOver(c) /\ Takeable)
  BY DEF BeginRecovery, BeginReplacement
<1>6. CASE UNCHANGED <<mirror, lease>>
  BY <1>3, <1>4, <1>6, QuietStep DEF CoreUnchanged
<1> QED BY <1>3, <1>4, <1>5, <1>6, TakeOverStep

LEMMA AdvanceFenceFencing ==
    ASSUME TypeOK, FencingInv, NEW c \in Clients, AdvanceFence(c)
    PROVE  FencingInv'
<1>1. collection \in Collections /\ client[c].fence \in Nat /\ collection.fence \in Nat
  BY FieldsTyped, LeaseTyped DEF TypeOK, ClientStates
<1>2. UNCHANGED <<generation, minted, lease, mirror, active, tx>> /\ tx.fence = 0 /\ ~tx.lost
  BY LeaseTyped DEF AdvanceFence, redisVars
<1>3. OthersKept(c) /\ client'[c].fence = client[c].fence
      /\ client'[c].pc \in {"rcomplete", "reallocate"}
  BY GotoStep DEF AdvanceFence, Labels
<1>4. collection'.fence \in Nat /\ collection'.fence >= collection.fence
  BY <1>1 DEF AdvanceFence, Collections
<1>5. client'[c].pc = "rcomplete" => client'[c].fence <= collection'.fence \/ ~active
  <2>1. CASE ~active
    BY <2>1
  <2>2. CASE active /\ client[c].fence < collection.fence
    BY <2>2, GotoStep DEF AdvanceFence, Labels
  <2>3. CASE active /\ ~(client[c].fence < collection.fence)
    BY <2>3, <1>1, <1>3 DEF AdvanceFence, Collections
  <2> QED BY <2>1, <2>2, <2>3
<1>6. LeaseInv' /\ TokenInv'
  BY <1>2, <1>3 DEF FencingInv, LeaseInv, TokenInv, OthersKept, Holding
<1>7. WriterInv'
  BY <1>2, <1>3, FieldsTyped, <1>1, <1>4 DEF WriterInv, OthersKept, At, ClientStates, FencingInv
<1>8. RecoveryInv'
  <2> SUFFICES ASSUME NEW d \in Clients
               PROVE  /\ At(d, "rcomplete")' => client'[d].fence <= collection'.fence \/ ~active
                      /\ At(d, "rbegin")' /\ client'[d].candidate = 0 => ~active
    BY <1>2 DEF RecoveryInv
  <2>1. CASE d = c
    BY <1>3, <1>5, <2>1 DEF At
  <2>2. CASE d # c
    BY <1>3, <2>2, FieldsTyped, <1>1, <1>4
       DEF OthersKept, ClientStates, FencingInv, RecoveryInv, At
  <2> QED BY <2>1, <2>2
<1>9. TransactionInv'
  BY <1>2, <1>3 DEF FencingInv, TransactionInv, OthersKept, At
<1> QED BY <1>6, <1>7, <1>8, <1>9 DEF FencingInv

\* A recovery publishes only after PostgreSQL refuses the superseded writers.
LEMMA CompleteRecoveryFencing ==
    ASSUME TypeOK, FencingInv, NEW c \in Clients, CompleteRecovery(c)
    PROVE  FencingInv'
<1> DEFINE owns == generation = client[c].token /\ lease.phase = "recovering"
                   /\ lease.fence = client[c].fence
<1>1. UNCHANGED <<mirror, active, collection, tx>>
  BY DEF CompleteRecovery, pgVars
<1>2. CASE owns
  <2>1. PublishFresh /\ Recovered(c)
    BY <1>2 DEF CompleteRecovery
  <2>2. OthersKept(c) /\ Quiet(c)
    BY <2>1, LoopStep
  <2>3. Superseded(c)
    <3> SUFFICES ASSUME NEW d \in Clients, At(d, "replace"), generation = client[d].token
                 PROVE  client[d].fence < collection.fence \/ ~active
      BY DEF Superseded
    <3>1. lease.fence > client[d].fence
      BY <1>2 DEF FencingInv, WriterInv
    <3>2. lease.fence <= collection.fence \/ ~active
      BY <1>2 DEF FencingInv, RecoveryInv, CompleteRecovery
    <3>3. client[d].fence \in Nat /\ lease.fence \in Nat /\ collection.fence \in Nat
      BY FieldsTyped, LeaseTyped DEF TypeOK, ClientStates
    <3> QED BY <3>1, <3>2, <3>3
  <2> QED BY <1>1, <2>1, <2>2, <2>3, FreshStep, PublishStep
<1>3. CASE ~owns
  BY <1>1, <1>3, GotoStep, QuietStep
     DEF CompleteRecovery, CoreUnchanged, Quiet, Holding, Labels, Observing
<1> QED BY <1>2, <1>3

LEMMA RecheckStateFencing ==
    ASSUME TypeOK, FencingInv, NEW c \in Clients, RecheckState(c)
    PROVE  FencingInv'
<1> DEFINE r == [client[c] EXCEPT !.pc = "probe", !.seen = NoGeneration,
                       !.retries = client[c].retries + 1]
<1>1. client[c] \in ClientStates /\ r.pc = "probe"
  BY FieldsTyped DEF ClientStates
<1>2. Become(c, r) \/ Recovered(c)
  BY DEF RecheckState
<1>3. OthersKept(c) /\ Quiet(c)
  BY <1>1, <1>2, BecomeStep, LoopStep DEF Quiet, Holding
<1> QED BY <1>3, StateScriptStep DEF RecheckState

LEMMA RecoveryFencing ==
    ASSUME TypeOK, FencingInv, NEW c \in Clients, Recovery(c)
    PROVE  FencingInv'
<1>1. CASE StorageError(c)
  BY <1>1, LoopStep, QuietStep DEF StorageError, CoreUnchanged, redisVars, pgVars
<1> QED BY <1>1, ProbeFencing, AllocateFencing, BeginRecoveryFencing, AdvanceFenceFencing,
           CompleteRecoveryFencing, RecheckStateFencing DEF Recovery

LEMMA StartFencing ==
    ASSUME TypeOK, FencingInv, NEW c \in Clients, StartReplace(c) \/ StartRead(c) \/ StartClear(c)
    PROVE  FencingInv'
<1> DEFINE r == [Idle EXCEPT !.pc = "state", !.task = "begin",
                  !.revision = IF active THEN collection.revision ELSE 0]
           q(t) == [Idle EXCEPT !.pc = "state", !.task = t]
<1>1. r.pc = "state" /\ q("before").pc = "state" /\ q("preclear").pc = "state"
  BY DEF Idle
<1>2. Become(c, r) \/ Become(c, q("before")) \/ Become(c, q("preclear"))
  BY DEF StartReplace, StartRead, StartClear
<1>3. OthersKept(c) /\ client'[c].pc = "state"
  BY <1>1, <1>2, BecomeStep
<1>4. CoreUnchanged
  BY DEF StartReplace, StartRead, StartClear, CoreUnchanged, redisVars, pgVars
<1> QED BY <1>3, <1>4, QuietStep DEF Quiet, Holding

LEMMA CheckFencing ==
    ASSUME TypeOK, FencingInv, NEW c \in Clients,
           \/ CheckBeforeBegin(c) \/ CheckBefore(c) \/ CheckAfter(c)
           \/ CheckBeforeClear(c) \/ CheckClear(c)
    PROVE  FencingInv'
<1> DEFINE r(l) == [client[c] EXCEPT !.pc = l, !.seen = NoGeneration, !.base = generation']
           q == [client[c] EXCEPT !.pc = "record", !.seen = NoGeneration]
<1>1. client[c] \in ClientStates
  BY FieldsTyped
<1>2. \A l \in Labels : r(l).pc = l
  BY <1>1 DEF ClientStates
<1>3. q.pc = "record"
  BY <1>1 DEF ClientStates
<1>4. \/ Become(c, r("begin")) \/ Become(c, r("list")) \/ Become(c, r("invalidate"))
      \/ Become(c, q) \/ Done(c) \/ Recover(c) \/ ClearNow(c) \/ Retry(c, "before")
  BY DEF CheckBeforeBegin, CheckBefore, CheckAfter, CheckBeforeClear, CheckClear
<1>5. OthersKept(c) /\ Quiet(c)
  <2>1. ASSUME NEW l \in {"begin", "list", "invalidate"}, Become(c, r(l))
        PROVE  OthersKept(c) /\ Quiet(c)
    <3>1. client'[c] = r(l) /\ OthersKept(c)
      BY <2>1, BecomeStep
    <3>2. client'[c].pc = l
      BY <1>2, <3>1 DEF Labels
    <3> QED BY <3>1, <3>2 DEF Quiet, Holding
  <2>2. CASE Become(c, q)
    BY <1>3, <2>2, BecomeStep DEF Quiet, Holding
  <2> QED BY <1>4, <2>1, <2>2, LoopStep
<1>6. StateScript(c)
  BY DEF CheckBeforeBegin, CheckBefore, CheckAfter, CheckBeforeClear, CheckClear
<1> QED BY <1>5, <1>6, StateScriptStep

\* The new token is nobody else's: its nonce is fresh.
LEMMA BeginMutationFencing ==
    ASSUME TypeOK, FencingInv, NEW w \in Clients, BeginMutation(w)
    PROVE  FencingInv'
<1>1. CASE ~(~generation.pending /\ generation = client[w].base)
  BY <1>1, LoopStep, QuietStep DEF BeginMutation, CoreUnchanged, pgVars
<1>2. CASE ~generation.pending /\ generation = client[w].base
  <2> DEFINE token == Pending(minted + 1, generation)
             r == [client[w] EXCEPT !.pc = "mallocate", !.token = token]
  <2>1. client[w] \in ClientStates /\ minted \in Nat /\ mirror \in Nat
        /\ token.pending /\ token.id = minted + 1
    BY FieldsTyped, GenerationsTyped DEF TypeOK
  <2>2. client'[w] = r /\ OthersKept(w)
    BY <1>2, BecomeStep DEF BeginMutation
  <2>3. client'[w].pc = "mallocate" /\ client'[w].token = token
    BY <2>1, <2>2 DEF ClientStates
  <2>4. generation' = token /\ minted' = minted + 1 /\ lease' = [NoLease EXCEPT !.phase = "leased"]
        /\ UNCHANGED <<mirror, active, collection, tx>>
    BY <1>2 DEF BeginMutation, pgVars
  <2>5. lease'.phase = "leased" /\ lease'.fence = 0
    BY <2>4 DEF NoLease
  <2>6. \A d \in Clients : d # w /\ client[d].pc \in Holding =>
            client[d].token.pending /\ client[d].token.id \in Nat /\ client[d].token.id <= minted
    BY FieldsTyped DEF FencingInv, TokenInv, ClientStates, Generations
  <2>7. LeaseInv'
    BY <2>1, <2>4, <2>5 DEF LeaseInv
  <2>8. TokenInv'
    <3>1. \A d \in Clients : client'[d].pc \in Holding =>
              client'[d].token.pending /\ client'[d].token.id <= minted'
      <4> SUFFICES ASSUME NEW d \in Clients, client'[d].pc \in Holding
                   PROVE  client'[d].token.pending /\ client'[d].token.id <= minted'
        OBVIOUS
      <4>1. CASE d = w
        BY <2>1, <2>3, <2>4, <4>1
      <4>2. CASE d # w
        BY <2>2, <4>2, <2>6, <2>1, <2>4 DEF OthersKept
      <4> QED BY <4>1, <4>2
    <3>2. \A d \in Clients : d # w /\ client'[d].pc \in Holding => client'[d].token # token
      BY <2>1, <2>2, <2>6 DEF OthersKept
    <3>3. \A d, e \in Clients : d # e /\ client'[d].pc \in Holding /\ client'[e].pc \in Holding =>
              client'[d].token # client'[e].token
      <4> SUFFICES ASSUME NEW d \in Clients, NEW e \in Clients, d # e,
                          client'[d].pc \in Holding, client'[e].pc \in Holding
                   PROVE  client'[d].token # client'[e].token
        OBVIOUS
      <4>1. CASE d = w
        BY <2>3, <3>2, <4>1
      <4>2. CASE e = w
        BY <2>3, <3>2, <4>2
      <4>3. CASE d # w /\ e # w
        BY <2>2, <4>3 DEF OthersKept, FencingInv, TokenInv
      <4> QED BY <4>1, <4>2, <4>3
    <3> QED BY <3>1, <3>3 DEF TokenInv
  <2>9. WriterInv'
    <3> SUFFICES ASSUME NEW d \in Clients, At(d, "replace")'
                 PROVE  generation' # client'[d].token /\
                        (client'[d].fence < collection'.fence \/ ~active')
      BY DEF WriterInv
    <3>1. d # w /\ client'[d] = client[d] /\ At(d, "replace")
      BY <2>2, <2>3 DEF OthersKept, At
    <3>2. generation' # client[d].token
      BY <2>1, <2>4, <2>6, <3>1 DEF At, Holding
    <3>3. generation # client[d].token
      BY <1>2, <2>6, <3>1 DEF At, Holding
    <3> QED BY <2>4, <3>1, <3>2, <3>3 DEF FencingInv, WriterInv
  <2>10. RecoveryInv'
    BY <2>2, <2>3, <2>4 DEF FencingInv, RecoveryInv, OthersKept, At
  <2>11. TransactionInv'
    BY <2>2, <2>3, <2>4 DEF FencingInv, TransactionInv, OthersKept, At
  <2> QED BY <2>7, <2>8, <2>9, <2>10, <2>11 DEF FencingInv
<1> QED BY <1>1, <1>2

\* A writer's own step between begin and its end: it keeps its token.
LEMMA HoldingToken ==
    ASSUME FencingInv, NEW w \in Clients, OthersKept(w), client[w].pc \in Holding,
           client'[w].token = client[w].token, minted' = minted
    PROVE  TokenInv'
BY DEF FencingInv, TokenInv, OthersKept

LEMMA AllocateFenceFencing ==
    ASSUME TypeOK, FencingInv, NEW w \in Clients, AllocateFence(w)
    PROVE  FencingInv'
<1> DEFINE r == [client[w] EXCEPT !.pc = "fence", !.fence = allocator + 1]
<1>1. client[w] \in ClientStates /\ allocator \in Nat
  BY FieldsTyped DEF TypeOK
<1>2. Become(w, r) \/ Goto(w, "release")
  BY DEF AllocateFence
<1>3. /\ OthersKept(w) /\ client'[w].token = client[w].token
      /\ \/ client'[w].pc = "release"
         \/ client'[w].pc = "fence" /\ client'[w].fence > 0
  <2>1. CASE Become(w, r)
    <3>1. client'[w] = r /\ OthersKept(w)
      BY <2>1, BecomeStep
    <3>2. r.pc = "fence" /\ r.fence = allocator + 1 /\ r.token = client[w].token
      BY <1>1 DEF ClientStates
    <3> QED BY <1>1, <3>1, <3>2
  <2>2. CASE Goto(w, "release")
    BY <2>2, GotoStep DEF Labels
  <2> QED BY <1>2, <2>1, <2>2
<1>4. CoreUnchanged /\ client[w].pc \in Holding
  BY DEF AllocateFence, CoreUnchanged, redisVars, At, Holding
<1>5. LeaseInv' /\ TokenInv'
  BY <1>3, <1>4, HoldingToken DEF FencingInv, LeaseInv, CoreUnchanged
<1>6. WriterInv' /\ RecoveryInv'
  BY <1>3, <1>4 DEF FencingInv, WriterInv, RecoveryInv, OthersKept, At, CoreUnchanged
<1>7. TransactionInv'
  BY <1>3, <1>4 DEF FencingInv, TransactionInv, OthersKept, At, CoreUnchanged
<1> QED BY <1>5, <1>6, <1>7 DEF FencingInv

LEMMA FenceMutationFencing ==
    ASSUME TypeOK, FencingInv, NEW w \in Clients, FenceMutation(w)
    PROVE  FencingInv'
<1> DEFINE bound == lease'.phase = "fenced" /\ lease'.fence = client[w].fence
                    /\ mirror' = Larger(mirror, client[w].fence)
<1>1. /\ OthersKept(w) /\ client'[w].token = client[w].token
      /\ client'[w].fence = client[w].fence
      /\ client'[w].pc \in {"replace", "release"}
  BY GotoStep DEF FenceMutation, Labels
<1>2. UNCHANGED <<generation, minted, active, collection, tx>> /\ client[w].pc = "fence"
  BY DEF FenceMutation, pgVars, At
<1>3. lease \in Leases /\ lease.fence \in Nat /\ mirror \in Nat
      /\ client[w].fence \in Nat /\ client[w].fence > 0
  BY <1>2, FieldsTyped, LeaseTyped DEF TypeOK, ClientStates, FencingInv, TransactionInv
<1>4. \/ bound /\ generation = client[w].token /\ lease.phase # "none"
      \/ UNCHANGED <<lease, mirror>> /\ client'[w].pc = "release"
  <2>1. CASE UNCHANGED <<lease, mirror>> /\ Goto(w, "release")
    BY <2>1, GotoStep DEF Labels
  <2>2. CASE ~(UNCHANGED <<lease, mirror>> /\ Goto(w, "release"))
    BY <1>3, <2>2 DEF FenceMutation, Leases
  <2> QED BY <2>1, <2>2
<1>5. LeaseInv'
  BY <1>2, <1>3, <1>4 DEF FencingInv, LeaseInv, Larger
<1>6. TokenInv'
  BY <1>1, <1>2, HoldingToken DEF Holding
<1>7. WriterInv'
  <2> SUFFICES ASSUME NEW d \in Clients, At(d, "replace")'
               PROVE  IF generation' = client'[d].token
                      THEN \/ lease'.phase = "fenced" /\ lease'.fence = client'[d].fence
                           \/ lease'.phase = "recovering" /\ lease'.fence > client'[d].fence
                      ELSE client'[d].fence < collection'.fence \/ ~active'
    BY DEF WriterInv
  <2>1. CASE d = w
    BY <1>1, <1>2, <1>4, <2>1 DEF At
  <2>2. CASE d # w
    BY <1>1, <2>2, <1>2, <1>4 DEF OthersKept, At, FencingInv, TokenInv, Holding, WriterInv
  <2> QED BY <2>1, <2>2
<1>8. RecoveryInv'
  BY <1>1, <1>2 DEF FencingInv, RecoveryInv, OthersKept, At
<1>9. TransactionInv'
  BY <1>1, <1>2, <1>3 DEF FencingInv, TransactionInv, OthersKept, At
<1> QED BY <1>5, <1>6, <1>7, <1>8, <1>9 DEF FencingInv

LEMMA OpenReplacementFencing ==
    ASSUME TypeOK, FencingInv, NEW w \in Clients, OpenReplacement(w)
    PROVE  FencingInv'
<1>1. /\ OthersKept(w) /\ client'[w].token = client[w].token
      /\ client'[w].pc \in {"commit", "complete"}
  BY GotoStep DEF OpenReplacement, Labels
<1>2. /\ UNCHANGED <<generation, minted, lease, mirror, active, collection>>
      /\ client[w].pc = "replace"
  BY DEF OpenReplacement, redisVars, At
<1>3. client[w].fence \in Nat /\ client[w].fence > 0 /\ tx = NoTx /\ tx.fence = 0 /\ ~tx.lost
  BY <1>2, FieldsTyped, LeaseTyped
     DEF OpenReplacement, ClientStates, FencingInv, TransactionInv
<1>4. \/ /\ tx' = [fence |-> client[w].fence, lost |-> FALSE]
         /\ client[w].fence >= collection.fence
      \/ tx' = tx /\ client'[w].pc = "complete"
  BY <1>3, GotoStep DEF OpenReplacement, Labels
<1>5. LeaseInv' /\ TokenInv'
  BY <1>1, <1>2, HoldingToken DEF FencingInv, LeaseInv, Holding
<1>6. WriterInv' /\ RecoveryInv'
  BY <1>1, <1>2 DEF FencingInv, WriterInv, RecoveryInv, OthersKept, At
<1>7. TransactionInv'
  BY <1>3, <1>1, <1>2, <1>4 DEF FencingInv, TransactionInv, OthersKept, At
<1> QED BY <1>5, <1>6, <1>7 DEF FencingInv

\* A replacement raises the row's fence, or keeps it.
LEMMA ApplyStep ==
    ASSUME TypeOK, FencingInv, ApplyReplacement, tx.fence > 0
    PROVE  /\ collection'.fence \in Nat /\ collection'.fence >= collection.fence
           /\ tx'.fence = 0 /\ ~tx'.lost
<1>1. collection'.fence = tx.fence /\ tx' = NoTx /\ tx.fence \in Nat /\ collection.fence \in Nat
  BY LeaseTyped DEF ApplyReplacement, TypeOK
<1>2. NoTx.fence = 0 /\ NoTx.lost = FALSE
  BY DEF NoTx
<1>3. tx.fence >= collection.fence
  BY <1>1 DEF FencingInv, TransactionInv
<1> QED BY <1>1, <1>2, <1>3

LEMMA RaiseKeeps ==
    ASSUME TypeOK, FencingInv, UNCHANGED <<generation, lease, active>>,
           collection'.fence \in Nat, collection'.fence >= collection.fence,
           \A d \in Clients :
               /\ client'[d].pc \in {"replace", "rcomplete", "rbegin"} => client'[d] = client[d]
    PROVE  WriterInv' /\ RecoveryInv'
<1>1. collection.fence \in Nat /\ \A d \in Clients : client[d].fence \in Nat
  BY FieldsTyped, LeaseTyped DEF TypeOK, ClientStates
<1> QED BY <1>1 DEF FencingInv, WriterInv, RecoveryInv, At

LEMMA CommitFencing ==
    ASSUME TypeOK, FencingInv, NEW w \in Clients, Commit(w) \/ LoseCommit(w)
    PROVE  FencingInv'
<1>1. /\ OthersKept(w) /\ client'[w].token = client[w].token
      /\ client'[w].pc = "complete" /\ client[w].pc = "commit"
  BY GotoStep DEF Commit, LoseCommit, Labels, At
<1>2. UNCHANGED <<generation, minted, lease, mirror, active>>
  BY DEF Commit, LoseCommit, redisVars
<1>3. tx.fence > 0 /\ \A d \in Clients : At(d, "commit") => d = w
  BY <1>1 DEF FencingInv, TransactionInv, At
<1>4. tx \in Transactions /\ tx.fence \in Nat
  BY LeaseTyped DEF TypeOK
<1>5. collection'.fence \in Nat /\ collection'.fence >= collection.fence
  <2>1. CASE Commit(w)
    BY <2>1, <1>3, ApplyStep DEF Commit
  <2>2. CASE LoseCommit(w)
    <3>1. collection' = collection /\ collection.fence \in Nat
      BY <2>2, LeaseTyped DEF LoseCommit, TypeOK
    <3> QED BY <3>1
  <2> QED BY <2>1, <2>2
<1>6. \/ tx'.fence = 0 /\ ~tx'.lost
      \/ tx'.fence = tx.fence /\ UNCHANGED collection
  BY <1>3, <1>4, ApplyStep DEF Commit, LoseCommit, Transactions
<1>7. LeaseInv' /\ TokenInv'
  BY <1>1, <1>2, HoldingToken DEF FencingInv, LeaseInv, Holding
<1>8. WriterInv' /\ RecoveryInv'
  BY <1>1, <1>2, <1>5, RaiseKeeps DEF OthersKept
<1>9. TransactionInv'
  BY <1>1, <1>3, <1>4, <1>6 DEF FencingInv, TransactionInv, OthersKept, At
<1> QED BY <1>7, <1>8, <1>9 DEF FencingInv

\* A writer publishes only its own mutation; every other owner of a fence was
\* superseded before.
LEMMA EndFencing ==
    ASSUME TypeOK, FencingInv, NEW w \in Clients,
           CompleteMutation(w) \/ ReleaseMutation(w) \/ Invalidate(w)
    PROVE  FencingInv'
<1>1. OthersKept(w) /\ Quiet(w)
  BY LoopStep DEF CompleteMutation, ReleaseMutation, Invalidate
<1>2. UNCHANGED <<mirror, active, collection, tx>>
  BY DEF CompleteMutation, ReleaseMutation, Invalidate, pgVars
<1>3. CASE ~PublishFresh
  BY <1>2, <1>3, <1>1, QuietStep DEF CompleteMutation, ReleaseMutation, Invalidate, CoreUnchanged
<1>4. CASE PublishFresh
  <2>1. CASE generation = client[w].token /\ client[w].pc \in Holding
    <3>1. Superseded(w)
      BY <2>1 DEF Superseded, FencingInv, TokenInv, At, Holding
    <3> QED BY <1>1, <1>2, <1>4, <3>1, FreshStep, PublishStep
  <2>2. CASE ~generation.pending
    <3>1. Superseded(w)
      BY <2>2 DEF Superseded, FencingInv, TokenInv, At, Holding
    <3> QED BY <1>1, <1>2, <1>4, <3>1, FreshStep, PublishStep
  <2>3. CASE CoreUnchanged
    BY <1>1, <2>3, QuietStep
  <2> QED BY <1>2, <2>1, <2>2, <2>3
          DEF CompleteMutation, ReleaseMutation, Invalidate, At, Holding, CoreUnchanged
<1> QED BY <1>3, <1>4

LEMMA ReadFencing ==
    ASSUME TypeOK, FencingInv, NEW c \in Clients, List(c) \/ RecordContext(c)
    PROVE  FencingInv'
<1> DEFINE r == [client[c] EXCEPT !.pc = "state", !.task = "after", !.resumed = FALSE,
                  !.revision = IF active THEN collection.revision ELSE Gone]
<1>1. client[c] \in ClientStates
  BY FieldsTyped
<1>2. r.pc = "state"
  BY <1>1 DEF ClientStates
<1>3. Become(c, r) \/ Done(c)
  BY DEF List, RecordContext
<1>4. OthersKept(c) /\ Quiet(c)
  BY <1>2, <1>3, BecomeStep, LoopStep DEF Quiet, Holding
<1>5. CoreUnchanged
  BY DEF List, RecordContext, CoreUnchanged, redisVars, pgVars
<1> QED BY <1>4, <1>5, QuietStep

LEMMA EnvironmentFencing ==
    ASSUME TypeOK, FencingInv, Environment
    PROVE  FencingInv'
<1>1. CASE ExpireLease
  <2>1. lease'.phase = lease.phase /\ lease'.fence = lease.fence
    BY <1>1 DEF ExpireLease, TypeOK, Leases
  <2>2. UNCHANGED <<generation, minted, mirror, active, collection, tx, client>>
    BY <1>1 DEF ExpireLease, pgVars
  <2> QED BY <2>1, <2>2
          DEF FencingInv, LeaseInv, TokenInv, WriterInv, RecoveryInv, TransactionInv, At
<1>2. CASE SettleTransaction
  <2>1. tx.fence > 0 /\ \A d \in Clients : ~At(d, "commit")
    BY <1>2 DEF SettleTransaction, FencingInv, TransactionInv
  <2>2. UNCHANGED <<generation, minted, lease, mirror, active, client>>
    BY <1>2 DEF SettleTransaction, redisVars
  <2>3. collection'.fence \in Nat /\ collection'.fence >= collection.fence
        /\ tx'.fence = 0 /\ ~tx'.lost
    <3>1. CASE ApplyReplacement
      BY <2>1, <3>1, ApplyStep
    <3>2. CASE tx' = NoTx /\ UNCHANGED collection
      <4>1. collection.fence \in Nat
        BY LeaseTyped DEF TypeOK
      <4>2. NoTx.fence = 0 /\ NoTx.lost = FALSE
        BY DEF NoTx
      <4> QED BY <3>2, <4>1, <4>2
    <3> QED BY <1>2, <3>1, <3>2 DEF SettleTransaction
  <2>4. LeaseInv' /\ TokenInv'
    BY <2>2 DEF FencingInv, LeaseInv, TokenInv
  <2>5. WriterInv' /\ RecoveryInv'
    BY <2>2, <2>3, RaiseKeeps
  <2>6. TransactionInv'
    BY <2>1, <2>2, <2>3 DEF FencingInv, TransactionInv, At
  <2> QED BY <2>4, <2>5, <2>6 DEF FencingInv
<1>3. CASE DeactivateProfile
  BY <1>3
     DEF DeactivateProfile, redisVars, FencingInv, LeaseInv, TokenInv, WriterInv, RecoveryInv,
         TransactionInv, At
<1>4. ASSUME NEW c \in Clients, Crash(c)
      PROVE  FencingInv'
  <2>1. OthersKept(c) /\ client'[c].pc = "idle"
    BY <1>4, DoneTyped DEF Crash, OthersKept
  <2>2. UNCHANGED <<generation, minted, lease, mirror, active, collection>>
    BY <1>4 DEF Crash, redisVars
  <2>3. tx \in Transactions
    BY DEF TypeOK
  <2>4. tx'.fence = tx.fence
    BY <1>4, <2>3 DEF Crash, Transactions
  <2>5. CASE At(c, "commit")
    <3>1. tx.fence > 0 /\ \A d \in Clients : At(d, "commit") => d = c
      BY <2>5 DEF FencingInv, TransactionInv
    <3>2. TransactionInv'
      BY <2>1, <2>2, <2>4, <3>1 DEF FencingInv, TransactionInv, OthersKept, At
    <3> QED BY <2>1, <2>2, <3>2
            DEF FencingInv, LeaseInv, TokenInv, WriterInv, RecoveryInv, OthersKept, At, Holding
  <2>6. CASE ~At(c, "commit")
    BY <1>4, <2>2, <2>6, <2>1, QuietStep DEF Crash, CoreUnchanged, Quiet, Holding
  <2> QED BY <2>5, <2>6
<1> QED BY <1>1, <1>2, <1>3, <1>4 DEF Environment

LEMMA InitFencing == Init => FencingInv
<1> SUFFICES ASSUME Init PROVE FencingInv
  OBVIOUS
<1>1. \A c \in Clients : client[c].pc = "idle"
  BY DEF Init, Idle
<1>2. ~generation.pending /\ lease.phase = "none" /\ lease.fence = 0 /\ mirror = 0
      /\ tx.fence = 0 /\ ~tx.lost
  BY GenerationsTyped, LeaseTyped DEF Init
<1> QED BY <1>1, <1>2
        DEF FencingInv, LeaseInv, TokenInv, WriterInv, RecoveryInv, TransactionInv, At, Holding

LEMMA NextFencing == TypeOK /\ FencingInv /\ [Next]_vars => FencingInv'
<1> SUFFICES ASSUME TypeOK, FencingInv, [Next]_vars
             PROVE  FencingInv'
  OBVIOUS
<1>1. ASSUME NEW c \in Clients, ClientStep(c)
      PROVE  FencingInv'
  BY <1>1, ObserveFencing, RecoveryFencing DEF ClientStep
<1>2. ASSUME NEW w \in Writers, WriterStep(w)
      PROVE  FencingInv'
  BY <1>2, StartFencing, CheckFencing, BeginMutationFencing, AllocateFenceFencing,
     FenceMutationFencing, OpenReplacementFencing, CommitFencing, EndFencing
     DEF WriterStep, Clients
<1>3. ASSUME NEW r \in Readers, ReaderStep(r)
      PROVE  FencingInv'
  BY <1>3, StartFencing, CheckFencing, ReadFencing DEF ReaderStep, Clients
<1>4. ASSUME NEW c \in Clearers, ClearerStep(c)
      PROVE  FencingInv'
  BY <1>4, StartFencing, CheckFencing, EndFencing DEF ClearerStep, Clients
<1>5. CASE UNCHANGED vars
  BY <1>5 DEF vars, redisVars, pgVars, bounds, FencingInv, LeaseInv, TokenInv, WriterInv,
     RecoveryInv, TransactionInv, At
<1> QED BY <1>1, <1>2, <1>3, <1>4, <1>5, EnvironmentFencing DEF Next

\* The fencing invariant holds in every reachable state.
THEOREM FencingCorrect == Spec => []FencingInv
BY InitFencing, NextFencing, TypeCorrect, PTL DEF Spec

\* Once a stable generation is published, PostgreSQL refuses every writer that
\* has not run its replacement yet.
THEOREM NoLateWriterCorrect == Spec => []NoLateWriter
<1>1. FencingInv => NoLateWriter
  BY DEF NoLateWriter, Clients, FencingInv, TokenInv, At, Holding, WriterInv
<1> QED BY <1>1, FencingCorrect, PTL

-----------------------------------------------------------------------------
(* How the clients move.                                                     *)

\* What a client has seen of the generation it has seen since it asked for it.
SeenInv == \A c \in Clients : client[c].seen # NoGeneration => client[c].pc \in Observing

\* An ordinary move: a client forgets what it saw; its base is the one it had or
\* is read now; and it does not come to read or to commit by it.
MovesTo(a, b) ==
    /\ b.seen = NoGeneration
    /\ b.pc \notin {"commit", "record"}
    /\ b.base \in {a.base, NoGeneration, generation'}
    /\ b.task = "after" => a.task = "after" /\ b.base = a.base /\ b.revision = a.revision

AllMove == \A d \in Clients : client'[d] = client[d] \/ MovesTo(client[d], client'[d])

\* The moves that are not ordinary.
Looks(c) ==
    /\ Observe(c) /\ OthersKept(c)
    /\ client'[c] = [client[c] EXCEPT !.seen = generation]

Lists(c) ==
    /\ List(c) /\ OthersKept(c)
    /\ client'[c].seen = NoGeneration /\ client'[c].pc = "state"
    /\ client'[c].base = client[c].base
    /\ client'[c].revision = IF active THEN collection.revision ELSE Gone

Serves(c) ==
    /\ CheckAfter(c) /\ OthersKept(c)
    /\ client[c].task = "after" /\ client[c].base = generation' /\ ~generation'.pending
    /\ client[c].revision # Gone
    /\ served' = served \cup {[generation |-> generation', revision |-> client[c].revision]}
    /\ client'[c] = [client[c] EXCEPT !.pc = "record", !.seen = NoGeneration]

Opens(w) ==
    /\ OpenReplacement(w) /\ OthersKept(w)
    /\ client'[w] = [client[w] EXCEPT !.pc = "commit"]
    /\ client[w].seen = NoGeneration

\* One client makes one such move, or all move ordinarily.
MoveStep ==
    \/ AllMove /\ served' = served
    \/ \E c \in Clients : (Looks(c) \/ Lists(c) \/ Opens(c)) /\ served' = served
    \/ \E c \in Clients : Serves(c)

LEMMA BecomeMoves ==
    ASSUME TypeOK, NEW c \in Clients, NEW r, Become(c, r), MovesTo(client[c], r)
    PROVE  AllMove
BY BecomeStep DEF AllMove, OthersKept

LEMMA IdleFields ==
    /\ Idle.pc = "idle" /\ Idle.task = "none" /\ Idle.seen = NoGeneration
    /\ Idle.base = NoGeneration
BY DEF Idle

LEMMA DoneMoves ==
    ASSUME TypeOK, NEW c \in Clients, Done(c)
    PROVE  AllMove
BY IdleFields, BecomeMoves DEF MovesTo, Done

LEMMA RetryMoves ==
    ASSUME TypeOK, NEW c \in Clients, NEW t \in {"begin", "before"}, Retry(c, t)
    PROVE  AllMove
<1> DEFINE r == [Idle EXCEPT !.pc = "state", !.task = t,
                    !.tries = client[c].tries + 1,
                    !.revision = IF t = "begin" THEN client[c].revision ELSE 0]
<1>1. r.pc = "state" /\ r.task = t /\ r.seen = NoGeneration /\ r.base = NoGeneration
  BY DEF Idle
<1>2. Become(c, r) \/ Done(c)
  BY DEF Retry
<1> HIDE DEF r
<1>3. MovesTo(client[c], r)
  BY <1>1 DEF MovesTo
<1> QED BY <1>2, <1>3, BecomeMoves, DoneMoves

LEMMA RecheckMoves ==
    ASSUME TypeOK, NEW c \in Clients, Recheck(c)
    PROVE  AllMove
<1> DEFINE r == [client[c] EXCEPT !.pc = "state", !.resumed = TRUE,
               !.seen = NoGeneration, !.token = NoGeneration,
               !.fence = 0, !.candidate = 0, !.retries = 0]
<1>1. r.pc = "state" /\ r.task = client[c].task /\ r.seen = NoGeneration
      /\ r.base = client[c].base /\ r.revision = client[c].revision
  BY FieldsTyped DEF ClientStates
<1>2. Become(c, r)
  BY DEF Recheck
<1> HIDE DEF r
<1>3. MovesTo(client[c], r)
  BY <1>1 DEF MovesTo
<1> QED BY <1>2, <1>3, BecomeMoves

LEMMA RecoverMoves ==
    ASSUME TypeOK, NEW c \in Clients, Recover(c)
    PROVE  AllMove
<1> DEFINE r == [client[c] EXCEPT !.pc = "probe", !.seen = NoGeneration, !.retries = 0]
<1>1. r.pc = "probe" /\ r.task = client[c].task /\ r.seen = NoGeneration
      /\ r.base = client[c].base /\ r.revision = client[c].revision
  BY FieldsTyped DEF ClientStates
<1>2. Become(c, r)
  BY DEF Recover
<1> HIDE DEF r
<1>3. MovesTo(client[c], r)
  BY <1>1 DEF MovesTo
<1> QED BY <1>2, <1>3, BecomeMoves

LEMMA StartMoves ==
    ASSUME TypeOK, NEW c \in Clients, NEW t \in Tasks \ {"after"}, NEW n,
           \/ Become(c, [Idle EXCEPT !.pc = "state", !.task = t])
           \/ Become(c, [Idle EXCEPT !.pc = "state", !.task = t, !.revision = n])
    PROVE  AllMove
BY BecomeMoves DEF Idle, MovesTo

LEMMA ClearNowMoves ==
    ASSUME TypeOK, NEW c \in Clients, ClearNow(c)
    PROVE  AllMove
BY StartMoves DEF Tasks, ClearNow

LEMMA RecoveredMoves ==
    ASSUME TypeOK, NEW c \in Clients, Recovered(c) \/ Unrecovered(c)
    PROVE  AllMove
BY RetryMoves, RecheckMoves, ClearNowMoves DEF Recovered, Unrecovered

\* A client that goes on where it does not look has seen nothing.
LEMMA GotoMoves ==
    ASSUME TypeOK, SeenInv, NEW c \in Clients, NEW l, l \notin {"commit", "record"}, Goto(c, l),
           client[c].pc \notin Observing
    PROVE  AllMove
<1> DEFINE r == [client[c] EXCEPT !.pc = l]
<1>1. r.pc = l /\ r.task = client[c].task /\ r.seen = client[c].seen
      /\ r.base = client[c].base /\ r.revision = client[c].revision
  BY FieldsTyped DEF ClientStates
<1>2. client[c].seen = NoGeneration
  BY DEF SeenInv
<1>3. Become(c, r)
  BY DEF Goto
<1> HIDE DEF r
<1>4. MovesTo(client[c], r)
  BY <1>1, <1>2 DEF MovesTo
<1> QED BY <1>3, <1>4, BecomeMoves

-----------------------------------------------------------------------------
LEMMA ProbeMoves ==
    ASSUME TypeOK, NEW c \in Clients, Probe(c)
    PROVE  AllMove
<1> DEFINE r == [client[c] EXCEPT
                !.pc = IF lease.phase = "fenced" THEN "allocate" ELSE "advance",
                !.seen = NoGeneration, !.token = generation,
                !.fence = lease.fence, !.candidate = 0]
<1>1. r.pc \in {"allocate", "advance"} /\ r.task = client[c].task /\ r.seen = NoGeneration
      /\ r.base = client[c].base /\ r.revision = client[c].revision
  BY FieldsTyped DEF ClientStates
<1>2. Unrecovered(c) \/ Done(c) \/ Become(c, r)
  BY DEF Probe
<1> HIDE DEF r
<1>3. MovesTo(client[c], r)
  BY <1>1 DEF MovesTo
<1> QED BY <1>2, <1>3, BecomeMoves, DoneMoves, RecoveredMoves

LEMMA AllocateMoves ==
    ASSUME TypeOK, SeenInv, NEW c \in Clients, AllocateCandidate(c) \/ ReallocateCandidate(c)
    PROVE  AllMove
<1> DEFINE r == [client[c] EXCEPT !.pc = "rbegin",
                  !.candidate = IF active THEN allocator + 1 ELSE 0]
           q == [client[c] EXCEPT !.pc = "rebegin", !.candidate = allocator + 1]
<1>1. /\ r.pc = "rbegin" /\ r.task = client[c].task /\ r.seen = client[c].seen
      /\ r.base = client[c].base /\ r.revision = client[c].revision
      /\ q.pc = "rebegin" /\ q.task = client[c].task /\ q.seen = client[c].seen
      /\ q.base = client[c].base /\ q.revision = client[c].revision
  BY FieldsTyped DEF ClientStates
<1>2. client[c].seen = NoGeneration
  BY DEF SeenInv, AllocateCandidate, ReallocateCandidate, At, Observing
<1>3. Become(c, r) \/ Become(c, q) \/ Done(c)
  BY DEF AllocateCandidate, ReallocateCandidate
<1> HIDE DEF r, q
<1>4. MovesTo(client[c], r) /\ MovesTo(client[c], q)
  BY <1>1, <1>2 DEF MovesTo
<1> QED BY <1>3, <1>4, BecomeMoves, DoneMoves

LEMMA BeginRecoveryMoves ==
    ASSUME TypeOK, NEW c \in Clients, BeginRecovery(c) \/ BeginReplacement(c)
    PROVE  AllMove
<1> DEFINE r == [client[c] EXCEPT
                  !.pc = IF client[c].candidate = 0 THEN "rcomplete" ELSE "advance",
                  !.seen = NoGeneration, !.token = generation, !.fence = lease'.fence]
           q == [client[c] EXCEPT !.pc = "advance", !.seen = NoGeneration,
                  !.token = generation, !.fence = lease'.fence,
                  !.retries = client[c].retries + 1]
<1>1. /\ r.pc \in {"rcomplete", "advance"} /\ r.task = client[c].task /\ r.seen = NoGeneration
      /\ r.base = client[c].base /\ r.revision = client[c].revision
      /\ q.pc = "advance" /\ q.task = client[c].task /\ q.seen = NoGeneration
      /\ q.base = client[c].base /\ q.revision = client[c].revision
  BY FieldsTyped DEF ClientStates
<1>2. Unrecovered(c) \/ Done(c) \/ Become(c, r) \/ Become(c, q)
  BY DEF BeginRecovery, BeginReplacement
<1> HIDE DEF r, q
<1>3. MovesTo(client[c], r) /\ MovesTo(client[c], q)
  BY <1>1 DEF MovesTo
<1> QED BY <1>2, <1>3, BecomeMoves, DoneMoves, RecoveredMoves

LEMMA RecoveryMoves ==
    ASSUME TypeOK, SeenInv, NEW c \in Clients, Recovery(c)
    PROVE  AllMove /\ served' = served
<1>1. CASE AdvanceFence(c)
  BY <1>1, GotoMoves DEF AdvanceFence, At, Observing
<1>2. CASE CompleteRecovery(c)
  BY <1>2, GotoMoves, RecoveredMoves DEF CompleteRecovery, At, Observing
<1>3. CASE RecheckState(c)
  <2> DEFINE r == [client[c] EXCEPT !.pc = "probe", !.seen = NoGeneration,
                         !.retries = client[c].retries + 1]
  <2>1. r.pc = "probe" /\ r.task = client[c].task /\ r.seen = NoGeneration
        /\ r.base = client[c].base /\ r.revision = client[c].revision
    BY FieldsTyped DEF ClientStates
  <2>2. Become(c, r) \/ Recovered(c)
    BY <1>3 DEF RecheckState
  <2> HIDE DEF r
  <2>3. MovesTo(client[c], r)
    BY <2>1 DEF MovesTo
  <2>4. served' = served
    BY <1>3 DEF RecheckState
  <2> QED BY <2>2, <2>3, <2>4, BecomeMoves, RecoveredMoves
<1>4. CASE StorageError(c)
  BY <1>4, DoneMoves DEF StorageError
<1>5. CASE Probe(c) \/ AllocateCandidate(c) \/ ReallocateCandidate(c)
           \/ BeginRecovery(c) \/ BeginReplacement(c)
  BY <1>5, ProbeMoves, AllocateMoves, BeginRecoveryMoves
     DEF Probe, AllocateCandidate, ReallocateCandidate, BeginRecovery, BeginReplacement
<1> QED BY <1>1, <1>2, <1>3, <1>4, <1>5 DEF Recovery

LEMMA CheckMoves ==
    ASSUME TypeOK, NEW c \in Clients,
           \/ CheckBeforeBegin(c) \/ CheckBefore(c) \/ CheckBeforeClear(c) \/ CheckClear(c)
    PROVE  AllMove /\ served' = served
<1> DEFINE r(l) == [client[c] EXCEPT !.pc = l, !.seen = NoGeneration, !.base = generation']
<1>1. client[c].task \in {"begin", "before", "preclear", "clear"} /\ served' = served
  BY DEF CheckBeforeBegin, CheckBefore, CheckBeforeClear, CheckClear
<1>2. ASSUME NEW l \in {"begin", "list", "invalidate"}
      PROVE  MovesTo(client[c], r(l))
  <2>1. r(l).pc = l /\ r(l).task = client[c].task /\ r(l).seen = NoGeneration
        /\ r(l).base = generation'
    BY FieldsTyped DEF ClientStates
  <2> HIDE DEF r
  <2> QED BY <1>1, <2>1 DEF MovesTo
<1>3. \/ Retry(c, "before") \/ Recover(c) \/ ClearNow(c) \/ Done(c)
      \/ Become(c, r("begin")) \/ Become(c, r("list")) \/ Become(c, r("invalidate"))
  BY DEF CheckBeforeBegin, CheckBefore, CheckBeforeClear, CheckClear
<1> HIDE DEF r
<1> QED BY <1>1, <1>2, <1>3, BecomeMoves, RetryMoves, RecoverMoves, ClearNowMoves, DoneMoves

LEMMA WriterMoves ==
    ASSUME TypeOK, SeenInv, NEW w \in Clients, WriterStep(w)
    PROVE  MoveStep
<1>1. CASE StartReplace(w)
  BY <1>1, StartMoves DEF Tasks, StartReplace, MoveStep
<1>2. CASE CheckBeforeBegin(w)
  BY <1>2, CheckMoves DEF MoveStep
<1>3. CASE BeginMutation(w)
  <2> DEFINE token == Pending(minted + 1, generation)
             r == [client[w] EXCEPT !.pc = "mallocate", !.token = token]
  <2>1. r.pc = "mallocate" /\ r.task = client[w].task /\ r.seen = client[w].seen
        /\ r.base = client[w].base /\ r.revision = client[w].revision
    BY FieldsTyped DEF ClientStates
  <2>2. client[w].seen = NoGeneration
    BY <1>3 DEF SeenInv, BeginMutation, At, Observing
  <2>3. Become(w, r) \/ Recover(w)
    BY <1>3 DEF BeginMutation
  <2> HIDE DEF r
  <2>4. MovesTo(client[w], r)
    BY <2>1, <2>2 DEF MovesTo
  <2>5. served' = served
    BY <1>3 DEF BeginMutation
  <2> QED BY <2>3, <2>4, <2>5, BecomeMoves, RecoverMoves DEF MoveStep
<1>4. CASE AllocateFence(w)
  <2> DEFINE r == [client[w] EXCEPT !.pc = "fence", !.fence = allocator + 1]
  <2>1. r.pc = "fence" /\ r.task = client[w].task /\ r.seen = client[w].seen
        /\ r.base = client[w].base /\ r.revision = client[w].revision
    BY FieldsTyped DEF ClientStates
  <2>2. client[w].seen = NoGeneration /\ client[w].pc \notin Observing
    BY <1>4 DEF SeenInv, AllocateFence, At, Observing
  <2>3. Become(w, r) \/ Goto(w, "release")
    BY <1>4 DEF AllocateFence
  <2> HIDE DEF r
  <2>4. MovesTo(client[w], r)
    BY <2>1, <2>2 DEF MovesTo
  <2>5. served' = served
    BY <1>4 DEF AllocateFence
  <2> QED BY <2>2, <2>3, <2>4, <2>5, BecomeMoves, GotoMoves DEF MoveStep
<1>5. CASE FenceMutation(w) \/ Commit(w) \/ LoseCommit(w)
  BY <1>5, GotoMoves DEF FenceMutation, Commit, LoseCommit, At, Observing, MoveStep
<1>6. CASE OpenReplacement(w)
  <2>1. client[w].pc \notin Observing /\ served' = served /\ client[w].seen = NoGeneration
    BY <1>6 DEF OpenReplacement, At, Observing, SeenInv
  <2>2. CASE Goto(w, "complete")
    BY <2>1, <2>2, GotoMoves DEF MoveStep
  <2>3. CASE Goto(w, "commit")
    BY <2>3, BecomeStep, <1>6, <2>1 DEF Goto, Opens, MoveStep
  <2> QED BY <1>6, <2>2, <2>3 DEF OpenReplacement
<1>7. CASE CompleteMutation(w) \/ ReleaseMutation(w)
  BY <1>7, DoneMoves DEF CompleteMutation, ReleaseMutation, MoveStep
<1> QED BY <1>1, <1>2, <1>3, <1>4, <1>5, <1>6, <1>7 DEF WriterStep

LEMMA ReaderMoves ==
    ASSUME TypeOK, SeenInv, NEW r \in Clients, ReaderStep(r)
    PROVE  MoveStep
<1>1. CASE StartRead(r)
  BY <1>1, StartMoves DEF Tasks, StartRead, MoveStep
<1>2. CASE CheckBefore(r)
  BY <1>2, CheckMoves DEF MoveStep
<1>3. CASE List(r)
  <2> DEFINE x == [client[r] EXCEPT !.pc = "state", !.task = "after", !.resumed = FALSE,
                  !.revision = IF active THEN collection.revision ELSE Gone]
  <2>1. client'[r] = x /\ OthersKept(r)
    BY <1>3, BecomeStep DEF List
  <2>2. client[r].seen = NoGeneration
    BY <1>3 DEF SeenInv, List, At, Observing
  <2>3. x.pc = "state" /\ x.seen = client[r].seen /\ x.base = client[r].base
        /\ x.revision = IF active THEN collection.revision ELSE Gone
    BY FieldsTyped DEF ClientStates
  <2>4. served' = served
    BY <1>3 DEF List
  <2> HIDE DEF x
  <2>5. Lists(r)
    BY <1>3, <2>1, <2>2, <2>3 DEF Lists
  <2> QED BY <2>4, <2>5 DEF MoveStep
<1>4. CASE CheckAfter(r)
  <2> DEFINE x == [client[r] EXCEPT !.pc = "record", !.seen = NoGeneration]
  <2>1. CASE served' = served /\ (Retry(r, "before") \/ Recover(r) \/ Done(r))
    BY <2>1, RetryMoves, RecoverMoves, DoneMoves DEF MoveStep
  <2>2. CASE ~(served' = served /\ (Retry(r, "before") \/ Recover(r) \/ Done(r)))
    BY <1>4, <2>2, BecomeStep DEF CheckAfter, Serves, MoveStep
  <2> QED BY <2>1, <2>2
<1>5. CASE RecordContext(r)
  BY <1>5, DoneMoves DEF RecordContext, MoveStep
<1> QED BY <1>1, <1>2, <1>3, <1>4, <1>5 DEF ReaderStep

LEMMA ClearerMoves ==
    ASSUME TypeOK, NEW c \in Clients, ClearerStep(c)
    PROVE  MoveStep
<1>1. CASE StartClear(c)
  BY <1>1, StartMoves DEF Tasks, StartClear, MoveStep
<1>2. CASE CheckBeforeClear(c) \/ CheckClear(c)
  BY <1>2, CheckMoves DEF MoveStep
<1>3. CASE Invalidate(c)
  BY <1>3, DoneMoves DEF Invalidate, MoveStep
<1> QED BY <1>1, <1>2, <1>3 DEF ClearerStep

LEMMA NextMoves ==
    ASSUME TypeOK, SeenInv, [Next]_vars
    PROVE  MoveStep
<1>1. ASSUME NEW c \in Clients, Observe(c)
      PROVE  MoveStep
  BY <1>1, BecomeStep DEF Observe, Looks, MoveStep
<1>2. ASSUME NEW c \in Clients, Recovery(c)
      PROVE  MoveStep
  BY <1>2, RecoveryMoves DEF MoveStep
<1>3. CASE UNCHANGED vars
  BY <1>3 DEF vars, MoveStep, AllMove
<1>4. CASE Environment
  BY DoneMoves, <1>4
     DEF Crash, MoveStep, Environment, ExpireLease, SettleTransaction, DeactivateProfile, AllMove
<1> QED BY <1>1, <1>2, <1>3, <1>4, WriterMoves, ReaderMoves, ClearerMoves
        DEF Next, ClientStep, Clients

LEMMA NextSeen ==
    ASSUME TypeOK, SeenInv, [Next]_vars
    PROVE  SeenInv'
<1> SUFFICES ASSUME NEW d \in Clients, client'[d].seen # NoGeneration
             PROVE  client'[d].pc \in Observing
  BY DEF SeenInv
<1>1. client[d] \in ClientStates
  BY FieldsTyped
<1>2. CASE AllMove
  BY <1>2 DEF AllMove, MovesTo, SeenInv
<1>3. ASSUME NEW c \in Clients, Looks(c) \/ Lists(c) \/ Opens(c) \/ Serves(c)
      PROVE  client'[d].pc \in Observing
  <2>1. CASE d # c
    BY <1>3, <2>1 DEF Looks, Lists, Opens, Serves, OthersKept, SeenInv
  <2>2. CASE d = c
    BY <1>1, <1>3, <2>2 DEF Looks, Lists, Opens, Serves, Observe, ClientStates
  <2> QED BY <2>1, <2>2
<1> QED BY <1>2, <1>3, NextMoves DEF MoveStep

-----------------------------------------------------------------------------
(* How the generation moves.                                                 *)

\* Nobody still carries a stable generation over a lease, in time to restore it,
\* but the one the lease was begun from.
LapseInv == Lapsed => \A c \in Clients : ~OutlivesLease(c)

Steady ==
    /\ UNCHANGED <<generation, minted>>
    /\ lease'.phase = "leased" => lease.phase = "leased"
    /\ Lapsed' => Lapsed \/ (PromptChecks => \A c \in Clients : ~OutlivesLease(c))

Fresh ==
    /\ generation' = Stable(minted + 1) /\ minted' = minted + 1
    /\ lease' = NoLease

\* A state check puts back the generation that it observed.
PutsBack ==
    \E c \in Clients :
        /\ Lapsed /\ client[c].pc \in {"state", "recheck"}
        /\ client[c].seen # NoGeneration /\ ~client[c].seen.pending
        /\ generation' = client[c].seen /\ minted' = minted /\ lease' = NoLease

Begins ==
    /\ ~generation.pending /\ generation' = Pending(minted + 1, generation)
    /\ minted' = minted + 1
    /\ lease'.phase = "leased" /\ ~lease'.expired /\ contexts' = {}

GenerationStep == Steady \/ Fresh \/ PutsBack \/ Begins

\* A context is recorded under the generation of the moment, and none is left
\* when another generation is published.
ContextStep ==
    \/ contexts' = {}
    \/ contexts' = contexts /\ (generation.pending \/ generation' = generation)
    \/ \E c \in Clients :
           /\ generation' = generation /\ ~generation.pending
           /\ At(c, "record") /\ client[c].base = generation
           /\ contexts' = contexts \cup
                  {[generation |-> client[c].base, revision |-> client[c].revision]}

LEMMA KeepGeneration ==
    ASSUME UNCHANGED <<generation, minted, lease, contexts>>
    PROVE  GenerationStep /\ ContextStep
BY DEF GenerationStep, Steady, ContextStep, Lapsed

LEMMA CheckGeneration ==
    ASSUME TypeOK, FencingInv, NEW c \in Clients, StateScript(c),
           client[c].pc \in {"state", "recheck"}
    PROVE  GenerationStep /\ ContextStep
<1>1. CASE ~Lapsed
  BY <1>1, KeepGeneration DEF StateScript
<1>2. CASE Lapsed
  <2>1. generation.pending
    BY <1>2 DEF Lapsed, FencingInv, LeaseInv
  <2>2. Fresh \/ PutsBack
    BY <1>2 DEF StateScript, Fresh, PutsBack, Publish, PublishFresh
  <2>3. contexts' = contexts
    BY DEF StateScript
  <2> QED BY <2>1, <2>2, <2>3 DEF GenerationStep, ContextStep
<1> QED BY <1>1, <1>2

LEMMA RecoveryGeneration ==
    ASSUME TypeOK, FencingInv, NEW c \in Clients, Recovery(c)
    PROVE  GenerationStep /\ ContextStep
<1>1. CASE RecheckState(c)
  BY <1>1, CheckGeneration DEF RecheckState, At
<1>2. CASE CompleteRecovery(c)
  <2>1. contexts' = contexts
    BY <1>2 DEF CompleteRecovery
  <2>2. CASE PublishFresh /\ lease.phase = "recovering"
    BY <2>2, <2>1
       DEF FencingInv, LeaseInv, PublishFresh, Publish, GenerationStep, Fresh, ContextStep
  <2>3. CASE UNCHANGED <<generation, lease, minted>>
    BY <2>1, <2>3, KeepGeneration
  <2> QED BY <1>2, <2>2, <2>3 DEF CompleteRecovery
<1>3. CASE BeginRecovery(c) \/ BeginReplacement(c)
  BY <1>3
     DEF BeginRecovery, BeginReplacement, TakeOver, TypeOK, Leases, Lapsed, GenerationStep, Steady,
         ContextStep
<1>4. CASE Probe(c) \/ AllocateCandidate(c) \/ ReallocateCandidate(c) \/ AdvanceFence(c)
           \/ StorageError(c)
  BY <1>4, KeepGeneration
     DEF Probe, AllocateCandidate, ReallocateCandidate, AdvanceFence, StorageError, redisVars
<1> QED BY <1>1, <1>2, <1>3, <1>4 DEF Recovery

LEMMA WriterGeneration ==
    ASSUME TypeOK, FencingInv, NEW w \in Clients, WriterStep(w)
    PROVE  GenerationStep /\ ContextStep
<1>1. CASE CheckBeforeBegin(w)
  BY <1>1, CheckGeneration DEF CheckBeforeBegin, At
<1>2. CASE BeginMutation(w)
  <2>1. CASE UNCHANGED <<generation, minted, lease, contexts>>
    BY <2>1, KeepGeneration
  <2>2. CASE ~UNCHANGED <<generation, minted, lease, contexts>>
    BY <1>2, <2>2 DEF BeginMutation, NoLease, GenerationStep, Begins, ContextStep
  <2> QED BY <2>1, <2>2
<1>3. CASE FenceMutation(w)
  BY <1>3 DEF FenceMutation, TypeOK, Leases, Lapsed, GenerationStep, Steady, ContextStep
<1>4. CASE CompleteMutation(w) \/ ReleaseMutation(w)
  <2>1. contexts' = contexts
    BY <1>4 DEF CompleteMutation, ReleaseMutation
  <2>2. CASE PublishFresh /\ lease.phase \in {"leased", "fenced"}
    BY <2>2, <2>1
       DEF FencingInv, LeaseInv, PublishFresh, Publish, GenerationStep, Fresh, ContextStep
  <2>3. CASE UNCHANGED <<generation, lease, minted>>
    BY <2>1, <2>3, KeepGeneration
  <2> QED BY <1>4, <2>2, <2>3 DEF CompleteMutation, ReleaseMutation
<1>5. CASE StartReplace(w) \/ AllocateFence(w) \/ OpenReplacement(w) \/ Commit(w) \/ LoseCommit(w)
  BY <1>5, KeepGeneration
     DEF StartReplace, AllocateFence, OpenReplacement, Commit, LoseCommit, redisVars
<1> QED BY <1>1, <1>2, <1>3, <1>4, <1>5 DEF WriterStep

LEMMA ReaderGeneration ==
    ASSUME TypeOK, FencingInv, NEW r \in Clients, ReaderStep(r)
    PROVE  GenerationStep /\ ContextStep
<1>1. CASE CheckBefore(r) \/ CheckAfter(r)
  BY <1>1, CheckGeneration DEF CheckBefore, CheckAfter, At
<1>2. CASE StartRead(r) \/ List(r)
  BY <1>2, KeepGeneration DEF StartRead, List, redisVars
<1>3. CASE RecordContext(r)
  BY <1>3 DEF RecordContext, GenerationStep, Steady, Lapsed, ContextStep
<1> QED BY <1>1, <1>2, <1>3 DEF ReaderStep

LEMMA ClearerGeneration ==
    ASSUME TypeOK, FencingInv, NEW c \in Clients, ClearerStep(c)
    PROVE  GenerationStep /\ ContextStep
<1>1. CASE CheckBeforeClear(c) \/ CheckClear(c)
  BY <1>1, CheckGeneration DEF CheckBeforeClear, CheckClear, At
<1>2. CASE StartClear(c)
  BY <1>2, KeepGeneration DEF StartClear, redisVars
<1>3. CASE Invalidate(c)
  BY KeepGeneration, <1>3
     DEF PublishFresh, Publish, GenerationStep, Fresh, ContextStep, Invalidate
<1> QED BY <1>1, <1>2, <1>3 DEF ClearerStep

LEMMA NextGeneration ==
    ASSUME TypeOK, FencingInv, [Next]_vars
    PROVE  GenerationStep /\ ContextStep
<1>1. ASSUME NEW c \in Clients, Observe(c)
      PROVE  GenerationStep /\ ContextStep
  BY <1>1, KeepGeneration DEF Observe, redisVars
<1>2. CASE UNCHANGED vars
  BY <1>2, KeepGeneration DEF vars, redisVars
<1>3. CASE ExpireLease
  BY <1>3 DEF ExpireLease, TypeOK, Leases, GenerationStep, Steady, ContextStep
<1>4. CASE SettleTransaction \/ DeactivateProfile \/ \E c \in Clients : Crash(c)
  BY <1>4, KeepGeneration DEF SettleTransaction, DeactivateProfile, Crash, redisVars
<1> QED BY <1>1, <1>2, <1>3, <1>4, RecoveryGeneration, WriterGeneration, ReaderGeneration,
           ClearerGeneration DEF Next, ClientStep, Environment, Clients

-----------------------------------------------------------------------------
(* How the collection moves.                                                 *)

\* The writer under COMMIT still has its mutation: whoever took its lease over
\* has yet to raise PostgreSQL's fence, and waits for the row lock to do so.
Owns(r) ==
    /\ generation = r.token /\ active
    /\ \/ lease.phase = "fenced" /\ lease.fence >= collection.fence
       \/ lease.phase = "recovering" /\ lease.fence > collection.fence

CommitInv == \A w \in Clients : At(w, "commit") => Owns(client[w])

LEMMA OpensOwning ==
    ASSUME TypeOK, FencingInv, NEW w \in Clients, Opens(w)
    PROVE  /\ Owns(client[w]) /\ client'[w].token = client[w].token
           /\ generation.pending
           /\ UNCHANGED <<generation, lease, active, collection>>
<1>1. /\ At(w, "replace") /\ client'[w].pc = "commit" /\ client'[w].token = client[w].token
      /\ client[w].fence \in Nat /\ collection.fence \in Nat /\ lease.fence \in Nat
  BY FieldsTyped, LeaseTyped DEF Opens, OpenReplacement, ClientStates, TypeOK
<1>2. ~Goto(w, "complete")
  BY GotoStep, <1>1 DEF Labels
<1>3. /\ active /\ client[w].fence >= collection.fence
      /\ UNCHANGED <<generation, lease, active, collection>>
  BY <1>2 DEF Opens, OpenReplacement, redisVars
<1>4. generation = client[w].token
      /\ \/ lease.phase = "fenced" /\ lease.fence = client[w].fence
         \/ lease.phase = "recovering" /\ lease.fence > client[w].fence
  BY <1>1, <1>3 DEF FencingInv, WriterInv
<1>5. generation.pending
  BY <1>1, <1>4 DEF FencingInv, TokenInv, At, Holding
<1> QED BY <1>1, <1>3, <1>4, <1>5 DEF Owns

LEMMA OpenTransaction == tx.fence > 0 => tx # NoTx
BY DEF NoTx

\* What the others may do while a writer is under COMMIT.
LEMMA OwnsStays ==
    ASSUME TypeOK, FencingInv, CommitInv, [Next]_vars, NEW w \in Clients, At(w, "commit"),
           client'[w].pc = "commit", NEW r, r = client[w]
    PROVE  Owns(r)'
<1>1. /\ Owns(r) /\ generation.pending /\ lease.phase \in {"fenced", "recovering"}
      /\ lease \in Leases /\ lease.fence \in Nat /\ collection.fence \in Nat /\ mirror \in Nat
      /\ lease.fence <= mirror
  BY LeaseTyped DEF CommitInv, Owns, FencingInv, LeaseInv, TokenInv, At, Holding, TypeOK
<1>2. tx.fence > 0 /\ ~tx.lost /\ tx # NoTx /\ \A v \in Clients : At(v, "commit") => v = w
  BY OpenTransaction DEF FencingInv, TransactionInv
<1>3. \A v \in Clients : client[v].pc \in Holding /\ client[v].token = generation => v = w
  BY <1>1 DEF FencingInv, TokenInv, Owns, At, Holding
<1>4. ASSUME UNCHANGED <<generation, lease, active, collection>>
      PROVE  Owns(r)'
  BY <1>1, <1>4 DEF Owns
<1>5. ASSUME NEW c \in Clients, StateScript(c)
      PROVE  Owns(r)'
  BY <1>1, <1>4, <1>5 DEF Lapsed, StateScript, pgVars
<1>6. ASSUME NEW c \in Clients, TakeOver(c), UNCHANGED <<generation, active, collection>>
      PROVE  Owns(r)'
  <2>1. CASE UNCHANGED lease
    BY <1>4, <1>6, <2>1
  <2>2. CASE lease'.phase = "recovering" /\ lease'.fence = Larger(mirror + 1, client[c].candidate)
    BY FieldsTyped, <1>1, <2>2, <1>6 DEF ClientStates, Larger, Owns
  <2> QED BY <1>1, <1>6, <2>1, <2>2 DEF TakeOver, Leases
<1>7. ASSUME NEW c \in Clients, Recovery(c)
      PROVE  Owns(r)'
  <2>1. CASE RecheckState(c)
    BY <1>5, <2>1 DEF RecheckState
  <2>2. CASE BeginRecovery(c) \/ BeginReplacement(c)
    BY <1>4, <1>6, <2>2 DEF BeginRecovery, BeginReplacement, pgVars
  <2>3. CASE CompleteRecovery(c)
    <3>1. ~(lease.phase = "recovering" /\ lease.fence = client[c].fence)
      BY <1>1, <2>3, FieldsTyped DEF CompleteRecovery, FencingInv, RecoveryInv, Owns, ClientStates
    <3> QED BY <1>4, <2>3, <3>1 DEF CompleteRecovery, pgVars
  <2>4. CASE AdvanceFence(c)
    BY <1>2, <2>4 DEF AdvanceFence
  <2>5. CASE Probe(c) \/ AllocateCandidate(c) \/ ReallocateCandidate(c) \/ StorageError(c)
    BY <1>4, <2>5 DEF Probe, AllocateCandidate, ReallocateCandidate, StorageError, redisVars, pgVars
  <2> QED BY <1>7, <2>1, <2>2, <2>3, <2>4, <2>5 DEF Recovery
<1>8. ASSUME NEW v \in Clients, WriterStep(v)
      PROVE  Owns(r)'
  <2>1. CASE CheckBeforeBegin(v)
    BY <1>5, <2>1 DEF CheckBeforeBegin
  <2>2. CASE BeginMutation(v)
    BY <1>1, <1>4, <2>2 DEF BeginMutation, pgVars
  <2>3. CASE FenceMutation(v)
    BY <1>3, <2>3, <1>4 DEF FenceMutation, At, Holding, pgVars
  <2>4. CASE CompleteMutation(v) \/ ReleaseMutation(v)
    BY <1>3, <2>4, <1>4 DEF CompleteMutation, ReleaseMutation, At, Holding, pgVars
  <2>5. CASE Commit(v)
    BY <1>2, <2>5, GotoStep DEF Commit, Labels
  <2>6. CASE StartReplace(v) \/ AllocateFence(v) \/ OpenReplacement(v) \/ LoseCommit(v)
    BY <1>4, <2>6 DEF StartReplace, AllocateFence, OpenReplacement, LoseCommit, redisVars, pgVars
  <2> QED BY <1>8, <2>1, <2>2, <2>3, <2>4, <2>5, <2>6 DEF WriterStep
<1>9. ASSUME NEW c \in Clients, ReaderStep(c) \/ ClearerStep(c)
      PROVE  Owns(r)'
  <2>1. CASE CheckBefore(c) \/ CheckAfter(c) \/ CheckBeforeClear(c) \/ CheckClear(c)
    BY <1>5, <2>1 DEF CheckBefore, CheckAfter, CheckBeforeClear, CheckClear
  <2>2. CASE Invalidate(c)
    BY <1>1, <1>4, <2>2 DEF Invalidate, pgVars
  <2>3. CASE StartRead(c) \/ List(c) \/ RecordContext(c) \/ StartClear(c)
    BY <1>4, <2>3 DEF StartRead, List, RecordContext, StartClear, redisVars, pgVars
  <2> QED BY <1>9, <2>1, <2>2, <2>3 DEF ReaderStep, ClearerStep
<1>10. ASSUME ExpireLease
       PROVE  Owns(r)'
  BY <1>1, <1>10 DEF ExpireLease, pgVars, Leases, Owns
<1>11. ASSUME \/ SettleTransaction \/ DeactivateProfile \/ UNCHANGED vars
              \/ \E c \in Clients : Crash(c) \/ Observe(c)
       PROVE  Owns(r)'
  BY <1>2, <1>4, <1>11
     DEF SettleTransaction, DeactivateProfile, Crash, Observe, vars, redisVars, pgVars
<1> QED BY <1>7, <1>8, <1>9, <1>10, <1>11 DEF Next, ClientStep, Environment, Clients

LEMMA NextCommitting ==
    ASSUME TypeOK, FencingInv, SeenInv, CommitInv, [Next]_vars
    PROVE  CommitInv'
<1> SUFFICES ASSUME NEW w \in Clients, client'[w].pc = "commit"
             PROVE  Owns(client[w])'
  BY DEF CommitInv, At
<1>1. CASE Opens(w)
  BY <1>1, OpensOwning DEF Owns
<1>2. CASE client'[w] = client[w]
  BY <1>2, OwnsStays DEF At, Owns
<1>3. CASE AllMove
  BY <1>2, <1>3 DEF AllMove, MovesTo
<1>4. ASSUME NEW c \in Clients, Looks(c) \/ Lists(c) \/ Opens(c) \/ Serves(c)
      PROVE  Opens(w) \/ client'[w] = client[w]
  <2>1. CASE w # c
    BY <1>4, <2>1 DEF Looks, Lists, Opens, Serves, OthersKept
  <2>2. CASE w = c
    BY <1>4, <2>2, FieldsTyped DEF Looks, Lists, Serves, Observe, ClientStates, Observing
  <2> QED BY <2>1, <2>2
<1> QED BY <1>1, <1>2, <1>3, <1>4, NextMoves DEF MoveStep

\* The collection stays, and a transaction is not begun; or a transaction is begun
\* under a mutation that has a fence; or one is applied.
DataKept ==
    /\ collection'.revision = collection.revision
    /\ tx = NoTx => tx' = NoTx

Opening ==
    /\ generation.pending /\ lease.phase # "leased"
    /\ UNCHANGED <<generation, lease, collection, served>>

Applying ==
    /\ collection'.revision = collection.revision + 1 /\ tx # NoTx
    /\ generation.pending \/ tx.lost
    /\ UNCHANGED <<generation, lease, contexts, served>>

DataStep == DataKept \/ Opening \/ Applying

LEMMA NextData ==
    ASSUME TypeOK, FencingInv, SeenInv, CommitInv, [Next]_vars
    PROVE  DataStep
<1>1. ASSUME UNCHANGED pgVars
      PROVE  DataStep
  BY <1>1 DEF pgVars, DataStep, DataKept
<1>2. ASSUME UNCHANGED <<collection, tx>>
      PROVE  DataStep
  BY <1>2 DEF DataStep, DataKept
<1>3. ASSUME NEW c \in Clients, Recovery(c)
      PROVE  DataStep
  <2>1. CASE AdvanceFence(c)
    BY <2>1 DEF AdvanceFence, TypeOK, Collections, DataStep, DataKept
  <2>2. CASE ~AdvanceFence(c)
    BY <1>1, <1>2, <1>3, <2>2 DEF Recovery, Probe, AllocateCandidate, ReallocateCandidate,
       BeginRecovery, BeginReplacement, CompleteRecovery, RecheckState, StateScript, StorageError
  <2> QED BY <2>1, <2>2
<1>4. ASSUME NEW w \in Clients, WriterStep(w)
      PROVE  DataStep
  <2>1. CASE Commit(w)
    <3>1. generation.pending /\ tx # NoTx
      BY <2>1, OpenTransaction
         DEF Commit, FencingInv, TransactionInv, TokenInv, CommitInv, Owns, At, Holding
    <3>2. collection'.revision = collection.revision + 1
          /\ UNCHANGED <<generation, lease, contexts, served>>
      BY <2>1 DEF Commit, ApplyReplacement, redisVars
    <3> QED BY <3>1, <3>2 DEF DataStep, Applying
  <2>2. CASE LoseCommit(w)
    <3>1. tx # NoTx /\ collection' = collection
      BY <2>2, OpenTransaction DEF LoseCommit, FencingInv, TransactionInv
    <3> QED BY <3>1 DEF DataStep, DataKept
  <2>3. CASE OpenReplacement(w)
    <3>1. CASE Goto(w, "complete") /\ UNCHANGED tx
      BY <1>2, <2>3, <3>1 DEF OpenReplacement
    <3>2. CASE Goto(w, "commit")
      <4>1. client'[w] = [client[w] EXCEPT !.pc = "commit"] /\ OthersKept(w)
        BY <3>2, BecomeStep DEF Goto
      <4>2. client[w].seen = NoGeneration
        BY <2>3 DEF OpenReplacement, SeenInv, At, Observing
      <4>3. Owns(client[w]) /\ generation.pending
            /\ UNCHANGED <<generation, lease, active, collection>>
        BY <2>3, <4>1, <4>2, OpensOwning DEF Opens
      <4>4. lease.phase # "leased" /\ served' = served
        BY <2>3, <4>3 DEF Owns, OpenReplacement
      <4> QED BY <4>3, <4>4 DEF DataStep, Opening
    <3> QED BY <2>3, <3>1, <3>2 DEF OpenReplacement
  <2>4. CASE ~Commit(w) /\ ~LoseCommit(w) /\ ~OpenReplacement(w)
    BY <1>1, <1>2, <1>4, <2>4 DEF WriterStep, StartReplace, CheckBeforeBegin, StateScript,
       BeginMutation, AllocateFence, FenceMutation, CompleteMutation, ReleaseMutation
  <2> QED BY <2>1, <2>2, <2>3, <2>4
<1>5. ASSUME NEW c \in Clients, ReaderStep(c) \/ ClearerStep(c)
      PROVE  DataStep
  BY <1>1, <1>5 DEF ReaderStep, ClearerStep, StartRead, CheckBefore, CheckAfter, StateScript,
     List, RecordContext, StartClear, CheckBeforeClear, CheckClear, Invalidate
<1>6. CASE SettleTransaction
  <2>1. UNCHANGED <<generation, lease, contexts, served>> /\ tx.lost /\ tx # NoTx
    BY <1>6 DEF NoTx, SettleTransaction, redisVars
  <2> QED BY <1>6, <2>1 DEF SettleTransaction, ApplyReplacement, DataStep, DataKept, Applying
<1>7. ASSUME NEW c \in Clients, Crash(c)
      PROVE  DataStep
  <2>1. At(c, "commit") => tx # NoTx
    BY OpenTransaction DEF FencingInv, TransactionInv
  <2> QED BY <1>7, <2>1 DEF Crash, DataStep, DataKept
<1>8. CASE ExpireLease \/ DeactivateProfile \/ UNCHANGED vars \/ \E c \in Clients : Observe(c)
  BY <1>8, <1>2 DEF ExpireLease, DeactivateProfile, Observe, vars, pgVars
<1> QED BY <1>3, <1>4, <1>5, <1>6, <1>7, <1>8 DEF Next, ClientStep, Environment, Clients

LEMMA InitCommitting == Init => SeenInv /\ CommitInv
BY IdleFields DEF Init, SeenInv, CommitInv, At

\* A client has observed a generation only while it looks, and a commit is under
\* way only behind the pending generation of its writer.
THEOREM CommitCorrect == Spec => [](SeenInv /\ CommitInv)
<1>1. TypeOK /\ FencingInv /\ SeenInv /\ CommitInv /\ [Next]_vars => (SeenInv /\ CommitInv)'
  BY NextSeen, NextCommitting
<1> QED BY <1>1, InitCommitting, TypeCorrect, FencingCorrect, PTL DEF Spec

\* The collection moves behind a pending generation, except for the writer whose
\* COMMIT lost its reply and that completed its mutation meanwhile.
THEOREM MovesWhilePending == Spec => CollectionMovesWhilePending
<1>1. TypeOK /\ FencingInv /\ SeenInv /\ CommitInv /\ [Next]_vars
      => [collection'.revision # collection.revision => generation.pending \/ tx.lost]_vars
  BY NextData DEF DataStep, DataKept, Opening, Applying
<1> QED BY <1>1, TypeCorrect, FencingCorrect, CommitCorrect, PTL
        DEF Spec, CollectionMovesWhilePending

-----------------------------------------------------------------------------
(* What the readers read.                                                    *)

\* A stable generation that is published, or that a lapse could put back.
Live(g) ==
    /\ ~g.pending
    /\ \/ g = generation
       \/ generation.pending /\ lease.phase = "leased" /\ g.id = generation.base

\* The revision is that of the collection, and nobody is changing it.
Settled(r) == r = collection.revision /\ tx = NoTx

\* As long as the generation can be met, it names the revision.
Binding(g, r) == Live(g) => Settled(r)

\* Generations are numbered in the order they are minted.
Named ==
    /\ generation.id <= minted
    /\ \A c \in Clients : client[c].base.id <= minted /\ client[c].seen.id <= minted
    /\ \A x \in served : ~x.generation.pending /\ x.generation.id <= minted

Reads(r) ==
    /\ r.task = "after" /\ r.revision # Gone => Binding(r.base, r.revision)
    /\ r.pc = "record" => r.task = "after" /\ r.revision # Gone

ReaderInv == \A c \in Clients : Reads(client[c])

ServedInv == \A x \in served : Binding(x.generation, x.revision)

ContextInv ==
    \A x \in contexts : x.generation = generation /\ ~generation.pending /\ Settled(x.revision)

\* The inductive invariant behind ReadersAgree.
ReadInv ==
    /\ TypeOK /\ FencingInv /\ SeenInv /\ CommitInv
    /\ Named /\ LapseInv /\ ReaderInv /\ ServedInv /\ ContextInv /\ SnapshotsAgree

LEMMA GenerationIds == \A g \in Generations : g.id \in Nat
BY DEF Generations

\* A stable generation is its number.
LEMMA StableEqual ==
    ASSUME NEW g \in Generations, NEW h \in Generations, ~g.pending, ~h.pending, g.id = h.id
    PROVE  g = h
<1>1. g \in [pending : {FALSE}, id : Nat, base : {0}]
  BY DEF Generations
<1>2. h \in [pending : {FALSE}, id : Nat, base : {0}]
  BY DEF Generations
<1>3. g = [pending |-> FALSE, id |-> g.id, base |-> 0]
  BY <1>1
<1>4. h = [pending |-> FALSE, id |-> h.id, base |-> 0]
  BY <1>2
<1> QED BY <1>3, <1>4

LEMMA StepsOf ==
    ASSUME ReadInv, [Next]_vars
    PROVE  MoveStep /\ GenerationStep /\ ContextStep /\ DataStep
BY NextMoves, NextGeneration, NextData DEF ReadInv

\* A generation that was minted before does not come to life.
LEMMA LiveFades ==
    ASSUME ReadInv, [Next]_vars, NEW g \in Generations, g.id <= minted, Live(g)'
    PROVE  Live(g)
<1>1. ~g.pending /\ minted \in Nat /\ g.id \in Nat /\ generation \in Generations
  BY DEF Live, ReadInv, TypeOK, Generations
<1>2. CASE Steady
  BY <1>2 DEF Steady, Live
<1>3. CASE Fresh
  <2>1. generation' = Stable(minted + 1) /\ lease'.phase = "none"
    BY <1>3, LeaseTyped DEF Fresh
  <2>2. Stable(minted + 1).id = minted + 1
    BY DEF Stable
  <2> QED BY <1>1, <2>1, <2>2 DEF Live
<1>4. CASE PutsBack
  <2>1. PICK c \in Clients :
            /\ Lapsed /\ client[c].pc \in {"state", "recheck"}
            /\ client[c].seen # NoGeneration /\ ~client[c].seen.pending
            /\ generation' = client[c].seen /\ lease' = NoLease
    BY <1>4 DEF PutsBack
  <2>2. g = client[c].seen
    BY <2>1, LeaseTyped DEF Live
  <2>3. g.id = generation.base
    BY <2>1, <2>2 DEF ReadInv, LapseInv, OutlivesLease
  <2>4. generation.pending /\ lease.phase = "leased"
    BY <2>1 DEF Lapsed, ReadInv, FencingInv, LeaseInv
  <2> QED BY <1>1, <2>3, <2>4 DEF Live
<1>5. CASE Begins
  BY <1>5, <1>1, StableEqual DEF Begins, Pending, Live
<1> QED BY <1>2, <1>3, <1>4, <1>5, StepsOf DEF GenerationStep

\* What a generation names it names for good.
LEMMA BindingStays ==
    ASSUME ReadInv, [Next]_vars, NEW g \in Generations, g.id <= minted, NEW r, Binding(g, r)
    PROVE  Binding(g, r)'
BY LiveFades, StepsOf DEF Binding, DataKept, Settled, Opening, Live, Applying, DataStep

LEMMA NextNamed ==
    ASSUME ReadInv, [Next]_vars
    PROVE  Named'
<1>1. /\ minted \in Nat /\ TypeOK /\ generation.id <= minted /\ generation \in Generations
      /\ \A c \in Clients : /\ client[c].base.id <= minted /\ client[c].seen.id <= minted
                            /\ client[c].base.id \in Nat /\ client[c].seen.id \in Nat
      /\ NoGeneration.id = 0
  BY FieldsTyped DEF ReadInv, ClientStates, Generations, Named, TypeOK, NoGeneration, Stable
<1>2. /\ minted' \in Nat /\ minted' >= minted
      /\ generation'.id <= minted'
  BY <1>1, StepsOf
     DEF GenerationStep, Steady, Fresh, PutsBack, Begins, Stable, Pending
<1>3. \A c \in Clients : client[c].base.id <= minted' /\ client[c].seen.id <= minted'
  BY <1>1, <1>2
<1>4. generation.id <= minted'
  BY <1>1, GenerationIds, <1>2
<1>5. ASSUME NEW d \in Clients
      PROVE  client'[d].base.id <= minted' /\ client'[d].seen.id <= minted'
  <2>1. client[d] \in ClientStates
    BY <1>1, FieldsTyped
  <2>2. CASE AllMove
    BY <1>1, <1>2, <1>3, <2>2 DEF AllMove, MovesTo
  <2>3. ASSUME NEW c \in Clients, Looks(c) \/ Lists(c) \/ Opens(c) \/ Serves(c)
        PROVE  client'[d].base.id <= minted' /\ client'[d].seen.id <= minted'
    <3>1. CASE d # c
      BY <1>3, <2>3, <3>1 DEF Looks, Lists, Opens, Serves, OthersKept
    <3>2. CASE d = c
      <4>1. NoGeneration.id <= minted'
        BY <1>1, <1>2
      <4>2. /\ client'[c].seen \in {client[c].seen, generation, NoGeneration}
            /\ client'[c].base = client[c].base
        BY <2>1, <3>2, <2>3 DEF Looks, ClientStates, Lists, Opens, Serves
      <4> QED BY <1>3, <1>4, <3>2, <4>1, <4>2
    <3> QED BY <3>1, <3>2
  <2> QED BY <2>2, <2>3, StepsOf DEF MoveStep
<1>6. ASSUME NEW x \in served'
      PROVE  ~x.generation.pending /\ x.generation.id <= minted'
  <2>1. CASE x \in served
    BY <2>1, GenerationIds, <1>1, <1>2 DEF ReadInv, TypeOK, Snapshots, Named
  <2>2. ASSUME NEW c \in Clients, Serves(c), x \notin served
        PROVE  ~x.generation.pending /\ x.generation.id <= minted'
    BY <1>2, <2>2 DEF Serves
  <2> QED BY <2>1, <2>2, StepsOf DEF MoveStep
<1> QED BY <1>2, <1>5, <1>6 DEF Named

LEMMA NextLapse ==
    ASSUME PromptChecks, ReadInv, [Next]_vars
    PROVE  LapseInv'
<1> SUFFICES ASSUME Lapsed', NEW d \in Clients,
                    client'[d].pc \in {"state", "recheck"}, client'[d].seen # NoGeneration,
                    ~client'[d].seen.pending, client'[d].seen.id # generation'.base
             PROVE  FALSE
  BY DEF LapseInv, OutlivesLease
<1>1. generation' = generation /\ (Lapsed \/ \A c \in Clients : ~OutlivesLease(c))
  BY StepsOf, LeaseTyped DEF Lapsed, GenerationStep, Fresh, PutsBack, Begins, Steady
<1>2. ~OutlivesLease(d)
  BY <1>1 DEF ReadInv, LapseInv
<1>3. CASE client'[d] = client[d]
  BY <1>1, <1>2, <1>3 DEF OutlivesLease
<1>4. CASE AllMove
  BY <1>3, <1>4 DEF AllMove, MovesTo
<1>5. ASSUME NEW c \in Clients, Looks(c) \/ Lists(c) \/ Opens(c) \/ Serves(c), c = d
      PROVE  FALSE
  <2>1. client[d] \in ClientStates
    BY FieldsTyped DEF ReadInv
  <2>2. CASE Looks(c)
    <3>1. client'[d].seen = generation /\ lease' = lease
      BY <1>5, <2>1, <2>2 DEF Looks, Observe, redisVars, ClientStates
    <3>2. generation.pending
      BY <3>1 DEF Lapsed, ReadInv, FencingInv, LeaseInv
    <3> QED BY <3>1, <3>2
  <2>3. CASE Lists(c) \/ Opens(c) \/ Serves(c)
    BY <1>5, <2>1, <2>3 DEF Lists, Opens, Serves, ClientStates
  <2> QED BY <1>5, <2>2, <2>3
<1>6. ASSUME NEW c \in Clients, Looks(c) \/ Lists(c) \/ Opens(c) \/ Serves(c), c # d
      PROVE  client'[d] = client[d]
  BY <1>6 DEF Looks, Lists, Opens, Serves, OthersKept
<1> QED BY <1>3, <1>4, <1>5, <1>6, StepsOf DEF MoveStep

LEMMA NextReader ==
    ASSUME ReadInv, [Next]_vars
    PROVE  ReaderInv'
<1> SUFFICES ASSUME NEW d \in Clients
             PROVE  Reads(client[d])'
  BY DEF ReaderInv
<1>1. client[d] \in ClientStates /\ client[d].base \in Generations
      /\ client[d].base.id <= minted /\ Reads(client[d])
  BY FieldsTyped DEF ReadInv, ClientStates, Named, ReaderInv
<1>2. ASSUME client[d].task = "after", client[d].revision # Gone
      PROVE  Binding(client[d].base, client[d].revision)
             /\ \A g, r : g = client[d].base /\ r = client[d].revision => Binding(g, r)'
  BY <1>1, <1>2, BindingStays DEF Reads
<1>3. PICK y : y = client'[d]
  OBVIOUS
<1>4. ASSUME y.task = "after" => client[d].task = "after" /\ y.base = client[d].base
                                 /\ y.revision = client[d].revision,
             y.pc = "record" => y.task = "after" /\ y.revision # Gone
      PROVE  Reads(client[d])'
  BY <1>2, <1>4, <1>3 DEF Reads, Binding, Live, Settled
<1>5. CASE client'[d] = client[d]
  BY <1>1, <1>3, <1>4, <1>5 DEF Reads
<1>6. CASE AllMove
  BY <1>3, <1>4, <1>5, <1>6 DEF AllMove, MovesTo
<1>7. ASSUME NEW c \in Clients, Looks(c) \/ Lists(c) \/ Opens(c) \/ Serves(c)
      PROVE  Reads(client[d])'
  <2>1. CASE d # c
    BY <1>5, <1>7, <2>1 DEF Looks, Lists, Opens, Serves, OthersKept
  <2>2. CASE d = c /\ Lists(c)
    BY <1>3, <2>2 DEF Lists, List, pgVars, Reads, Binding, Settled
  <2>3. CASE d = c /\ (Looks(c) \/ Opens(c) \/ Serves(c))
    BY <1>1, <1>3, <2>3, <1>4 DEF Looks, Opens, Serves, ClientStates, Observe, Observing
  <2> QED BY <1>7, <2>1, <2>2, <2>3
<1> QED BY <1>6, <1>7, StepsOf DEF MoveStep

\* A reader is given what its generation names.
LEMMA ServesSettled ==
    ASSUME ReadInv, [Next]_vars, NEW c \in Clients, Serves(c)
    PROVE  /\ Settled(client[c].revision) /\ Live(client[c].base)
           /\ Binding(client[c].base, client[c].revision)
           /\ client[c].base \in Generations /\ client[c].base.id <= minted
BY FieldsTyped, LiveFades
   DEF ReadInv, ClientStates, Named, ReaderInv, Reads, Serves, Live, Binding

LEMMA NextServed ==
    ASSUME ReadInv, [Next]_vars
    PROVE  ServedInv' /\ SnapshotsAgree'
<1>1. ASSUME NEW x \in served
      PROVE  x.generation \in Generations /\ x.generation.id <= minted
             /\ Binding(x.generation, x.revision)
  BY DEF ReadInv, TypeOK, Snapshots, Named, ServedInv
<1>2. ASSUME NEW x \in served PROVE Binding(x.generation, x.revision)'
  BY <1>1, BindingStays
<1>3. CASE served' = served
  BY <1>2, <1>3 DEF ServedInv, ReadInv, SnapshotsAgree
<1>4. ASSUME NEW c \in Clients, Serves(c)
      PROVE  ServedInv' /\ SnapshotsAgree'
  <2>1. PICK n : n = [generation |-> client[c].base, revision |-> client[c].revision]
    OBVIOUS
  <2>2. n.generation = client[c].base /\ n.revision = client[c].revision
        /\ served' = served \cup {n}
    BY <1>4, <2>1 DEF Serves
  <2>3. Settled(n.revision) /\ Live(n.generation) /\ Binding(n.generation, n.revision)
        /\ n.generation \in Generations /\ n.generation.id <= minted
    BY <1>4, <2>2, ServesSettled
  <2>4. Binding(n.generation, n.revision)'
    BY <2>3, BindingStays
  <2>5. ASSUME NEW x \in served, x.generation = n.generation
        PROVE  x.revision = n.revision
    BY <1>1, <2>3, <2>5 DEF Binding, Settled
  <2>6. ServedInv'
    BY <1>2, <2>2, <2>4 DEF ServedInv
  <2>7. \A x, y \in served : x.generation = y.generation => x.revision = y.revision
    BY DEF ReadInv, SnapshotsAgree
  <2>8. SnapshotsAgree'
    BY <2>2, <2>5, <2>7 DEF SnapshotsAgree
  <2> QED BY <2>6, <2>8
<1> QED BY <1>3, <1>4, StepsOf DEF MoveStep

LEMMA NextContext ==
    ASSUME ReadInv, [Next]_vars
    PROVE  ContextInv'
<1>1. ASSUME NEW r, ~generation.pending, generation' = generation, Settled(r)
      PROVE  Settled(r)'
  BY <1>1, BindingStays DEF ReadInv, TypeOK, Named, Binding, Live
<1>2. CASE contexts' = {}
  BY <1>2 DEF ContextInv
<1>3. CASE contexts' = contexts /\ (generation.pending \/ generation' = generation)
  BY <1>1, <1>3 DEF ReadInv, ContextInv
<1>4. ASSUME NEW c \in Clients, generation' = generation, ~generation.pending,
             At(c, "record"), client[c].base = generation,
             contexts' = contexts \cup
                  {[generation |-> client[c].base, revision |-> client[c].revision]}
      PROVE  ContextInv'
  <2>1. Settled(client[c].revision)
    BY <1>4 DEF ReadInv, ReaderInv, Reads, At, Binding, Live
  <2>2. PICK r : r = client[c].revision
    OBVIOUS
  <2>3. Settled(r)'
    BY <1>1, <1>4, <2>1, <2>2
  <2>4. ASSUME NEW x \in contexts'
        PROVE  x.generation = generation' /\ ~generation'.pending /\ Settled(x.revision)'
    BY <1>1, <1>4, <2>3, <2>2 DEF ReadInv, ContextInv
  <2> QED BY <2>4 DEF ContextInv
<1> QED BY <1>2, <1>3, <1>4, StepsOf DEF ContextStep

LEMMA NextReading ==
    ASSUME PromptChecks, ReadInv, [Next]_vars
    PROVE  ReadInv'
BY NextTyped, NextFencing, NextSeen, NextCommitting, NextNamed, NextLapse, NextReader, NextServed,
   NextContext
   DEF ReadInv

LEMMA InitReading == Init => ReadInv
<1> SUFFICES ASSUME Init PROVE ReadInv
  OBVIOUS
<1>1. TypeOK /\ FencingInv /\ SeenInv /\ CommitInv
  BY InitTyped, InitFencing, InitCommitting
<1>2. /\ generation.id = 1 /\ minted = 1 /\ lease.phase = "none" /\ served = {} /\ contexts = {}
      /\ \A c \in Clients : /\ client[c].pc = "idle" /\ client[c].task = "none"
                            /\ client[c].seen.id = 0 /\ client[c].base.id = 0
  <2>1. Stable(1).id = 1 /\ NoGeneration.id = 0
    BY DEF Stable, NoGeneration
  <2>2. \A c \in Clients : client[c] = Idle
    BY DEF Init
  <2> QED BY <2>1, <2>2, IdleFields, LeaseTyped DEF Init
<1>3. Named /\ LapseInv /\ ReaderInv /\ ServedInv /\ ContextInv /\ SnapshotsAgree
  BY <1>2 DEF Named, LapseInv, Lapsed, ReaderInv, Reads, ServedInv, ContextInv, SnapshotsAgree
<1> QED BY <1>1, <1>3 DEF ReadInv

\* The invariant that the reads and the refinement rest on, when no state check
\* outlives a lease.
THEOREM ReadInvCorrect ==
    ASSUME PromptChecks
    PROVE  Spec => []ReadInv
<1>1. ReadInv /\ [Next]_vars => ReadInv'
  BY NextReading
<1> QED BY <1>1, InitReading, PTL DEF Spec

\* A context can be claimed only while the collection is the one it was recorded
\* from, and two reads of one generation are of one collection.
THEOREM ReadersAgreeCorrect ==
    ASSUME PromptChecks
    PROVE  Spec => []ReadersAgree
<1>1. ReadInv => ReadersAgree
  BY DEF ReadInv, ContextInv, Settled, ReadersAgree, ContextsFresh
<1> QED BY <1>1, ReadInvCorrect, PTL

-----------------------------------------------------------------------------
(* The protocol implements the register.                                     *)

\* Whoever was given the generation of the next state was given the revision of
\* this one.
LEMMA NextBinds ==
    ASSUME ReadInv, [Next]_vars
    PROVE  Register!Binds(generation', collection.revision)
BY LiveFades
   DEF Register!Binds, ReadInv, TypeOK, Snapshots, Named, ServedInv, Live, Binding, Settled

LEMMA NextRegister ==
    ASSUME ReadInv, [Next]_vars
    PROVE  [Register!Next]_(Register!vars)
<1>1. ASSUME NEW c \in Clients, Serves(c)
      PROVE  Register!Read
  BY <1>1, ServesSettled, NextBinds
     DEF Serves, CheckAfter, StateScript, pgVars, Settled, Register!Read
<1>2. ASSUME served' = served, DataKept
      PROVE  Register!Move
  BY <1>2, NextBinds DEF DataKept, Register!Move
<1>3. ASSUME Opening
      PROVE  UNCHANGED Register!vars
  BY <1>3 DEF Opening, Register!vars
<1>4. ASSUME Applying
      PROVE  Register!Replace
  <2>1. \A x \in served : x.generation # generation
    BY <1>4 DEF ReadInv, Named, Live, ServedInv, Binding, Settled, Applying
  <2>2. collection'.revision # collection.revision
    <3>1. collection.revision \in Nat
      BY LeaseTyped DEF ReadInv, TypeOK
    <3>2. collection'.revision = collection.revision + 1
      BY <1>4 DEF Applying
    <3> QED BY <3>1, <3>2
  <2> QED BY <1>4, <2>1, <2>2 DEF Applying, Register!Replace
<1>5. served' = served \/ \E c \in Clients : Serves(c)
  BY StepsOf DEF MoveStep
<1> QED BY <1>1, <1>2, <1>3, <1>4, <1>5, StepsOf DEF DataStep, Register!Next

LEMMA InitRegister == Init => Register!Init
BY GenerationsTyped DEF Init, Register!Init

\* The protocol implements the register, step by step: the generation that a read
\* returned names one revision for good.
THEOREM RegisterImplemented ==
    ASSUME PromptChecks
    PROVE  Spec => ImplementsRegister
<1>1. ReadInv /\ [Next]_vars => [Register!Next]_(Register!vars)
  BY NextRegister
<1>2. Spec => Register!Spec
  BY <1>1, InitRegister, ReadInvCorrect, PTL DEF Spec, Register!Spec
<1> QED BY <1>2, MovesWhilePending, PTL DEF ImplementsRegister
=============================================================================
