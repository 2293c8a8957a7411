-------------------------- MODULE ProviderSnapshot --------------------------
(***************************************************************************)
(* The fenced provider-collection protocol of one profile.                 *)
(*                                                                         *)
(* The provider collection lives in PostgreSQL; the profile generation,    *)
(* the mutation lease and the playback contexts live in Redis.  There is   *)
(* no transaction over both.  A writer replaces the generation by a        *)
(* pending token (begin), binds a fence allocated by PostgreSQL to it      *)
(* (fence), runs the replacement transaction, and publishes a fresh stable *)
(* generation (complete).  Any client that meets a pending generation may  *)
(* take an expired fenced mutation over (recovery).  A reader lists the    *)
(* collection between two looks at the generation.                         *)
(*                                                                         *)
(* One action is one atomic call: a Redis script or a PostgreSQL           *)
(* transaction (the replacement transaction is two: the statement that     *)
(* takes the row lock, and COMMIT).  Clients interleave between the calls. *)
(***************************************************************************)
EXTENDS Integers, FiniteSets

CONSTANTS
    Writers,       \* clients that replace the collection
    Readers,       \* clients that read a snapshot and record a context from it
    Clearers,      \* clients that invalidate the profile
    MaxAttempts,   \* MAX_PROVIDER_SNAPSHOT_ATTEMPTS
    MaxMutations,  \* bound: replacements and invalidations started
    MaxFaults,     \* bound: crashes, lost replies and storage errors
    PromptChecks   \* TRUE: no state check outlives a whole mutation lease

ASSUME ClientsAssumption ==
    /\ Writers \cap Readers = {}
    /\ Writers \cap Clearers = {}
    /\ Readers \cap Clearers = {}

ASSUME BoundsAssumption ==
    /\ MaxAttempts \in Nat \ {0}
    /\ MaxMutations \in Nat
    /\ MaxFaults \in Nat
    /\ PromptChecks \in BOOLEAN

VARIABLES
    \* Redis
    generation,   \* the profile generation key
    minted,       \* generations minted so far: the uniqueness of their nonce
    lease,        \* the mutation-state hash; its token is always `generation`
    mirror,       \* the fence counter key, mirror of the highest fence seen
    contexts,     \* playback contexts in the profile
    \* PostgreSQL
    active,       \* profiles.status = 'active'
    collection,   \* the provider_collections row
    allocator,    \* provider_mutation_fence_counter
    tx,           \* the replacement transaction holding the profile row lock
    \* the clients' local state
    client,
    \* history and bounds
    served,       \* snapshots returned to callers
    begun,        \* replacements and invalidations started
    faults        \* faults that happened

redisVars == <<generation, minted, lease, mirror, contexts>>
pgVars == <<active, collection, allocator, tx>>
bounds == <<begun, faults>>
vars == <<redisVars, pgVars, client, served, bounds>>

Clients == Writers \cup Readers \cup Clearers

-----------------------------------------------------------------------------
(* Data.  A stable generation is an opaque fresh value; a pending one        *)
(* carries the generation it replaced, as the digest of the token does.      *)

Stable(n) == [pending |-> FALSE, id |-> n, base |-> 0]
Pending(n, g) == [pending |-> TRUE, id |-> n, base |-> g.id]
NoGeneration == Stable(0)

NoLease == [phase |-> "none", fence |-> 0, expired |-> FALSE]
NoTx == [fence |-> 0, lost |-> FALSE]

\* list() of an inactive profile: an empty collection that says nothing.
Gone == -1

Idle == [pc |-> "idle", task |-> "none", resumed |-> FALSE, tries |-> 0,
         retries |-> 0, seen |-> NoGeneration, token |-> NoGeneration,
         fence |-> 0, candidate |-> 0, base |-> NoGeneration, revision |-> 0]

Larger(a, b) == IF a >= b THEN a ELSE b

Init ==
    /\ generation = Stable(1)
    /\ minted = 1
    /\ lease = NoLease
    /\ mirror = 0
    /\ contexts = {}
    /\ active = TRUE
    /\ collection = [revision |-> 0, fence |-> 0]
    /\ allocator = 0
    /\ tx = NoTx
    /\ client = [c \in Clients |-> Idle]
    /\ served = {}
    /\ begun = 0
    /\ faults = 0

-----------------------------------------------------------------------------
(* Moves of one client.                                                      *)

At(c, label) == client[c].pc = label

Become(c, r) == client' = [client EXCEPT ![c] = r]

Goto(c, label) == Become(c, [client[c] EXCEPT !.pc = label])

Done(c) == Become(c, Idle)

\* The next turn of a MAX_PROVIDER_SNAPSHOT_ATTEMPTS loop, or its error.
Retry(c, t) ==
    IF client[c].tries + 1 < MaxAttempts
    THEN Become(c, [Idle EXCEPT !.pc = "state", !.task = t,
                    !.tries = client[c].tries + 1,
                    !.revision = IF t = "begin" THEN client[c].revision ELSE 0])
    ELSE Done(c)

\* A state check that asks Redis again after a recovery (readProviderSnapshotState).
Recheck(c) ==
    Become(c, [client[c] EXCEPT !.pc = "state", !.resumed = TRUE,
               !.seen = NoGeneration, !.token = NoGeneration,
               !.fence = 0, !.candidate = 0, !.retries = 0])

Recover(c) ==
    Become(c, [client[c] EXCEPT !.pc = "probe", !.seen = NoGeneration,
               !.retries = 0])

\* invalidateProviderSnapshot: the first check is done, invalidateProfile runs.
ClearNow(c) == Become(c, [Idle EXCEPT !.pc = "state", !.task = "clear"])

\* What the caller of recoverProviderSnapshotMutation does with `true`, `false`.
Recovered(c) ==
    IF client[c].task = "begin" THEN Retry(c, "begin") ELSE Recheck(c)

Unrecovered(c) ==
    CASE client[c].task = "begin"    -> Retry(c, "begin")
      [] client[c].task = "preclear" -> ClearNow(c)
      [] OTHER                       -> Retry(c, "before")

\* A fault consumes one unit of the budget.
Fault == faults < MaxFaults /\ faults' = faults + 1

NoFault == UNCHANGED faults

-----------------------------------------------------------------------------
(* Redis: reading the generation, and the state script.                      *)

Observing == {"state", "recheck", "probe", "rbegin", "rebegin"}

\* getProfileGeneration: the GET that every two-call operation starts with.
Observe(c) ==
    /\ client[c].pc \in Observing
    /\ client[c].seen = NoGeneration
    /\ Become(c, [client[c] EXCEPT !.seen = generation])
    /\ UNCHANGED <<redisVars, pgVars, served, bounds>>

Lapsed == lease.phase = "leased" /\ lease.expired

Publish(g) ==
    /\ generation' = g
    /\ lease' = NoLease

PublishFresh ==
    /\ Publish(Stable(minted + 1))
    /\ minted' = minted + 1

\* The snapshot_state script: a lease that was never fenced lapses into the
\* generation the caller supplies, which is the one it observed when that was
\* stable and a fresh one otherwise.
StateScript(c) ==
    /\ client[c].seen # NoGeneration
    /\ \/ Lapsed /\ client[c].seen.pending /\ PublishFresh
       \/ Lapsed /\ ~client[c].seen.pending /\ Publish(client[c].seen) /\ UNCHANGED minted
       \/ ~Lapsed /\ UNCHANGED <<generation, lease, minted>>
    /\ UNCHANGED <<mirror, contexts, pgVars, bounds>>

-----------------------------------------------------------------------------
(* Recovery of an expired fenced mutation, run by every kind of client.      *)

\* Mutant: a recovery whose own client died cannot be continued.
TakeableOnce == lease.phase = "fenced" /\ lease.expired

Takeable == lease.phase = "recovering" \/ (lease.phase = "fenced" /\ lease.expired)

Current(c) == client[c].seen = generation /\ generation.pending

\* probeProviderSnapshotRecovery
Probe(c) ==
    /\ At(c, "probe")
    /\ client[c].seen # NoGeneration
    /\ IF ~(Current(c) /\ Takeable)
       THEN Unrecovered(c)
       ELSE IF client[c].retries = MaxAttempts
       THEN Done(c)
       ELSE Become(c, [client[c] EXCEPT
                !.pc = IF lease.phase = "fenced" THEN "allocate" ELSE "advance",
                !.seen = NoGeneration, !.token = generation,
                !.fence = lease.fence, !.candidate = 0])
    /\ UNCHANGED <<redisVars, pgVars, served, bounds>>

\* allocateMutationFence on behalf of a recovery.  The transaction locks the
\* profile row, so it waits for an open replacement.
AllocateCandidate(c) ==
    /\ At(c, "allocate")
    /\ tx = NoTx
    /\ allocator' = IF active THEN allocator + 1 ELSE allocator
    /\ Become(c, [client[c] EXCEPT !.pc = "rbegin",
                  !.candidate = IF active THEN allocator + 1 ELSE 0])
    /\ UNCHANGED <<redisVars, active, collection, tx, served, bounds>>

\* The same after a stale fence: here an inactive profile is an error.
ReallocateCandidate(c) ==
    /\ At(c, "reallocate")
    /\ tx = NoTx
    /\ IF active
       THEN /\ allocator' = allocator + 1
            /\ Become(c, [client[c] EXCEPT !.pc = "rebegin", !.candidate = allocator + 1])
       ELSE Done(c) /\ UNCHANGED allocator
    /\ UNCHANGED <<redisVars, active, collection, tx, served, bounds>>

\* Mutant: the takeover keeps the fence of the writer it supersedes.
TakeOverSameFence(c) ==
    IF lease.fence = client[c].fence
    THEN lease' = [lease EXCEPT !.phase = "recovering"] /\ UNCHANGED mirror
    ELSE UNCHANGED <<mirror, lease>>

\* snapshot_recover_begin: take the lease over with a fence above every fence
\* Redis knows, or join whoever changed the fence since it was probed.
TakeOver(c) ==
    IF lease.fence = client[c].fence
    THEN LET next == Larger(mirror + 1, client[c].candidate)
         IN /\ mirror' = next
            /\ lease' = [lease EXCEPT !.phase = "recovering", !.fence = next]
    ELSE UNCHANGED <<mirror, lease>>

BeginRecovery(c) ==
    /\ At(c, "rbegin")
    /\ client[c].seen # NoGeneration
    /\ IF ~(Current(c) /\ Takeable)
       THEN Unrecovered(c) /\ UNCHANGED <<mirror, lease>>
       ELSE /\ TakeOver(c)
            /\ Become(c, [client[c] EXCEPT
                  !.pc = IF client[c].candidate = 0 THEN "rcomplete" ELSE "advance",
                  !.seen = NoGeneration, !.token = generation, !.fence = lease'.fence])
    /\ UNCHANGED <<generation, minted, contexts, pgVars, served, bounds>>

\* The second begin, after PostgreSQL refused the fence.  It must supersede it.
BeginReplacement(c) ==
    /\ At(c, "rebegin")
    /\ client[c].seen # NoGeneration
    /\ IF ~(Current(c) /\ Takeable)
       THEN Unrecovered(c) /\ UNCHANGED <<mirror, lease>>
       ELSE /\ TakeOver(c)
            /\ IF lease'.fence = client[c].fence \/ client[c].retries + 1 = MaxAttempts
               THEN Done(c)
               ELSE Become(c, [client[c] EXCEPT !.pc = "advance", !.seen = NoGeneration,
                               !.token = generation, !.fence = lease'.fence,
                               !.retries = client[c].retries + 1])
    /\ UNCHANGED <<generation, minted, contexts, pgVars, served, bounds>>

\* Mutant: the recovery rebases the allocator and forgets the collection row.
AdvanceAllocatorOnly(c) ==
    /\ At(c, "advance")
    /\ tx = NoTx
    /\ allocator' = Larger(allocator, client[c].fence)
    /\ Goto(c, "rcomplete")
    /\ UNCHANGED <<redisVars, active, collection, tx, served, bounds>>

\* advanceMutationFence: from here PostgreSQL refuses the superseded writer.
AdvanceFence(c) ==
    /\ At(c, "advance")
    /\ tx = NoTx
    /\ IF ~active
       THEN Goto(c, "rcomplete") /\ UNCHANGED <<collection, allocator>>
       ELSE IF client[c].fence < collection.fence
       THEN Goto(c, "reallocate") /\ UNCHANGED <<collection, allocator>>
       ELSE /\ collection' = [collection EXCEPT !.fence = client[c].fence]
            /\ allocator' = Larger(allocator, client[c].fence)
            /\ Goto(c, "rcomplete")
    /\ UNCHANGED <<redisVars, active, tx, served, bounds>>

\* snapshot_recover_complete
CompleteRecovery(c) ==
    /\ At(c, "rcomplete")
    /\ IF /\ generation = client[c].token
          /\ lease.phase = "recovering"
          /\ lease.fence = client[c].fence
       THEN PublishFresh /\ Recovered(c)
       ELSE Goto(c, "recheck") /\ UNCHANGED <<generation, lease, minted>>
    /\ UNCHANGED <<mirror, contexts, pgVars, served, bounds>>

\* A superseded recovery looks at the state once more, and probes again.
RecheckState(c) ==
    /\ At(c, "recheck")
    /\ StateScript(c)
    /\ IF generation'.pending
       THEN Become(c, [client[c] EXCEPT !.pc = "probe", !.seen = NoGeneration,
                       !.retries = client[c].retries + 1])
       ELSE Recovered(c)
    /\ UNCHANGED served

\* A storage error other than the ones handled above ends the whole call.
StorageError(c) ==
    /\ client[c].pc \in {"allocate", "reallocate", "advance"}
    /\ Fault
    /\ Done(c)
    /\ UNCHANGED <<redisVars, pgVars, served, begun>>

Recovery(c) ==
    \/ Probe(c) \/ AllocateCandidate(c) \/ ReallocateCandidate(c)
    \/ BeginRecovery(c) \/ BeginReplacement(c) \/ AdvanceFence(c)
    \/ CompleteRecovery(c) \/ RecheckState(c) \/ StorageError(c)

-----------------------------------------------------------------------------
(* Writers: runProviderSnapshotMutation around providers.replaceAll.         *)

\* The caller names the revision it last listed.
StartReplace(w) ==
    /\ At(w, "idle")
    /\ begun < MaxMutations
    /\ tx = NoTx
    /\ begun' = begun + 1
    /\ Become(w, [Idle EXCEPT !.pc = "state", !.task = "begin",
                  !.revision = IF active THEN collection.revision ELSE 0])
    /\ UNCHANGED <<redisVars, pgVars, served, faults>>

\* The state check of beginProviderSnapshotMutation.
CheckBeforeBegin(w) ==
    /\ At(w, "state")
    /\ client[w].task = "begin"
    /\ StateScript(w)
    /\ IF generation'.pending
       THEN Recover(w)
       ELSE Become(w, [client[w] EXCEPT !.pc = "begin", !.seen = NoGeneration,
                       !.base = generation'])
    /\ UNCHANGED served

\* The snapshot_begin script clears the profile's contexts and claims.
BeginMutation(w) ==
    /\ At(w, "begin")
    /\ IF ~generation.pending /\ generation = client[w].base
       THEN LET token == Pending(minted + 1, generation)
            IN /\ generation' = token
               /\ minted' = minted + 1
               /\ lease' = [NoLease EXCEPT !.phase = "leased"]
               /\ contexts' = {}
               /\ Become(w, [client[w] EXCEPT !.pc = "mallocate", !.token = token])
       ELSE Recover(w) /\ UNCHANGED <<generation, minted, lease, contexts>>
    /\ UNCHANGED <<mirror, pgVars, served, bounds>>

AllocateFence(w) ==
    /\ At(w, "mallocate")
    /\ \/ /\ tx = NoTx /\ active /\ NoFault
          /\ allocator' = allocator + 1
          /\ Become(w, [client[w] EXCEPT !.pc = "fence", !.fence = allocator + 1])
       \/ tx = NoTx /\ ~active /\ NoFault /\ Goto(w, "release") /\ UNCHANGED allocator
       \/ Fault /\ Goto(w, "release") /\ UNCHANGED allocator
    /\ UNCHANGED <<redisVars, active, collection, tx, served, begun>>

\* Mutant: the fence is bound to the lease and not recorded in the counter.
FenceMutationUnmirrored(w) ==
    /\ At(w, "fence")
    /\ IF generation = client[w].token /\ lease.phase = "leased" /\ ~lease.expired
       THEN /\ lease' = [lease EXCEPT !.phase = "fenced", !.fence = client[w].fence]
            /\ Goto(w, "replace")
       ELSE Goto(w, "release") /\ UNCHANGED lease
    /\ UNCHANGED <<generation, minted, mirror, contexts, pgVars, served, bounds>>

\* The snapshot_fence script.  When its reply is lost the writer believes it
\* was not fenced, and releases instead of completing.
FenceMutation(w) ==
    /\ At(w, "fence")
    /\ \/ /\ generation = client[w].token
          /\ \/ lease.phase = "leased" /\ ~lease.expired
             \/ lease.phase = "fenced" /\ lease.fence = client[w].fence
          /\ lease' = [lease EXCEPT !.phase = "fenced", !.fence = client[w].fence]
          /\ mirror' = Larger(mirror, client[w].fence)
          /\ \/ NoFault /\ Goto(w, "replace")
             \/ Fault /\ Goto(w, "release")
       \/ /\ ~ /\ generation = client[w].token
               /\ \/ lease.phase = "leased" /\ ~lease.expired
                  \/ lease.phase = "fenced" /\ lease.fence = client[w].fence
          /\ NoFault /\ Goto(w, "release")
          /\ UNCHANGED <<lease, mirror>>
    /\ UNCHANGED <<generation, minted, contexts, pgVars, served, begun>>

\* Mutant: the replacement trusts its revision alone.
OpenReplacementUnfenced(w) ==
    /\ At(w, "replace")
    /\ tx = NoTx
    /\ IF active /\ client[w].revision = collection.revision
       THEN tx' = [fence |-> client[w].fence, lost |-> FALSE] /\ Goto(w, "commit")
       ELSE Goto(w, "complete") /\ UNCHANGED tx
    /\ UNCHANGED <<redisVars, active, collection, allocator, served, bounds>>

\* replaceAll up to COMMIT: the row lock, the fence check, the revision CAS.
OpenReplacement(w) ==
    /\ At(w, "replace")
    /\ tx = NoTx
    /\ IF /\ active
          /\ client[w].fence >= collection.fence
          /\ client[w].revision = collection.revision
       THEN tx' = [fence |-> client[w].fence, lost |-> FALSE] /\ Goto(w, "commit")
       ELSE Goto(w, "complete") /\ UNCHANGED tx
    /\ UNCHANGED <<redisVars, active, collection, allocator, served, bounds>>

ApplyReplacement ==
    /\ collection' = [revision |-> collection.revision + 1, fence |-> tx.fence]
    /\ allocator' = Larger(allocator, tx.fence)
    /\ tx' = NoTx

Commit(w) ==
    /\ At(w, "commit")
    /\ ApplyReplacement
    /\ Goto(w, "complete")
    /\ UNCHANGED <<redisVars, active, served, bounds>>

\* The connection breaks under COMMIT: the operation rejects, and PostgreSQL
\* commits or rolls back in its own time, holding the row lock until then.
LoseCommit(w) ==
    /\ At(w, "commit")
    /\ Fault
    /\ tx' = [tx EXCEPT !.lost = TRUE]
    /\ Goto(w, "complete")
    /\ UNCHANGED <<redisVars, active, collection, allocator, served, begun>>

\* snapshot_complete, run whether the operation resolved or rejected.  There is
\* no expiry check: only a recovery takes the lease from a fenced writer.
CompleteMutation(w) ==
    /\ At(w, "complete")
    /\ IF generation = client[w].token /\ lease.phase = "fenced"
       THEN PublishFresh
       ELSE UNCHANGED <<generation, lease, minted>>
    /\ Done(w)
    /\ UNCHANGED <<mirror, contexts, pgVars, served, bounds>>

\* snapshot_release, for a writer that knows of no fence.
ReleaseMutation(w) ==
    /\ At(w, "release")
    /\ IF generation = client[w].token /\ lease.phase = "leased" /\ ~lease.expired
       THEN PublishFresh
       ELSE UNCHANGED <<generation, lease, minted>>
    /\ Done(w)
    /\ UNCHANGED <<mirror, contexts, pgVars, served, bounds>>

WriterStep(w) ==
    \/ StartReplace(w) \/ CheckBeforeBegin(w) \/ BeginMutation(w)
    \/ AllocateFence(w) \/ FenceMutation(w) \/ OpenReplacement(w)
    \/ Commit(w) \/ LoseCommit(w) \/ CompleteMutation(w) \/ ReleaseMutation(w)

-----------------------------------------------------------------------------
(* Readers: readProviderCollectionSnapshot, then a playback context.         *)

StartRead(r) ==
    /\ At(r, "idle")
    /\ Become(r, [Idle EXCEPT !.pc = "state", !.task = "before"])
    /\ UNCHANGED <<redisVars, pgVars, served, bounds>>

CheckBefore(r) ==
    /\ At(r, "state")
    /\ client[r].task = "before"
    /\ StateScript(r)
    /\ IF ~generation'.pending
       THEN Become(r, [client[r] EXCEPT !.pc = "list", !.seen = NoGeneration,
                       !.base = generation'])
       ELSE IF client[r].resumed THEN Retry(r, "before") ELSE Recover(r)
    /\ UNCHANGED served

\* Mutant: the list reads the last committed rows without waiting for the lock.
ListUnlocked(r) ==
    /\ At(r, "list")
    /\ Become(r, [client[r] EXCEPT !.pc = "state", !.task = "after", !.resumed = FALSE,
                  !.revision = IF active THEN collection.revision ELSE Gone])
    /\ UNCHANGED <<redisVars, pgVars, served, bounds>>

\* providers.list takes the rows FOR SHARE: it waits for an open replacement.
List(r) ==
    /\ At(r, "list")
    /\ tx = NoTx
    /\ Become(r, [client[r] EXCEPT !.pc = "state", !.task = "after", !.resumed = FALSE,
                  !.revision = IF active THEN collection.revision ELSE Gone])
    /\ UNCHANGED <<redisVars, pgVars, served, bounds>>

CheckAfter(r) ==
    /\ At(r, "state")
    /\ client[r].task = "after"
    /\ StateScript(r)
    /\ IF generation'.pending
       THEN /\ IF client[r].resumed THEN Retry(r, "before") ELSE Recover(r)
            /\ UNCHANGED served
       ELSE IF generation' # client[r].base
       THEN Retry(r, "before") /\ UNCHANGED served
       ELSE IF client[r].revision = Gone
       THEN Done(r) /\ UNCHANGED served
       ELSE /\ served' = served \cup
                   {[generation |-> generation', revision |-> client[r].revision]}
            /\ Become(r, [client[r] EXCEPT !.pc = "record", !.seen = NoGeneration])

\* Mutant: the record script does not compare the generation.
RecordContextBlindly(r) ==
    /\ At(r, "record")
    /\ contexts' = contexts \cup {[generation |-> client[r].base,
                                   revision |-> client[r].revision]}
    /\ Done(r)
    /\ UNCHANGED <<generation, minted, lease, mirror, pgVars, served, bounds>>

\* The record script inserts under the snapshot's generation, or refuses.
RecordContext(r) ==
    /\ At(r, "record")
    /\ contexts' = IF ~generation.pending /\ generation = client[r].base
                   THEN contexts \cup {[generation |-> client[r].base,
                                        revision |-> client[r].revision]}
                   ELSE contexts
    /\ Done(r)
    /\ UNCHANGED <<generation, minted, lease, mirror, pgVars, served, bounds>>

ReaderStep(r) ==
    \/ StartRead(r) \/ CheckBefore(r) \/ List(r) \/ CheckAfter(r) \/ RecordContext(r)

-----------------------------------------------------------------------------
(* Clearers: invalidateProviderSnapshot.                                     *)

StartClear(c) ==
    /\ At(c, "idle")
    /\ begun < MaxMutations
    /\ begun' = begun + 1
    /\ Become(c, [Idle EXCEPT !.pc = "state", !.task = "preclear"])
    /\ UNCHANGED <<redisVars, pgVars, served, faults>>

CheckBeforeClear(c) ==
    /\ At(c, "state")
    /\ client[c].task = "preclear"
    /\ StateScript(c)
    /\ IF generation'.pending /\ ~client[c].resumed THEN Recover(c) ELSE ClearNow(c)
    /\ UNCHANGED served

\* invalidateProfile: busy when pending.
CheckClear(c) ==
    /\ At(c, "state")
    /\ client[c].task = "clear"
    /\ StateScript(c)
    /\ IF generation'.pending
       THEN Done(c)
       ELSE Become(c, [client[c] EXCEPT !.pc = "invalidate", !.seen = NoGeneration,
                       !.base = generation'])
    /\ UNCHANGED served

Invalidate(c) ==
    /\ At(c, "invalidate")
    /\ IF ~generation.pending /\ generation = client[c].base
       THEN PublishFresh /\ contexts' = {}
       ELSE UNCHANGED <<generation, lease, minted, contexts>>
    /\ Done(c)
    /\ UNCHANGED <<mirror, pgVars, served, bounds>>

ClearerStep(c) ==
    StartClear(c) \/ CheckBeforeClear(c) \/ CheckClear(c) \/ Invalidate(c)

-----------------------------------------------------------------------------
(* The environment.                                                          *)

\* A state check that observed a stable generation older than the one this
\* lease was begun from has been open for longer than the lease lasts.
OutlivesLease(c) ==
    /\ client[c].pc \in {"state", "recheck"}
    /\ client[c].seen # NoGeneration
    /\ ~client[c].seen.pending
    /\ client[c].seen.id # generation.base

\* The deadline of the lease passes.
ExpireLease ==
    /\ lease.phase \in {"leased", "fenced"}
    /\ ~lease.expired
    /\ PromptChecks => \A c \in Clients : ~OutlivesLease(c)
    /\ lease' = [lease EXCEPT !.expired = TRUE]
    /\ UNCHANGED <<generation, minted, mirror, contexts, pgVars, client, served, bounds>>

\* A transaction whose client is gone commits or rolls back.
SettleTransaction ==
    /\ tx.lost
    /\ ApplyReplacement \/ (tx' = NoTx /\ UNCHANGED <<collection, allocator>>)
    /\ UNCHANGED <<redisVars, active, client, served, bounds>>

\* The profile's erasure is requested: its row leaves the active status.
DeactivateProfile ==
    /\ active
    /\ tx = NoTx
    /\ active' = FALSE
    /\ UNCHANGED <<redisVars, collection, allocator, tx, client, served, bounds>>

\* The process dies between two calls, or under COMMIT.
Crash(c) ==
    /\ ~At(c, "idle")
    /\ Fault
    /\ tx' = IF At(c, "commit") THEN [tx EXCEPT !.lost = TRUE] ELSE tx
    /\ Done(c)
    /\ UNCHANGED <<redisVars, active, collection, allocator, served, begun>>

Environment ==
    \/ ExpireLease \/ SettleTransaction \/ DeactivateProfile
    \/ \E c \in Clients : Crash(c)

ClientStep(c) == Observe(c) \/ Recovery(c)

Next ==
    \/ \E c \in Clients : ClientStep(c)
    \/ \E w \in Writers : WriterStep(w)
    \/ \E r \in Readers : ReaderStep(r)
    \/ \E c \in Clearers : ClearerStep(c)
    \/ Environment

Spec == Init /\ [][Next]_vars

\* Every call the server started is run to its end, time passes, and a broken
\* transaction is settled by PostgreSQL.  Readers keep coming: a profile that
\* nobody asks for stays pending, and nothing in the code wakes it up.
Fairness ==
    /\ \A w \in Writers : WF_vars(ClientStep(w) \/ WriterStep(w))
    /\ \A r \in Readers : WF_vars(ClientStep(r) \/ ReaderStep(r))
    /\ \A c \in Clearers : WF_vars(ClientStep(c) \/ ClearerStep(c))
    /\ WF_vars(ExpireLease)
    /\ WF_vars(SettleTransaction)

FairSpec == Spec /\ Fairness

-----------------------------------------------------------------------------
(* Properties.                                                               *)

Generations ==
    [pending : {FALSE}, id : Nat, base : {0}] \cup [pending : {TRUE}, id : Nat, base : Nat]

Leases == [phase : {"none", "leased", "fenced", "recovering"},
           fence : Nat, expired : BOOLEAN]

Collections == [revision : Nat, fence : Nat]

Transactions == [fence : Nat, lost : BOOLEAN]

Labels == Observing \cup {"idle", "allocate", "reallocate", "advance", "rcomplete",
    "begin", "mallocate", "fence", "replace", "commit", "complete", "release",
    "list", "record", "invalidate"}

ClientStates ==
    [pc : Labels, task : {"none", "begin", "before", "after", "preclear", "clear"},
     resumed : BOOLEAN, tries : 0 .. MaxAttempts - 1, retries : Nat, seen : Generations,
     token : Generations, fence : Nat, candidate : Nat, base : Generations,
     revision : Nat \cup {Gone}]

Snapshots == [generation : Generations, revision : Nat \cup {Gone}]

\* The type invariant; a client is never past its MAX_PROVIDER_SNAPSHOT_ATTEMPTS.
TypeOK ==
    /\ generation \in Generations
    /\ minted \in Nat
    /\ lease \in Leases
    /\ mirror \in Nat
    /\ contexts \subseteq Snapshots
    /\ active \in BOOLEAN
    /\ collection \in Collections
    /\ allocator \in Nat
    /\ tx \in Transactions
    /\ client \in [Clients -> ClientStates]
    /\ served \subseteq Snapshots
    /\ begun \in Nat
    /\ faults \in Nat

\* Once a stable generation is published, no writer that is still waiting to
\* run its replacement can get past the fence check of replaceAll: a recovery
\* advances PostgreSQL before it publishes, and a writer publishes only its own
\* mutation.
NoLateWriter ==
    ~generation.pending =>
        \A w \in Writers :
            At(w, "replace") => client[w].fence < collection.fence \/ ~active

\* Why it is so: the inductive invariant behind NoLateWriter.
\* A lease exists exactly under a pending generation, and Redis' mirror is
\* never behind the fence it is bound to.
LeaseInv ==
    /\ generation.pending <=> lease.phase # "none"
    /\ lease.fence <= mirror

\* Every writer between begin and its end holds a pending token of its own.
Holding == {"mallocate", "fence", "replace", "commit", "complete", "release"}

TokenInv ==
    /\ \A w \in Clients : client[w].pc \in Holding =>
            client[w].token.pending /\ client[w].token.id <= minted
    /\ \A v, w \in Clients : v # w /\ client[v].pc \in Holding /\ client[w].pc \in Holding =>
            client[v].token # client[w].token

\* A writer about to replace still owns the lease, or a recovery with a higher
\* fence does, or PostgreSQL refuses it.
WriterInv ==
    \A w \in Clients : At(w, "replace") =>
        IF generation = client[w].token
        THEN \/ lease.phase = "fenced" /\ lease.fence = client[w].fence
             \/ lease.phase = "recovering" /\ lease.fence > client[w].fence
        ELSE client[w].fence < collection.fence \/ ~active

\* A recovery completes only with a fence that PostgreSQL knows.
RecoveryInv ==
    \A c \in Clients :
        /\ At(c, "rcomplete") => client[c].fence <= collection.fence \/ ~active
        /\ At(c, "rbegin") /\ client[c].candidate = 0 => ~active

\* The open transaction is the one of the writer under COMMIT, or a lost one,
\* and its fence is not below the row's.
TransactionInv ==
    /\ tx.fence = 0 \/ tx.fence >= collection.fence
    /\ tx.lost => tx.fence > 0
    /\ \A w \in Clients : client[w].pc \in {"fence", "replace"} => client[w].fence > 0
    /\ \A w \in Clients : At(w, "commit") => tx.fence > 0 /\ ~tx.lost
    /\ \A v, w \in Clients : At(v, "commit") /\ At(w, "commit") => v = w

\* The fences of Redis, of PostgreSQL and of every client under way agree on who
\* may still replace the collection: the inductive invariant behind NoLateWriter.
FencingInv ==
    LeaseInv /\ TokenInv /\ WriterInv /\ RecoveryInv /\ TransactionInv

\* A playback context that can be claimed was recorded under the current
\* generation, from the provider collection as it is now, and no replacement
\* is under way that would change it.
ContextsFresh ==
    \A x \in contexts :
        /\ x.generation = generation
        /\ x.revision = collection.revision
        /\ tx = NoTx

\* A snapshot is named by its generation: two reads that return the same
\* generation return the same collection, whatever happened between them.
SnapshotsAgree ==
    \A x, y \in served : x.generation = y.generation => x.revision = y.revision

\* What is read, and what is recorded from it, is of one state of both stores.
ReadersAgree == ContextsFresh /\ SnapshotsAgree

\* The collection changes only under a pending generation, except when the
\* writer lost the reply to COMMIT and completed its mutation meanwhile.
CollectionMovesWhilePending ==
    [][collection'.revision # collection.revision => generation.pending \/ tx.lost]_vars

\* A pending generation is always replaced in the end by a stable one, even if
\* its writer crashed at any point: by the writer, by a lapse or by a recovery.
PendingEnds == generation.pending ~> ~generation.pending

\* Every call returns: nobody waits for ever for the row lock of a transaction
\* whose client is gone, and every retry loop is bounded.
CallsReturn == \A c \in Clients : ~At(c, "idle") ~> At(c, "idle")

\* Whatever crashes, the profile is not left pending and no call hangs.
AllSettles == PendingEnds /\ CallsReturn

\* The detailed protocol implements an observed register (SnapshotRegister).
Register == INSTANCE SnapshotRegister WITH
    revision <- collection.revision, reads <- served

\* The protocol implements the register, and moves the collection behind a
\* pending generation.
ImplementsRegister == Register!Spec /\ CollectionMovesWhilePending
=============================================================================
