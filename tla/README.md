# A formal model of the Jumpgate Bridge

Jumpgate Bridge is a Node.js server between a media-player plug-in (a *device*
of a *profile*), upstream stream providers, Trakt, and a browser in which the
owner configures the profile.  Its durable state is in PostgreSQL (SQLite or
memory in small installations), its short-lived state in Redis (or memory), and
subtitle files in an S3 bucket.  No transaction spans two of these stores, any
number of server processes share them, and a process may die at any `await`.
The protocols that keep the stores consistent are what is modelled here.

All paths below are relative to `src/`.

## 1. Inventory

Each part is listed with the state it keeps (S), its operations (O), how it
interacts (I), what is hard about it (H) and what makes it correct (C).

**Provider snapshot mutation protocol** (`lib/source-context.js` 880-1180,
`lib/storage/redis/playback-context-repository.js`, `scripts/playback-record.lua`,
`lib/storage/postgres/provider-repository.js`)
- S: profile generation, mutation-lease hash and fence mirror in Redis; provider
  collection row with its fence, and the fence allocator, in PostgreSQL.
- O: begin, fence, replace, complete, release a mutation; recover someone else's;
  read a snapshot; invalidate the profile; record a playback context.
- I: the import service and the gateway replace and read collections; playback
  contexts carry the generation; claims compare it.
- H: each operation is three to eight calls on two stores; leases expire between
  them; writers crash; COMMIT replies are lost; recoverers race.
- C: no superseded writer changes the collection after the next generation is
  published; a generation names one collection; contexts are from the current
  collection; a pending generation always ends.

**Pairing** (`lib/pairing-coordinator.js`, `lib/storage/redis/pairing-repository.js`,
`scripts/pairing-*.lua`)
- S: the pairing record (state, sealed envelope, retry token, tombstone) indexed
  by user code and device code.
- O: issue, activate/recover, complete, redeem (peek and replay), cancel.
- I: the coordinator provisions the profile, registers the device in the
  database, completes the pairing, and issues the management session; the device
  redeems its token.
- H: activation spans Redis, PostgreSQL and Redis again; the browser retries with
  its retry token after lost replies and restarts; cancellation, expiry and the
  device's polling interleave.
- C: a retry returns what the first try returned; a token is disclosed only
  after the device is durably registered; a cancelled pairing discloses nothing.

**Management sessions** (`lib/storage/redis/management-session-repository.js`,
`scripts/management-*.lua`)
- S: profile generation ("revoked" or absent), sessions, per-profile and global
  indexes, replay records of pairings.
- O: issue, issueForPairing, recoverPairing, revokePairing, authenticate, revoke,
  revokeProfile.
- I: the coordinator issues; every management request authenticates; the
  lifecycle service revokes a profile.
- H: sealed replies are replayed after lost replies; revocation races issue and
  replay; several clocks (session, replay, denial) end at different times.
- C: a retry token never mints twice; no session survives or is created after
  the revocation of its profile; replay cannot resurrect a revoked session.

**Playback contexts, claims and attempts** (`lib/source-context.js` 1256-2437,
`lib/playback-claim-projection.js`, playback scripts)
- S: contexts, active claims per device and session, claim attempts, owners.
- O: record, claim (isolated connection, deadline), disclose, abandon, release,
  reconcile, invalidate device or profile, prune.
- I: contexts come from snapshots; a claim runs inside the device repository's
  admission transaction; history grants and subtitle deliveries bind to claims.
- H: aborted requests whose script still runs; late claims; retries by the same
  session; revocation of the device during disclosure.
- C: one claim per session; no claim on a superseded generation; an undisclosed
  claim does not stay; a released claim authorises nothing.

**Profile and device lifecycle** (`lib/profile-lifecycle-service.js`,
`lib/storage/lifecycle-invalidation.js`, profile, device and
lifecycle-invalidation repositories)
- S: profile status and revision, devices with generations, invalidation outbox.
- O: erase a profile, revoke a device, process and defer invalidations.
- I: revokes management sessions, clears the gateway's contexts, requests
  manifest deletion.
- H: five side effects in three stores, each may fail; workers claim the outbox
  with leases; backoff.
- C: every started erasure ends with nothing of the profile left; nothing is
  issued for a profile whose erasure has begun.

**Profile provisioning** (`lib/profile-provisioner.js`)
- S: identity and config aliases, the pending settings envelope, the install
  token hash, per-process identity locks.
- O: create, bind aliases, rotate the install token, finalize, synchronise,
  compensate.
- H: two servers, lost replies, a crash between any two of seven calls.
- C: one active profile per identity; exactly one caller holds the valid install
  token; no half-provisioned profile is used.

**Subtitle delivery and deletion** (`lib/subtitle-delivery-service.js`,
`lib/subtitle-deletion-worker.js`, `lib/storage/redis/subtitle-delivery-repository.js`,
manifest repositories)
- S: artifacts (reserved, fetching, uploading, committed, deleting), quotas,
  read leases, delivery authority, durable manifests, deletion jobs.
- O: reserve, fetch, stage, upload, commit, authorize/revalidate/release a read,
  invalidate (release, session, device, profile), delete in two passes.
- H: uploads that outlive their deadline, invalidation during upload, two stores
  that must agree, leases of deletion workers.
- C: a disclosed artifact is committed in both stores and authorised; quota is
  returned exactly once; every object of a dead artifact is deleted in the end.

**History grants and claim-bound history** (`lib/storage/history-grant.js`,
`lib/storage/durable-history-grant.js`, history-grant repositories,
`lib/claim-bound-history-service.js`, `lib/history-service.js`)
- S: grants (reserved, active, ended), event idempotency records, history entries.
- O: reserve, finalize, disclose, abandon, apply an event, revoke by source.
- C: a grant is usable only after its claim was disclosed; an event is applied
  once; history revisions only grow.

**Playback sessions and Trakt dispatch** (`lib/trakt-scrobble-service.js`,
`lib/storage/playback-session.js`, repositories)
- S: sessions with revisions, the outbox of dispatches with leases and attempts.
- O: open, transition and enqueue, claim a dispatch, admit it, retry, invalidate.
- H: a crash under the call to Trakt makes the outcome ambiguous.
- C: a dispatch reaches Trakt at most once unless the first failure provably came
  before the call; released sessions send nothing.

**Provider import and gateway** (`lib/provider-import-service.js`,
`lib/provider-gateway-service.js`, `lib/provider-support.js`,
`lib/stremio-transport.js`)
- S: per profile an epoch, a revision marker, a cache, shared fetches, a scheduler
  with a queue, and a breaker per provider; all of it in one process.
- O: query, clear the profile; import, back up, replace the collection.
- H: queries join fetches that others started; a clearing overtakes both, and its
  invalidation may fail; a job may be cancelled before it runs.
- C: an answer never mixes two snapshots; a probe is given back; nobody who joined
  a fetch waits for ever.

**Upstream fetching** (`lib/upstream-fetch-policy.js`,
payload parsers)
- S: slots in use, in all and per key, and a ring of the keys that have a queue.
- O: fetch with redirects and two deadlines; abort.
- H: the abort, the deadline and the grant of a slot race; a redirect changes origin.
- C: a slot is held by a request under way and by nobody else; turns go round;
  headers stay with the origin that they are for.

**Trakt account and OAuth state** (`index.js` 1322-1830 and 3816-4345,
`lib/storage/redis/oauth-state-repository.js`, credential repository)
- S: one-time states, the credential row with its revision and refresh lease.
- O: launch, callback, refresh, disconnect.
- H: callbacks repeat, refresh tokens are good for one use, answers are lost after Trakt
  has acted, the owner disconnects meanwhile.
- C: a code and a refresh token are sent once; a disconnected account stays so.

**Subtitle discovery** (`lib/subtitle-discovery-service.js`, `index.js` 2654-2952)
- O: discover candidates, resolve one to an artifact, read it.
- H: the claim, the providers' mutation and the device change between any two awaits.
- C: what is delivered is what was chosen, of one binding of one play.

**Subtitle object store** (`lib/storage/s3/subtitle-object-store.js`)
- S: a versioned bucket.  O: put, get, delete, erase permanently.
- H: lost answers, late puts, pages of versions.  C: a put answers its own version; what
  a deletion reports to be gone is gone.

**Writer protocols and rollout** (`lib/storage/redis/playback-claim-writer-protocol.js`,
`lib/storage/production-release-protocols.js`, `lib/storage/postgres/provider-mutation-activation.js`,
`scripts/activate-*.js`, `scripts/ci/fly-machines-rollout.js`, `scripts/ci/fly-managed-rollout.js`)
- S: one-way gates in both stores; machines, leases and cordons in the cloud.
- H: two releases, an operator, servers of both kinds, a tool that dies at any call.
- C: no old writer after activation; a rollout's verdict is so; no machine is
  taken out on the way forward unless another serves.

**Server process** (`index.js`, `lib/storage/factory.js`)
- S: the resources that were opened, the proof that erasure works, workers and timers.
- H: calls with a timeout beside calls without one; a close that fails; writes that land late.
- C: ready is answered only when it is so; a start that failed and a stop leave nothing open
  but what itself failed to close.

**Browser client** (`public/configure.js`)
- S: an epoch of authority, one operation at a time, the record of a pairing.
- H: answers of an earlier epoch, reloads, activations whose answer is lost.
- C: one authority at a time; a pairing whose outcome is unknown can be recovered.

**Infrastructure** without protocol state of its own: cryptography and tokens, validation,
configuration, migrations, rate limits, HTTP routing, repository policy.

How the parts call each other:

    browser --> index.js --> pairing coordinator --> provisioner --> profiles (SQL)
                                    |                            \-> aliases (SQL)
                                    |--> devices (SQL), pairings (Redis)
                                    \--> management sessions (Redis)
    device  --> index.js --> pairing redeem / device authenticate
                         --> provider gateway --> snapshot protocol (SQL + Redis)
                         --> claim-bound history --> grants (SQL) --> claims (Redis)
                         --> subtitle delivery --> Redis, manifests (SQL), objects (S3)
                         --> Trakt service --> sessions and outbox (SQL) --> Trakt
    workers --> lifecycle invalidations, subtitle deletion, Trakt dispatch

## 2. Modules and runs

In the order in which they were written, the most important behaviour first.  Parameters are
CONSTANTS with named assumptions, an action is one atomic call, and no module declares a
RECURSIVE operator.

| modules | abstract promise | run | proved |
|---|---|---|---|
| `ProviderSnapshot` over `SnapshotRegister` | an observed register | `snapshot_safety`, `snapshot_liveness`, `snapshot_slow_check` | types, `FencingInv`, `NoLateWriter`, `ReadersAgree`, the refinement |
| `TtlClock`, `ManagementStore`, `ManagementSessions` | a token is worth one session | `management_sessions` | types, `NoSessionOfRevoked`, `RetryMintsOnce`, `AnswersHold`, `NoStaleAuthentication` |
| `PairingStore`, `PairingActivation` | a pairing has one outcome | `pairing` | types, `OutcomeStands`, `RegisteredBeforeRedeemable`, `RetryReachesAnswer` |
| `HistoryLedger`, `ScrobbleOutbox` | at-most-once delivery | `exchanges`, `liveness` | types, `SentOnce`, `AppliedOnce`, `RowsAgree`, `SentWhileCurrent` |
| `SubtitleManifests` | no orphaned file | `subtitle_manifests` | types, `NoOrphan`, `ActiveIsStored`, `EndedIsErased` |
| `PlaybackClaims`, `HistoryClaims` | a claim and its grant are one thing | `services` | types, `ToldStands` |
| `SubtitleDelivery` | quotas that return | `subtitle_delivery`, `subtitle_quota_leak`, `liveness` | types, `ObjectsHeld`, `DeliveredIsCurrent`, `NothingBlocks` |
| `MachinesRollout`, `ManagedRollout`, `ReleaseProtocols` | a verdict that is so; no old writer | `operations` | `RolloutHolds`, `ReleaseHolds` |
| `Provisioning`, `Lifecycle`, `TraktCredential`, `ConfigurePage` | one owner, gone is gone, one consent | `operations`, `liveness` | `TokensHold`, `GoneForGood`, `ConsentHolds`, `PageHolds` |
| `ObjectVersions` | a put answers its own version | `services` | `ObjectsHold` |
| `ProviderGateway`, `UpstreamFetch`, `PlaybackSessions`, `SubtitleDiscovery` | an answer is of one state | `exchanges` | |
| `ServerLifecycle` | a runtime opens and closes whole | `services`, `liveness` | `ServerSound` |

Still to prove: `QueriesHold`, `SessionsHold` and `DiscoveryHolds` of `exchanges`, and
`RollbackHolds` of `operations`, which are model-checked only.

The modules hold what is modelled, the `MC` modules give them instances and name the
conjunctions that a run checks, and the `Proofs` modules hold theorems.  A type invariant is written in each module that is proved
about; it is not a property of a run.  In the `map` of `PROJECT.json`, a helper whose lines
lie within those of the operations that use it has no entry of its own.

## 3. ProviderSnapshot

### Correspondence

| variable | code |
|---|---|
| `generation` | the profile generation key; `pending` is the `mutating-` form, `id` the nonce, `base` the digest of the generation it replaced |
| `minted` | the freshness of nonces: a counter, so that equality means equality |
| `lease` | the mutation-state hash of `playback-record.lua`: phase, fence, and whether its deadline has passed; its token always equals `generation` |
| `mirror` | the fence counter key in Redis |
| `contexts` | playback contexts of the profile, with the generation and the revision they were made from |
| `active`, `collection`, `allocator` | `profiles.status`, `provider_collections`, `provider_mutation_fence_counter` |
| `tx` | the transaction of `replaceAll` that holds the row lock; `lost` when its client is gone |
| `client` | where each running call is and the local variables it carries over an `await` |
| `served` | history: the snapshots returned to callers |

One action is one script or one SQL transaction.  `replaceAll` is two, because
what happens between the row lock and COMMIT, and whether COMMIT's reply
arrives, matters: `OpenReplacement`, then `Commit`, `LoseCommit` or a crash,
after which `SettleTransaction` lets PostgreSQL commit or roll back.
`Observe` is the GET that precedes a script in every operation that hands the
observed value to it: the gap is where another client runs.

Every kind of client runs the recovery (`Probe` to `RecheckState`), as the code
does, each returning into its own caller (`Recovered`, `Unrecovered`).

Not modelled: the loss of Redis' memory, the pause and activation gates of
`provider-mutation-activation.js`, `renewProviderSnapshotMutation` (nothing
calls it), the coordinator's invalidation of subtitle deliveries, and the edge in
which the begin script finds its own deadline already passed.

### Properties

- `FencingInv`: the fences of Redis, of PostgreSQL and of every running call agree
  (the inductive invariant, in five named parts).
- `NoLateWriter`: once a stable generation is out, PostgreSQL refuses every writer
  still waiting to replace.
- `ReadersAgree`: a claimable context is from the collection as it is now
  (`ContextsFresh`), and one generation is one collection (`SnapshotsAgree`).
- `ImplementsRegister`: the whole protocol refines `SnapshotRegister`, and the collection
  moves only under a pending generation, or as the late effect of a COMMIT whose reply
  was lost (`CollectionMovesWhilePending`).
- `AllSettles`: a pending generation ends and every call returns (`PendingEnds`,
  `CallsReturn`).

### Runs

| run | instance | what it shows |
|---|---|---|
| `snapshot_safety` | two writers, a reader and a clearer, two mutations, one fault | the invariants and the refinement |
| `snapshot_liveness` | a writer and a reader under `FairSpec` | liveness |
| `snapshot_slow_check` | as safety, without the clearer and with `PromptChecks = FALSE` | **a violation**, see below |

Bounds: `MaxAttempts = 2` instead of 16, so that the last attempt and its error
are reached; two mutations, because every race here is between one mutation and
the next; one fault, because a second crash adds another recoverer of the same
state, and several recoverers are there already (every client recovers).  With
two writers and a reader three recoveries of one mutation race.

Fairness: `FairSpec` runs every call that was started (the event loop and the
stores answer), lets leases expire and lets PostgreSQL settle a broken
transaction.  It also lets readers arrive for ever: nothing in the code wakes up
a pending profile that nobody asks for, so `PendingEnds` is about profiles in
use.  Crashes and erasures are never forced.

### The finding of `snapshot_slow_check`

`getProviderSnapshotState` reads the generation, and then gives it to the state
script as the value a lapsed lease is replaced by.  If a whole mutation completes
between the two, and the unfenced lease of the next one expires, the script puts
the old generation back over the new collection, and two reads return the same
generation with different collections.  It needs one call to stay open between
two consecutive awaits for longer than a whole mutation and a lease;
`PromptChecks = TRUE` excludes just that, and then the property holds.

### What is proved

`ProviderSnapshotProofs` proves, for any sets of clients and any bounds:

- `TypeCorrect`: `Spec => []TypeOK`;
- `FencingCorrect`: `Spec => []FencingInv`;
- `NoLateWriterCorrect`: `Spec => []NoLateWriter`;
- `MovesWhilePending`: `Spec => CollectionMovesWhilePending`;
- `ReadersAgreeCorrect` and `RegisterImplemented`, if `PromptChecks`:
  `Spec => []ReadersAgree` and `Spec => ImplementsRegister`.

`NoLateWriter` is not inductive: it speaks of published generations only, and what
excludes a late writer is decided while the generation is pending.  `FencingInv`
adds what holds then.  `LeaseInv`: a lease exists exactly under a pending
generation and its fence is not above Redis' mirror, so that a takeover, which
takes a fence above the mirror, always supersedes.  `TokenInv`: two running
mutations never hold the same token.  `WriterInv`: a writer about to replace still
owns the lease, or a recovery has a higher fence, or PostgreSQL already refuses
it.  `RecoveryInv`: a recovery publishes only with a fence PostgreSQL has seen.
`TransactionInv`: an open transaction's fence is not below the row's.  The proof
has a lemma per action.  The assumptions are that the three kinds of clients are
disjoint and that the bounds are naturals.

`ReadersAgree` needs more than the published generation.  A reader takes its generation in
one call and the collection in another, and a lapsed lease puts an old generation back.
`ReadInv` calls a stable generation *live* when it is published or a lapse could still
restore it (the base of an unfenced lease), and says that whatever names a live
generation (a context, a snapshot served, a reader between its two reads) names the
revision that stands, with no transaction open.  A generation that a lapse revives must
therefore have been live all along: `LapseInv`, a lapse finds no check that has outlived
the lease.  This is the one place where `PromptChecks` is used, and
`snapshot_slow_check` shows that the theorems are false without it.  For the
refinement, three lemmas say how a step moves the generation, the collection and the
readers, and each combination is a step of `SnapshotRegister` or a stutter.

Only model-checked: `AllSettles`, as liveness under fairness is out of the prover's reach.

## 4. ManagementStore and ManagementSessions

`ManagementStore` is the state in Redis and the scripts on it, as pairs of a
verdict (what a script replies) and an effect (what it writes); `TtlClock` is the
server's clock: a key whose expiry is now is still there and counts as over, and it is
dropped in the next tick.  `ManagementSessions` is the repository over it.

### Correspondence

| variable | code |
|---|---|
| `now` | the clock of Redis, read by every script |
| `revoked` | profiles whose generation key is `revoked` |
| `sessions` | the session hashes, and with them both indexes, from which every script removes what it deletes |
| `replays` | the replay record of each retry token: none, issued with a sealed answer, or denied |
| `minted` | the freshness of session tokens |
| `active` | the status of the profile in the database |
| `client` | where each call is, and the local variables it carries over an `await` |
| `grants`, `said`, `ended` | history: sessions minted per token, the answer of the last step, sessions that were ended |

One action is one script or one database read.  The database is asked for the
profile's status between two scripts in three operations (`CheckStatus`,
`RecheckStatus`, `Vouch`), and that is where the interleavings are.

### Properties

`RetryMintsOnce`: a retry token is worth one session, whatever is lost, repeated,
revoked or expired.  `NoSessionOfRevoked`: no session of a revoked profile exists.
`AnswersHold`: two answers to one token name one session; what is answered was not ended
before its last look; a sealed answer is of a live session, or the session's own end has
come; the indexes count what is there.  `NoStaleAuthentication`: an authenticated
request is of a session that lives and of a profile the database vouched for.

### Run

`management_sessions`: two callers, two profiles, three requests (a token and its
retry, one with another configuration), a replay that ends before or after the session,
two issues, a clock of three ticks.  Two callers suffice for every race here, which is
always between one call and one revocation, logout, expiry or second call.  No
fairness is assumed: the properties are of safety.

### What is proved

`ManagementSessionsProofs`, for any callers, profiles, requests and durations:
`TypeCorrect`, `RevokedCorrect` (`NoSessionOfRevoked`) and `MintsOnceCorrect`
(`RetryMintsOnce`).  The last is not inductive.  Its strengthening `GrantsCovered` says
that a token that was granted is covered: its replay record is there, issued or denied,
until the retry window is over, and once it is over no request of that token can issue,
because what the caller carries says so.  It needs `ReplayWindowAssumption`, a replay
that lives as long as the retry window; `lib/storage/redis/index.js:35,68` takes the two
durations as options of two repositories, both ten minutes by default, and nothing
compares them.

`AnswersHoldCorrect` (`AnswersHold`) rests on `Together`, proved first: sessions are numbered
as they are minted and no number returns (`Numbered`); a session and the replay that names
it carry the same token and deadlines, although three keys keep them (`Matched`); and a
replay is of a grant (`Given`).  The indexes count finite sets that only an issue extends.

`AuthenticationCorrect` (`NoStaleAuthentication`, an action property) carries what a
revocation leaves behind: once a profile is out of the database, a call under way that may
find one of its sessions will be refused by the second look (`Barring`).

## 5. PairingStore and PairingActivation

`PairingStore` is the pairing records, their three indexes and the scripts on them.
`PairingActivation` extends it and `ManagementStore` with the devices and profiles in
PostgreSQL, and is the coordinator: the two stores, the database and any number of
requests run at once.

### Correspondence

| variable | code |
|---|---|
| `pairings` | the record hash, with the times at which it and the indexes by user code and device code end |
| `retryIndex` | the key of the retry token |
| `active`, `devices` | the profile's status, the device rows |
| `client` | where each request or poll is, and what it carries |
| `deviceTokens` | the freshness of device tokens |
| `answers`, `disclosures` | history: what browsers and devices were told |

A request is `StartActivate` or `StartRecover` (the first look), then `Activate` or
`RecoverActivation`, then, if the activation was finalized before, `Replay`,
`RecheckProfile`, `ConfirmReplay` or `DenyReplay`, else or after them `Register`,
`PeekCompletion`, `Complete`, `CheckProfile`, `IssueManagement`, and last
`AnswerBrowser`.  A poll is `StartPoll`, `Redeem`, `AuthenticateDevice`, `Disclose`.  A
call that is never scheduled again is a crashed server or a lost reply: the browser
retries as another request.

A device token is a number, a configuration a model value with its profile
(`ProfileOf`), and a digest of an activation is compared by comparing configurations.
Left out: the device limit and expiry, the revisions a disclosure is bound to
(one device row and one profile never change otherwise here), collisions of codes, the
limit of a sweep, release-validation scenarios.  Two reads are merged with the script
that compares what they found again: the retry index with `pairing-recover.lua`, and
the generation with the issue script (in `ManagementSessions` it is a step of its own).

### Properties

- `OutcomeStands`: whoever passes the activation script, and whoever is told anything,
  names one token, configuration, profile and device token; and cancelling and redeeming
  exclude each other.
- `RegisteredBeforeRedeemable`: Redis never offers a device token that PostgreSQL
  does not hold for the profile in the envelope.
- `RetryReachesAnswer`: while a sealed answer is kept, the retry token leads to it.

### Run

`pairing`: two browsers, two tokens and configurations, one user code, one poller, a clock
of three ticks, a retry window of three and a tombstone of one.  One pairing is enough, as
no script touches two, except the sweep, which treats each by itself; the capacity of
pairings is therefore not a property here.  Two requests and a poll race because each
conflict is decided by one script on one record.  The clock ends after every deadline has
passed.  No fairness is assumed.

Seen while modelling, with no run of its own: `lib/storage/redis/README.md:95` promises
that a redeemed pairing keeps its envelope for the tombstone's time.  The expiry branch of
`pairing-activate.lua` does not look at the state, as the other scripts do: an activation
that read the user index early, and whose script runs in the last millisecond in which its
retry index exists, sets a redeemed pairing to `expired` and deletes the envelope.

### What is proved

`PairingActivationProofs`, for any browsers, pollers, requests, codes and lifetimes:

- `Invariance`: `Spec => []IInv`, the inductive invariant;
- `TypeCorrect`, `OutcomeStandsCorrect`, `RegisteredCorrect` and `RetryCorrect`: each
  `Spec => []` the invariant of that name.

The invariant says that each pairing has an owner, a token, a configuration and a device
token, which exists but is no variable of the code: `\E owner : Owned(owner)`.  Everything
that names a pairing (its record, a request or a poll under way, a device row, an answer,
a disclosure) names its owner.  An owner is chosen in the first activation of a record,
before which nothing names it; afterwards records only wane (`Wane`): fields stay or are
erased, states go forward, deadlines come closer.  Each script of `PairingStore` has a lemma
that it wanes, so the actions that call several scripts need no argument of their
own.  `StoreInv` is about the indexes: a retry token leads to a record of that token, and a
record that is bound is led to.  `Replied` is what `RetryReachesAnswer` needs: a
sealed answer is the owner's and ends no later than the index that leads to it, which
connects the deadlines of two repositories.

## 6. HistoryLedger and ScrobbleOutbox

`HistoryLedger` is the rows of one profile behind its playback history, and the
PostgreSQL transactions of `history-grant-repository.js` and
`playback-session-repository.js` on them.  `ScrobbleOutbox` extends it with the
workers of `trakt-scrobble-service.js` that carry the outbox to Trakt.

### Correspondence

| variable | code |
|---|---|
| `profile` | `history_generation`, and whether the binding of the device still holds |
| `grants` | the row of `history_grants` per playback claim: status, kind, playback state and revision, the key of the terminal event |
| `replaced` | the rows of kind `supersession` in `history_grant_revocations`: which session took the place of which |
| `sessions` | `playback_sessions`: state and revision |
| `receipts` | `history_event_receipts`, by idempotency key |
| `outbox` | `scrobble_dispatches`: `ripe` is `next_attempt_at` or the end of the lease being reached, `moved` says that `next_attempt_at` is past `created_at`, from which `_isRecoveredAmbiguousLease` sees that the first claim was put off |
| `workers` | the local variables of `_processClaimedDispatch` and of the admission, over their awaits |
| `holder` | the worker whose admission keeps the profile's row locked |
| `history` | how often each event was merged into the history's rows |
| `sent`, `breaks` | history: requests that left for Trakt; a bounded number of crashes and lost connections |

One action is one transaction.  The exception is the admission
(`withDispatchAdmission`), which calls Trakt in the middle of one: it is `Admit`,
then `Issue`, `Fail` or `Refuse`, then `Settle`, and while `holder` is set every
transaction that begins by locking the profile waits.  `LoseConnection` ends the lock
and leaves the worker running, which is how a request can leave after the database has
rolled its admission back.  `Abandon` stands for the failed claim and for
`prune`, which locks no profile.  The time is not a variable: a dispatch that was put
off, or leased, falls due at any later step.

Left out: the other ways to end playbacks (revocation of a source or of the profile),
`openSession` and `transitionAndEnqueue` (section 16), the legacy scrobble endpoint, the
deletion of old rows, and what a history row says beyond having been merged.  The claim
response that is stored with a grant, and the coordination with the claim in Redis, are in
`HistoryClaims` (section 8).

### Properties

- `SentOnce`: a dispatch leaves for Trakt at most once.
- `AppliedOnce`: an event is merged once, what was cleared stays cleared, and the
  history and the outbox have the same events.
- `RowsAgree`: the state and revision that are kept twice agree (`GrantsMatchSessions`),
  and whatever ends a grant reaches the rows that the admission asks
  (`AdmissibleIsAuthorized`).
- `SentWhileCurrent`: while the admission holds, a request says what the playback is.
- `CurrentSettles`: a dispatch of a playback that stands still does not wait for ever.

### Runs

The outbox is a part of two runs (section 9).  In `exchanges`: two workers, one grant of
any kind, two keys, four kinds of events (sending to the background is a pause of another name), one clearing, two breaks.  In `liveness`: two
grants of which one may replace the other, one key, `pause`, two workers, one break, with
`FairSpec`.

Bounds: `MaxGeneration = 2` is one clearing, which meets every state of one grant.
`MaxBreaks` bounds connections lost and crashes: a second sending needs a first worker that
is lost after its request and a second worker, so two leave one to spare.  `MaxAttempts`
bounds only the leases that run out while their worker still runs; after that a lease waits
for its worker.  Two grants suffice, as a transaction touches a grant and the one it
replaces.  Deadlock is not checked: a player runs out of keys and the system stops.

Fairness: `FairSpec` lets every worker finish what it has begun (its calls have deadlines),
lets some worker claim what is due (each process runs one on a timer, and a
crashed process is restarted) and lets time pass.  The claim is fair for a
dispatch, not for a worker; players, owners and crashes are never forced.

Seen while modelling, with no run of its own: `withDispatchAdmission` revokes a dispatch
that its playback has overtaken and then throws `scrobble dispatch was revoked` inside its
own transaction (`playback-session-repository.js:410-416`), which rolls the revocation
back.  Since the claim asks for the same conditions, no worker ever takes the row again: it
stays leased until the history is cleared or the session ends.  Nothing wrong is sent.
`memory-playback-session-repository.js`, which the tests run, keeps the revocation.

### What is proved

`ScrobbleOutboxProofs`, for any grants, keys, workers and bounds that satisfy
`LedgerAssumption` (the kinds of events and grants are those of the code) and
`OutboxAssumption`:

- `Leases`: `Spec => []IInv`, the inductive invariant `TypeOK /\ LeaseInv`;
- `TypeCorrect`: `Spec => []TypeOK`;
- `SentOnceCorrect`: `Spec => []SentOnce`.

`SentOnce` is not inductive: it says nothing of who may still send.  `LeaseInv` does.  The
claims of a dispatch are numbered by its attempts, and no two workers hold the same
number.  A worker that has not called yet holds the first claim, or the second of a
dispatch that was put off; putting it off leaves nobody on the first claim, and it
happens only if that claim's request did not leave.  Once a request has left, no worker
of the dispatch can send it or put it off, and every later claim is ambiguous.

and of the rows:

- `Rows`: `Spec => []RInv`, which adds `RowsInv` and `HeldInv`;
- `AppliedOnceCorrect`, `RowsAgreeCorrect`, `GrantsMatchSessionsCorrect`: each `Spec => []`
  the invariant of that name;
- `SentWhileCurrentCorrect`: `Spec => SentWhileCurrent`, an action property.

`RowsInv` says of each grant and of each event what the rows in four tables say together:
only a finalized grant has left anything, what still lives is of the
generation of the history, and only an event of a canonical grant that lives or was
released, and that none has replaced, waits.  The admission never looks at the grants and
relies on this; so does the claim.  `HeldInv` is about the one worker that holds the
profile's row while it calls Trakt: it has the lease, and what admitted it still stands,
because whatever would change it waits for that row.

Only model-checked: `CurrentSettles`, as liveness under fairness is out of the prover's reach.

## 7. SubtitleManifests

`SubtitleManifests` is the durable record of the subtitle files in the object store:
the PostgreSQL transactions of `subtitle-manifest-repository.js`, the upload of
`SubtitleDeliveryService.materialize` from its staging on, the deletion worker, and the
revocations and erasures that condemn manifests.  An object store has no transactions, and
a PUT that was given up may still land; the manifest is the only way to find such a file.

### Correspondence

| variable | code |
|---|---|
| `profiles`, `devices` | `status` and `deletion_state` of `profiles`; `revoked_at` and `expires_at` of `devices` |
| `stale` | the artifacts whose staged `profileRevision` or `deviceGeneration` is no longer the row's |
| `uploads` | where `materialize` stands in its awaits, per artifact |
| `horizon` | how long a PUT may still land: `uploadExpiresAt`, the lifetime of a PUT, the grace, and `LateBy` |
| `manifests` | the rows of `subtitle_object_manifests`: state, time left until `next_attempt_at`, the worker whose token is in `lease_token_hash`, time left of the lease |
| `objects`, `flying` | external: files in the bucket, and PUTs sent that have not landed |
| `workers` | the local variables of `runOnce` and `_deleteAndVerify`, over their awaits |
| `faults` | bound on failures, crashes and lapsed leases |

Times are kept as what is left of them, and `Tick` takes one unit of each.  The deadlines
of an upload differ by constants, so `horizon` stands for all of them: `Writable` is
`uploadExpiresAt` not being reached, `Settled` is `upload_settlement_deadline` being
reached.  One action is one transaction: each locks the rows that it decides on
(`_assertBinding` takes the profile and the device `FOR SHARE`, a revocation and an erasure
the profile `FOR UPDATE`).  A failed call may have been done or not, with its answer lost.

Abstractions.  An artifact is staged once: the service refuses a staging that is replayed.
Which active row has expired is any choice at a claim, which takes any due row, not the
oldest.  `Revise` is every update of a profile that moves its revision and ends nothing.
`CommitDelivery` is the commit in Redis, of which only the answer is modelled: it may be a
refusal at any time, and is one after the deadline.  An erasure is begun with its own sweep,
so the sweeps that the lifecycle service repeats find nothing and are left out, as are
repeated revocations.  What a manifest says of its files (size, checksum), quotas, read
leases and the reservation in Redis are left to `SubtitleDelivery`.

### Properties

- `NoOrphan`: a file in the store, or one that may still come, has its manifest.
- `ActiveIsStored`: every file of an active manifest is stored.
- `EndedIsErased`: an erased profile has no file, no PUT under way and no manifest
  (`ErasedIsEmpty`), and no manifest of a revoked profile or device is kept
  (`EndedIsCondemned`).
- `DeletionEnds`: a condemned manifest goes in the end, and an erasure that was begun ends.

### Runs

| run | instance | what it shows |
|---|---|---|
| `subtitle_manifests` | one artifact of two files, two workers, two faults, `FairSpec` | the invariants, when uploads are cut off and land late, answers are lost, and two workers hold the same job after a lapsed lease; and liveness |

Bounds.  One artifact suffices, since a transaction that touches several treats each by
itself, except that an erasure waits for all of them; the proof covers that for any
number.  `UploadTtl = 2` lets the deadline fall before, in and after
the PUTs; `LateBy = SecondPass = 2` is the worst case that the assumption allows;
`LeaseTime = 2` lets a lease lapse in any stage of a pass.  A second worker gets a job
that the first one still believes its own only by a lapsed lease, which is one fault; the second
fault is a lost answer or a crash of the other.  `MaxFaults` does not count late PUTs: every
PUT may land at any moment of its horizon.  Deadlock is not checked: the system stops when
every artifact is gone.

`TermsAssumption` says `LateBy <= SecondPass`: a PUT lands no later after its settlement
deadline than the second pass follows the first.  The code sets the deadline by its own
clock and cannot make the store keep to it; the second pass, 30 s later by default, is
what it does about that.  With a PUT that lands later still, no number of passes would be
enough.

Fairness: `Tick` (time passes), each worker's steps together (every process runs the
worker from its storage cleanup timer, and a pass goes on to its end or ends in `Retry`), and
`Erase` for each profile (`resumePending`, on the same timer, takes every pending erasure up
again).  Uploads, owners and faults are never forced.

### What is proved

`SubtitleManifestsProofs`, for any numbers of artifacts, files and workers, any terms that
satisfy `TermsAssumption`, any owners that satisfy `NamesAssumption` and any number of
faults:

- `Storage`: `Spec => []StorageInv`, the inductive invariant;
- `TypeCorrect`, `NoOrphanCorrect`, `ActiveIsStoredCorrect`, `EndedIsErasedCorrect`: each
  `Spec => []` the invariant of that name.

`NoOrphan` is not inductive: a manifest goes because of what a worker has seen some time
ago.  `JobInv` says what a busy worker may believe: the upload of its artifact is past its
settlement deadline, the row is not kept, in a second pass no PUT can land any more,
and what it has verified in one stays absent.  That the second pass is late enough is
`RowInv`: while a row is `first_absent`, a PUT can land no longer than the row has to wait.
It also says that no PUT is sent without a row, and that an upload which has had all its
answers has its files as long as its row is `uploading`, since no worker takes such a row.
`ActiveIsStored` follows from the last part, `ErasedIsEmpty` from `NoOrphan` and the
binding that every reservation checks.

Only model-checked: `DeletionEnds`, as liveness under fairness is out of the prover's
reach.

## 8. PlaybackClaims and HistoryClaims

`PlaybackClaims` is the claim of a device in Redis, the attempts to make it and the scripts
on both (`playback-attempt-*.lua`, `playback-claim.lua`, `playback-claim-v6.lua`).
`HistoryClaims` is the handling of a claim request over it and the ledger: reserve the
grant, begin the attempt, claim in an isolated connection, read the active claim, finalize
the grant, recheck, commit the response, disclose, respond; and every way back
(`claim-bound-history-service.js:157-431`).

| variable | code |
|---|---|
| `generation`, `device`, `protocol` | the keys that a claim script compares |
| `attempts`, `claim`, `active`, `sessionKeys` | the attempt hashes with their leases, the device's claim, the marker of version 6, the session keys |
| `requests`, `ghosts` | where each request is; scripts left in connections that were cut |
| `bindings`, `authority`, `responses` | what each grant was reserved and finalized with, and its stored response |
| `told` | history: what the player was told |

`ToldStands` (the property of the run) says: what a player was told stays, whatever cleanup,
late script or retry runs, and while the binding of the grant is current - the profile, the device
and the generation are what they were when it was reserved, which nothing in the grant itself
decides - the grant that it was told of is active, released or superseded, so no cleanup has
revoked it (`ToldIsKept`; the mutant `WithdrawFinalized` does); a standing claim of version 6 that was
disclosed has a finalized grant (`DisclosedIsGranted`); an undisclosed one is found by the
reconciliation, also when its script arrived after everything was cleaned up
(`UndisclosedIsListed`); no claim of an earlier generation, device or protocol stands
(`ClaimIsCurrent`).

Instance: two attempts, two requests that may repeat one attempt, two invalidations, one
break.  A ghost needs one cut connection, and a supersession needs two attempts.

Left out: the release of a claim that the player was told of, the expiry of an attempt
(its lifetime of 120 s is below the age of 150 s up to which a launch is taken), the loss of
Redis' memory, fingerprints and capacities.  A claim expires only while it stands.

### What is proved

`ServicesProofs`, for any plays, requests, kinds of grants and bounds that satisfy
`LedgerAssumption` and `NegativeAssumption` (a claim without a context of its own is answered
by something other than `claimed`):

- `Invariance`: `Spec => []IInv`, the inductive invariant;
- `TypeCorrect`: `Spec => []TypeOK`, for the rows, the keys of Redis and the calls;
- `ToldStandsCorrect`: `Spec => []ToldStands`.

`ToldStands` is not inductive, as it says nothing of calls under way.  `IInv` has four parts.
`AttemptsInv` and `ClaimInv` (Redis): an attempt is of the playback generation that its grant
was reserved under, so a script never forgets it for another and it begins once; it is listed
while it is pending; a claim is of an attempt of the binding as it is and is released exactly
with it; and one of version 6 has its attempt's answer.  `GrantsInv` (PostgreSQL): a response
is what the grant was finalized with, and a finalized grant is revoked only once its attempt
is abandoned.  `RequestsInv`: what a call may rely on at each step, such as that one which
holds `claimed` owns an attempt that it can still disclose, or another call has disclosed it.
`GhostsInv`: a script in a cut connection is of a reserved grant.

The argument that carries every step is that both stores only move on: an attempt that is
disclosed or abandoned stays so (`AttemptsAge`), and a reservation, a source and a response
are written once (`RowsStay`).  What a call has read is therefore still true when it acts on
it, however many calls, late scripts and crashes came between (`RequestStays`).  Each script
has a lemma of its own (`BeginScript`, `ClaimScript`, `DiscloseScript`, `AbandonScript`, ...),
used alike by the call that runs it and by the cut connection in which it arrives late.

## 9. Runs with several parts

Components that share no state are checked in one run each for what they have in common:
`operations`, `services`, `exchanges`, `liveness`.  Their `MC` modules have a variable `part`
that the initial state chooses and no step changes; the variables of the other parts rest at
`None`.  Each behaviour is therefore one of exactly one component, the state space is the
sum of theirs, and a property of one part says `part = "..." =>`.

| run | parts | properties |
|---|---|---|
| `exchanges` | outbox, gateway, fetch, wide, sessions, discovery | `SentOnce`, `AppliedOnce`, `RowsAgree`, `SentWhileCurrent` (outbox); `QueriesHold` (gateway, fetch, wide); `SessionsHold`; `DiscoveryHolds` |
| `services` | claims, objects, server | `ToldStands`; `ObjectsHold`; `ServerSound` |
| `operations` | rollout, managed, release, provisioning, lifecycle, trakt, page | `RolloutHolds` (both rollouts); `RollbackHolds`; `ReleaseHolds`; `TokensHold`; `GoneForGood`; `ConsentHolds`; `PageHolds` |
| `liveness` | outbox, delivery, life, server | `CurrentSettles`; `QuotaReturns`; `RevocationEnds`; `ShutdownEnds` |

In `exchanges` the outbox, and in `services` the claims, are the part whose variables keep
their names, as `MCExchanges` extends `ScrobbleOutbox` and `MCServices` extends
`HistoryClaims`: what the run checks of them is what is proved of them.  In the other parts
these variables stay as they are at first.  In `exchanges`, symmetry is only over the workers and the keys, which every part
treats alike.

In `liveness`, a fairness condition is a disjunction of one step from each part.  A behaviour is
of one part, in which the steps of the others are never enabled, so fairness of the
disjunction is fairness of that part's step: the conditions are those of each module's
`Fairness`, written together.  Deadlock is not checked in these runs: bounds on requests,
faults and claims let every part come to an end.

## 10. SubtitleDelivery

The half of the delivery in Redis: `subtitle-delivery-repository.js`, the `subtitle-*.lua`
scripts, and the service's chain of them.

| variable | code |
|---|---|
| `playback` | the current epoch and its claim; an epoch is a playback generation with the provider revision and the claimed session that go with it |
| `authority` | the delivery authority of the profile |
| `artifacts`, `listed`, `discovered`, `charged` | artifact hashes, the profile's index, the discovery key, the counters |
| `requests`, `readers`, `leases`, `sweeping` | the local variables of resolutions, readers and deletion workers over their awaits |

Properties: `NothingBlocks` (the counters are those of the artifacts, and no race leaves an
artifact listed that the preflight of an authority change refuses, which would end the
profile's subtitles with `state_collision`); `ObjectsHeld` (no two requests upload the same
artifact; no deletion under a reader); `DeliveredIsCurrent` (what is committed or given to a
player is, in that step, of the claim that stands); `QuotaReturns` (liveness).

Instance: two artifacts, two requests, one reader, one deletion worker, a quota of three with two
reserved per artifact (so that the second is refused until the first stages fewer), two
epochs, one fault.  `liveness` has one artifact and one request.

Fairness: time passes, the maintenance prunes (`index.js:3076`), deletion workers run again
and again, strongly fair for a deletion that gets done within its claim's time, since a claim
that always ran out too early would delete nothing.

Abstractions: bytes are charged as objects are; the capacity of read leases, of the whole
installation and the batch limits are left out; the delay of the second pass is just time;
the recheck of the claim and the reservation, and a peek and the begin of a fetch, are one
step each; prune and claim are one script each.  The manifests are calls that succeed or fail.
`beginUpload` and `transitionAuthority`, which nothing calls, are left out.

### What is proved

`SubtitleDeliveryProofs`, for any artifacts, requests, readers and deletion workers, any
quota and any number of epochs and faults:

- `Delivery`: `Spec => []IInv`, the inductive invariant;
- `TypeCorrect` and `ObjectsHeldCorrect`: each `Spec => []` the invariant of that name;
- `CurrentCorrect`: `Spec => DeliveredIsCurrent`, an action property;
- `AccountsCorrect`: `Spec => []Accounts`, the inductive invariant of the books;
- `NothingBlocksCorrect`: `Spec => []NothingBlocks`.

The assumption is `NamesAssumption`, that `None` is no artifact and no request.

`ObjectsHeld` is not inductive: a request that has staged an artifact goes on to put its
objects whatever happens to the artifact's record.  `IInv` adds that an artifact comes to a
stage only once (`Moves`: whatever prunes, condemns, expires or deletes it, it never is a
reservation again), that whoever is putting objects has staged theirs (`StagedInv`) and is
the only one (`AloneInv`), and that a deadline is over only of work under way.

`NothingBlocks` says that the counters add up and that a transition of the authority finds
every listed artifact in order.  Neither is inductive.  `Accounts` adds what the scripts
rely on: an artifact's quota, reserver and fetcher go with its state (`SoundInv`); the index
lists exactly what is open, all of it under the authority, each artifact discovered from its
epoch and nothing from another (`IndexInv`), hence at most one; the counters are those of the
artifacts and leases that there are (`ChargesInv`, `LeasesInv`).  Few steps touch the books:
a reservation, a stage that keeps fewer objects, and those that give back.  Every other
change of an artifact `Tends`: it keeps the quota, neither creates nor ends the artifact, and
lists nothing.  The objects charged are a set of pairs of an artifact and a number up to its
quota, so that a counter is a cardinality, and giving back removes a set; a sum over the
artifacts would take an induction.

Only model-checked: `QuotaReturns`, as liveness under fairness is out of the prover's reach.

### The finding of `subtitle_quota_leak`

The program's only deletion worker runs on the manifests (`index.js:275-278`); on the
deliveries in Redis it only prunes (`index.js:3076`), which marks an artifact for deletion and
leaves it charged.  The run is the same module without a deletion worker, fair to all else:
the charge of a dead artifact never returns.  The tests
(`test/storage-redis-subtitle-delivery.test.js:2350-2352`) run a worker of their own on the
deliveries and expect the counters at zero; `liveness` checks that with such a worker they
get there.

## 11. MachinesRollout and ManagedRollout

`MachinesRollout` is `scripts/ci/fly-machines-rollout.js`: purge of an earlier canary,
leases, a canary for a lone machine, update, restart and health polls per machine, rollback,
release.  The API is `cloud`, `lease` and `flying` (calls that were given up and may land
late); a rollout may die at any step and another follows.  Its properties, in `RolloutHolds`:
what the exit says of the fleet is so (`OutcomeHolds`), what somebody else deployed is kept
(`OthersKept`), and on its way forward no machine is restarted unless another one serves, nor
is the canary taken away before the machines that it stands in for are back (`PeerServes`).
`RollbackHolds` is about the way back, which looks for no peer: some machine serves whenever
it restarts one (`RollbackServes`), and each machine that it has been through is as it was,
also after another one could not be restored.  The first half has three exceptions, each of
them a state that the program can be in: somebody else has changed a machine, another one
could not be restored, and the canary had been taken away before the rollout failed.  The last
is a disagreement of the code with its comment: when the final attestation fails after the
canary of a lone machine has gone (lines 1331-1403, 2116-2160), the rollback restarts that
machine with no peer, although line 1953 says "Preserve the temporary healthy peer if the
serving originals were not restored".  Without that exception TLC finds it; no run expects it.
Instance: two machines, two rollouts, one fault.  `RolloutHolds` is proved for any number;
`RollbackHolds` is model-checked.

Abstractions: time is left out (a poll ends as soon as it does not find what it waits for, a
missed deadline is a call that failed); three attempts of a destroy or a release are one
step; the synchronisation of secrets is a call that may fail; only creations and updates land
late, and before the next rollout starts; a lease whose answer was lost is nobody's to release until it
lapses.  Somebody else touches only machines without a lease.  The
deployment workflow uses the other tool; this one is called by tests.

`ManagedRollout` is `scripts/ci/fly-managed-rollout.js` around two deployments by a tool that
is not trusted: plan, converge, attest.  `NoOldWriters`: no version is raised over a machine
of the old writers.  `ReceiptHolds`: the receipt is of the whole fleet as it stayed through
the attestation.  Instance: three machines of any initial state, three intervals, two polls,
two deployments by others.  Probes come in any order; the checks of images and definitions
are abstracted to the writer mode; the receipt is written with the last interval.

## 12. ReleaseProtocols

The activation of the providers' fence in PostgreSQL and of the claim writers' version in
Redis, by two releases and an operator, against a legacy and a fenced server.  A transition
of the database holds an advisory lock and the table of the collections: it is one step.  A
run may stop anywhere.  `ReleaseHolds`: what a phase has reported stays so, and no server
that a release is fit for is refused.  `NoLateWrite`: no write that began before the fence
comes in after it.  Instance: three runs, two writes, two orders; production and UAT share
the state space.  Seen, with no run of its own: if an operator resumes a pause before the
activation, servers of both modes write.

## 13. Provisioning

`profile-provisioner.js` at two servers, for one identity and two configurations: read both
aliases, create or find the profile, bind, finish the pending envelope, rotate the token, or
compensate.  A call may fail, or do its work and lose its answer.  A server's identity lock
admits one request at a time; between servers there is only the database.  `TokenStands`: a token
that was answered opens its profile for as long as the profile is active, whatever the
other server rotates or finishes.
`TakenBack`: a created profile that a failed request has taken back is not active.
Instance: two requests, two mishaps, two tries.  The branches in which a created profile
turns out to be another owner's cannot be reached and are not there.  Alias rows are never
deleted, so an identity whose profile was revoked is not provisioned again.  Seen, with no
run of its own: a compensation that reads the revision again may revoke a profile that
another server has finished and answered meanwhile.

## 14. Lifecycle

`profile-lifecycle-service.js`: revocation of a device and erasure of a profile, the rows of
their invalidations, and the requests and cleanup passes that work them off, against claims
and objects that are under way.  `GoneForGood`: after the last row of an invalidation no
claim or object of it is there, or comes.  `RevocationEnds` (liveness): the rows are worked
off however often a step fails, and an accepted erasure ends.  Instance: one device, two
runners, one fault, two claims (none under liveness).  Fairness: runners go on (calls have
deadlines) and take rows that keep falling due (`storageCleanup` runs on a timer); objects
are deleted (section 7).  The repetitions of the compare-and-set that begins an erasure, and
the clearing of deliveries with the sweep, are merged; the count of attempts is left out.

## 15. ServerLifecycle

`storage/factory.js` and the process around it in `index.js`: resources opened one by one, the
readiness route with its shared check and timeout, the attestation that erasure works (with
its canary object), cleanup and worker timers, the shutdown, and the close in reverse order.

| variable | code |
|---|---|
| `storage`, `resources`, `closing` | state of the runtime, its resources with their listeners, the closers still to run; `storage.errors` are those that failed (`closeResourceStack`) |
| `checks`, `answered` | the readiness requests; history: who was answered `ready` wrongly |
| `attestation` | the proof and its task; the canaries in the bucket, those that landed since the task began, the writes given up (`flying`) |
| `process` | HTTP server, shutdown, cleanup, worker; the calls that never come back (`hung`); how the shutdown ended (`outcome`) |

A resource that fails to close, or times out, is forced, which may fail as well; the S3 client
has no way to be forced (`factory.js:583`).  What failed to close may stay open, and the
shutdown then ends as a failure.  A write of a canary that is given up is not taken back
(`subtitle-object-store.js:1003-1044` races it with its abort): it never arrives, or lands at
any time from then on, also after the purge of the next run.

`ServerSound` (`services`, proved): `ready` is answered by a runtime that is (`ReadyIsTrue`);
after a start that failed or a close no listener is left, and nothing is open but what itself
failed to close, whatever else failed; a shutdown that ends clean leaves nothing open, and
none closes anything under a cleanup or a worker (`NothingLeft`); when erasure is proven
afresh, the canaries left are those that were given up before and landed after the run that
proved it had begun (`ErasureProven`): its own is gone, and so is every earlier one that the
store had when the run purged.

`ShutdownEnds` (`liveness`): no failure and no timeout of a start, a check or a closing holds
the shutdown up.  It does not say that every shutdown ends: `server.close` waits for every
request, and `closeStorage` (`index.js:4847-4857`) for the active cleanup and the pass of the
worker, with no bound on either, on a pool without connection or query timeouts
(`factory.js:2176-2179`).  `Hang` lets one of these never come back, and the property then
allows the shutdown to wait there for good, and nowhere else; the forced close is not reached.

Instance: two readiness requests and three calls that fail, time out, land late or never come
back (one request and two such calls under liveness).  Fairness: the start, the checks, the
attestation and the closings have timeouts; a cleanup ends, and the shutdown goes on, unless
what they wait for hangs.  Two things to know: a readiness timeout closes the runtime for
good, and the canary of a process that died is never purged, as the next process has a
namespace of its own.

## 16. PlaybackSessions

`trakt-scrobble-service.js` over `postgres/playback-session-repository.js`: open a session for
a claim (which ends the one it superseded), move it with an event and enqueue in one
transaction, deliver from the outbox next to the worker; release, the revocation of a source,
and the owner's changes.  `SessionsHold`: what waits to be sent is of its session as it is;
a dispatch is sent once, and what a call says was scrobbled is over; a session that was
ended, and each of a released source, stays so.  Instance: two sessions of one source, two
callers, a worker, three calls, two changes, one fault (a crash, a lost lease or a lost
answer).  Left out: the legacy path, dispatches that a caller names, progress, the limits of
retries and batches.  No HTTP handler calls it; production sends by history grants and the
worker (section 6).

Seen, with no run of its own: a release that dies between the session and the source claim is
not completed, as a repetition answers no; a bind of the old session that opens late, after it
was superseded, leaves two sessions playing; a repetition of a dispatch whose outcome is
unknown is told that it was scrobbled.

## 17. TraktCredential

The account of a profile at Trakt, over several servers: launch, callback (peek, exchange,
consume), refresh under a lease with its waiters, disconnect, the end of the profile; the
database's row moves by compare and set.  External: what Trakt issues, and what it has been
sent.  `GrantsUsedOnce`: a code and a refresh token are sent once.  `ConsentStands`: a ready
credential is of a consent since the last disconnection.  Instance: two servers, two
launches, a disconnection, one stale token, one mishap.  Left out: the limit of eight
repetitions, rows of older versions; tokens whose write was fenced are not revoked at Trakt
by the code, and so not here.

## 18. ObjectVersions

`s3/subtitle-object-store.js` over a versioned bucket (external).  `PutAnswersTrue`: when a
put answers, the bucket has taken its body, and a version that it names is its own.  `ErasedIsGone`: what a deletion
answered to be gone is gone.  Instance: two keys, pages of one version, three rounds,
three calls, one mishap; puts that were given up land late.  Left out: `get` and the
collection of bodies; versions are deleted newest first, and a retry inside the SDK is a lost
answer.

## 19. ProviderGateway

`provider-gateway-service.js` in one server for one profile: epochs, cache, shared fetches, the
scheduler, breakers, the recording of contexts, and `clearProfile` with an invalidation that
may fail (queries then fail until the next one succeeds).  `QueriesHold`: an answer is from
the providers as one snapshot had them, whoever fetched it; a probe of a breaker is given
back; whoever joined a fetch is served.  A fetch that is still wanted ends with an answer, with
a failure, or with an error that says nothing of its provider (`provider-gateway-service.js:40-48`:
its admission timed out, or the queue of all profiles was full), which gives the probe back
and counts nothing; one that is not wanted any more ends with the latter only.  Instance: two
queries, two providers over one slot and a queue of one (so that the scheduler refuses the
second provider of a query that finds the slot taken), a breaker that opens at once, three queries asked, one
clearing, one replacement, one failure.
Left out: limits in bytes with their evictions, streams beyond one per answer, and time: a
breaker's cooldown may pass whenever no probe is out.

## 20. UpstreamFetch

The semaphore and the redirects of `upstream-fetch-policy.js`.  `QueriesHold` says of it: the
slots in use are those of the requests under way (`SlotsHeld`), none idles while someone who has room
waits (`NoSlotIdles`), a key is not served twice before another that could be
(`TurnsAreFair`), and headers go to nobody but their origin, over https (`HopsHold`).
Instances: four requests, two keys, one slot, a queue of three, two redirects, URLs of three
origins; and four requests of two keys, two slots of which a key may have one, and no
redirects (`wide`), where a key that is full leaves a slot free, which is what
`NoSlotIdles` is about.  Refusals by address, status, size and encoding are one refusal; callers who had
aborted before they asked are left out.

## 21. ConfigurePage

`public/configure.js` in one tab: the epochs of authority, the mutex of provider operations,
pairing and its recovery from the session storage, import with approval, account and backup,
deletion, the way to Trakt.  The Bridge is what the page sees of it.  `OneAuthority`: the
session is of the profile that is shown, what goes on is of that session, and nobody but a
current action keeps the page busy.  `ReadyIsImported`: install links
are shown only after an import under that session, and every import has a backup.  `PairingRecoverable`: a pairing whose answer is
unknown has its record, unless a second activation was sent over the first.  Instance: two
profiles, one code, four epochs, two activations, a reload, one operation.

Seen, with no run of its own: two activations under way at once (a recovery and the button)
let a late answer of one clear the record of the other, and a recovery that is answered 404
while the original is still under way clears it too; a navigation to Trakt that never happens
leaves the page busy; a profile's backups are never pruned, so its 65th import is refused.

## 22. SubtitleDiscovery

`subtitle-discovery-service.js` and the handlers of `/v1/subtitles`: discover, resolve, read,
each reading the claim again after its awaits, under changes of the claim, the providers and
the device.  `DiscoveryHolds`: an artifact is of the candidate that was chosen; a list is of
one binding; an artifact that the device was not told of is ended (unless the server that
should have ended it fails).  Instance: two requests, three asked, two listed, three changes,
one mishap.  The fetch and upload, and the query to the providers, are one step each.  Seen,
with no run of its own: a resolve whose disclosure fails invalidates the session's artifacts
although another request was told of them (`index.js:2838-2850`); the artifact of a server
that dies while disclosing stays until it expires.

## 23. Not modelled

- The SQLite and in-memory editions of the repositories (small installations, tests).
- `lease-repository.js`, `history-repository.changes`, `renewProviderSnapshotMutation`: no caller.
- `history-service.js`: its routes answer that they are gone (`index.js:2502-2504`).
- `rate-limit-repository.js`: one script that counts within a window; nothing interleaves.
- Cryptography, tokens, validation, migrations' DDL, configuration: pure functions or run once.
- Byte-level parsing of subtitles, streams and manifests; formats of imports; rendering.
- `repository-policy.js` and the release-validation scenarios: they read files and report.
- The loss of Redis' memory, and of the database's committed rows.
