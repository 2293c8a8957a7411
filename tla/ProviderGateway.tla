---------------------------- MODULE ProviderGateway ----------------------------
(***************************************************************************)
(* The gateway of one server, for one profile:                             *)
(* src/lib/provider-gateway-service.js.  A query reads the snapshot of the *)
(* profile's providers, asks the cache, joins a fetch of another query or  *)
(* starts its own, in which each provider is a job of the profile's        *)
(* scheduler under a permit of the provider's breaker, and records a       *)
(* context for what it answers.  Clearing the profile ends what is under   *)
(* way and makes later queries wait for the invalidation, which may fail.  *)
(***************************************************************************)
EXTENDS Naturals, Sequences, FiniteSets

CONSTANTS
    Queries,       \* slots for queries
    Providers,     \* the providers that a query selects, in order
    None,
    Concurrency,   \* maxProviderConcurrency
    MaxQueue,      \* maxProviderQueueEntries
    Threshold,     \* failureThreshold
    MaxAsked, MaxClears, MaxReplaces, MaxMishaps

VARIABLES
    collection,    \* the revision and generation of the profile's providers
    clearing,      \* invalidations issued and ended, whether the last one failed
    epoch,         \* the profile's epoch, 0 for none
    marker,        \* the revision that the breakers are of
    minted,        \* identities given to epochs and markers
    breakers,
    cache,
    shared,        \* fetches that others may join
    fetches,       \* the fetch that each query has started
    queue, active, \* the scheduler's
    queries,
    asked, mishaps

vars == <<collection, clearing, epoch, marker, minted, breakers, cache, shared,
          fetches, queue, active, queries, asked, mishaps>>

ProviderSet == {Providers[i] : i \in 1..Len(Providers)}

Closed == [failures |-> 0, openFor |-> "no", probing |-> FALSE]
NoFetch == [pc |-> "none", key |-> None, marker |-> None, aborted |-> FALSE,
            permits |-> [p \in ProviderSet |-> "none"], jobs |-> [p \in ProviderSet |-> "none"],
            busy |-> {}]
NoQuery == [pc |-> "idle", own |-> FALSE, epoch |-> 0, waits |-> 0, since |-> 0, told |-> None,
            fetch |-> None, content |-> None, fresh |-> FALSE, recorded |-> FALSE]

Init ==
    /\ collection = [revision |-> 1, generation |-> 1]
    /\ clearing = [issued |-> 0, ended |-> 0, failed |-> FALSE]
    /\ epoch = 0 /\ marker = None /\ minted = 0
    /\ breakers = [p \in ProviderSet |-> Closed]
    /\ cache = {} /\ shared = {}
    /\ fetches = [q \in Queries |-> NoFetch]
    /\ queue = <<>> /\ active = 0
    /\ queries = [q \in Queries |-> NoQuery]
    /\ asked = 0 /\ mishaps = 0

Mishap == mishaps < MaxMishaps /\ mishaps' = mishaps + 1
Least(a, b) == IF a < b THEN a ELSE b

At(q, pc) == queries[q].pc = pc
InEpoch(q) == queries[q].epoch # 0 /\ queries[q].pc \notin {"idle", "answered"}

UnchangedCache == UNCHANGED <<marker, breakers, cache, shared>>
UnchangedFetches == UNCHANGED <<fetches, queue, active>>

-----------------------------------------------------------------------------
(* The scheduler *)

Started(jobs, f) ==
    [q \in Queries |-> [f[q] EXCEPT
        !.jobs = [p \in ProviderSet |-> IF <<q, p>> \in jobs THEN "running" ELSE f[q].jobs[p]],
        !.busy = @ \cup {p \in ProviderSet : <<q, p>> \in jobs}]]

\* As many of the queue start as there are places.
Drained(f, jobs, running) ==
    LET n == Least(Concurrency - running, Len(jobs))
    IN /\ fetches' = Started({jobs[i] : i \in 1..n}, f)
       /\ queue' = SubSeq(jobs, n + 1, Len(jobs))
       /\ active' = running + n

\* The jobs of the fetches Q are settled at once; those that run keep their
\* place until their request has ended.
Cancelled(Q) ==
    Drained([q \in Queries |-> IF q \notin Q THEN fetches[q]
                ELSE [fetches[q] EXCEPT !.aborted = TRUE,
                        !.jobs = [p \in ProviderSet |->
                            IF @[p] \in {"queued", "running"} THEN "neutral" ELSE @[p]]]],
            SelectSeq(queue, LAMBDA job : job[1] \notin Q), active)

Wanted(f) == ~f.aborted /\ f.marker = marker

\* A request ends: with an answer, without one, or with nothing that is told of
\* its provider, because it was not wanted any more or because the requests of
\* all profiles left it neither room nor time to begin.
JobEnds(q, p) ==
    /\ p \in fetches[q].busy
    /\ \E outcome \in {"ok", "failed", "neutral"} :
        /\ Wanted(fetches[q]) \/ outcome = "neutral"
        /\ IF outcome = "failed" THEN Mishap ELSE UNCHANGED mishaps
        /\ Drained([fetches EXCEPT ![q].busy = @ \ {p},
                                   ![q].jobs[p] = IF @ = "running" THEN outcome ELSE @],
                   queue, active - 1)
    /\ UnchangedCache /\ UNCHANGED <<collection, clearing, epoch, minted, queries, asked>>

-----------------------------------------------------------------------------
(* Queries *)

\* The query ends, and with the last one the epoch.
Ended(q, record) ==
    /\ queries' = [queries EXCEPT ![q] = record]
    /\ epoch' = IF queries[q].epoch = epoch /\ {r \in Queries : InEpoch(r) /\ queries[r].epoch = epoch} = {q}
                THEN 0 ELSE epoch

\* A query begins, for a caller that may abort it or not.
Ask(q) ==
    /\ queries[q].pc \in {"idle", "answered"} /\ fetches[q] = NoFetch
    /\ asked < MaxAsked /\ asked' = asked + 1
    /\ \E own \in BOOLEAN :
         queries' = [queries EXCEPT ![q] =
             [NoQuery EXCEPT !.pc = "wait", !.own = own, !.waits = clearing.issued,
                             !.since = collection.revision]]
    /\ UnchangedCache /\ UnchangedFetches
    /\ UNCHANGED <<collection, clearing, epoch, minted, mishaps>>

\* No invalidation is under way: the query enters the epoch.
Enter(q) ==
    /\ At(q, "wait") /\ clearing.issued = clearing.ended /\ ~clearing.failed
    /\ LET mine == IF epoch = 0 THEN minted + 1 ELSE epoch
       IN /\ epoch' = mine /\ minted' = IF epoch = 0 THEN minted + 1 ELSE minted
          /\ queries' = [queries EXCEPT ![q].pc = "read", ![q].epoch = mine]
    /\ UnchangedCache /\ UnchangedFetches
    /\ UNCHANGED <<collection, clearing, asked, mishaps>>

\* The invalidation has failed: queries do too, until the profile is cleared again.
Refuse(q) ==
    /\ At(q, "wait") /\ clearing.issued = clearing.ended /\ clearing.failed
    /\ queries' = [queries EXCEPT ![q] = NoQuery]
    /\ UnchangedCache /\ UnchangedFetches
    /\ UNCHANGED <<collection, clearing, epoch, minted, asked, mishaps>>

ReadSnapshot(q) ==
    /\ At(q, "read")
    /\ queries' = [queries EXCEPT ![q].pc = "decide", ![q].told = collection]
    /\ UnchangedCache /\ UnchangedFetches
    /\ UNCHANGED <<collection, clearing, epoch, minted, asked, mishaps>>

\* Mutant: the profile alone.
CacheKeyOfProfile(snapshot) == None

CacheKey(snapshot) == snapshot

Cached(key) == {entry \in cache : entry.key = key}

\* Mutant: whoever asks.
SharesAlways(q) == TRUE

\* Only queries that cannot be aborted alone share a fetch.
Shares(q) == ~queries[q].own

Joinable(q, key) ==
    {entry \in shared : Shares(q) /\ entry.key = key /\ entry.epoch = queries[q].epoch}

\* What the breaker of a provider grants.
Permit(p, states) ==
    CASE states[p].openFor = "long" \/ states[p].probing -> "none"
      [] states[p].openFor = "over" /\ ~states[p].probing -> "probe"
      [] OTHER -> "plain"

\* The jobs that the scheduler has a place or room for; the others are refused.
Scheduled(wanted) ==
    SubSeq(wanted, 1, Least((Concurrency - active) + (MaxQueue - Len(queue)), Len(wanted)))

StartFetch(q, key, mine, states) ==
    LET permits == [p \in ProviderSet |-> Permit(p, states)]
        jobs == Scheduled(SelectSeq(Providers, LAMBDA p : permits[p] # "none"))
        state(p) ==
            CASE permits[p] = "none" -> "none"
              [] permits[p] # "none" /\ (\E i \in 1..Len(jobs) : jobs[i] = p) -> "queued"
              [] OTHER -> "neutral"
    IN /\ Drained([fetches EXCEPT ![q] =
                      [pc |-> "running", key |-> key, marker |-> mine, aborted |-> FALSE,
                       permits |-> permits, jobs |-> [p \in ProviderSet |-> state(p)], busy |-> {}]],
                  queue \o [i \in 1..Len(jobs) |-> <<q, jobs[i]>>], active)
       /\ breakers' = [p \in ProviderSet |->
                          [states[p] EXCEPT !.probing = @ \/ permits[p] = "probe"]]
       /\ shared' = IF ~Shares(q) THEN shared
                    ELSE shared \cup {[key |-> key, epoch |-> queries[q].epoch, fetch |-> q]}

\* The breakers are those of the marker's revision: a later one closes them all.
Activated(revision) ==
    IF marker # None /\ marker.revision = revision
    THEN [marker |-> marker, states |-> breakers, minted |-> minted]
    ELSE [marker |-> [revision |-> revision, id |-> minted + 1],
          states |-> [p \in ProviderSet |-> Closed], minted |-> minted + 1]

\* All between the snapshot and the next await.
Decide(q) ==
    LET snapshot == queries[q].told
        key == CacheKey(snapshot)
        now == Activated(snapshot.revision)
    IN /\ At(q, "decide") /\ fetches[q] = NoFetch
       /\ IF marker # None /\ snapshot.revision < marker.revision
          THEN /\ Ended(q, NoQuery) /\ UnchangedCache /\ UnchangedFetches /\ UNCHANGED minted
          ELSE /\ marker' = now.marker /\ minted' = now.minted
               /\ UNCHANGED <<epoch, cache>>
               /\ \/ \E entry \in Cached(key) :
                        /\ queries' = [queries EXCEPT ![q].pc = "record", ![q].content = entry.content]
                        /\ breakers' = now.states /\ UnchangedFetches /\ UNCHANGED shared
                  \/ \E entry \in Joinable(q, key) :
                        /\ Cached(key) = {}
                        /\ queries' = [queries EXCEPT ![q].pc = "fetch", ![q].fetch = entry.fetch]
                        /\ breakers' = now.states /\ UnchangedFetches /\ UNCHANGED shared
                  \/ /\ Cached(key) = {} /\ Joinable(q, key) = {}
                     /\ queries' = [queries EXCEPT ![q].pc = "fetch", ![q].fetch = q]
                     /\ StartFetch(q, key, now.marker, now.states)
       /\ UNCHANGED <<collection, clearing, asked, mishaps>>

-----------------------------------------------------------------------------
(* The end of a fetch *)

Failed(state, permit) ==
    LET failures == IF permit = "probe" THEN Threshold ELSE Least(Threshold, state.failures + 1)
    IN [failures |-> failures, openFor |-> IF failures = Threshold THEN "long" ELSE "no",
        probing |-> FALSE]

\* Mutant: only an answer or a failure settles a permit.
BreakersAfterForgetful(f) ==
    [p \in ProviderSet |->
        IF f.marker # marker \/ f.permits[p] = "none" THEN breakers[p]
        ELSE CASE ~f.aborted /\ f.jobs[p] = "ok" -> Closed
               [] ~f.aborted /\ f.jobs[p] = "failed" -> Failed(breakers[p], f.permits[p])
               [] ~f.aborted /\ f.jobs[p] = "neutral" -> breakers[p]
               [] OTHER -> [breakers[p] EXCEPT !.probing = @ /\ f.permits[p] # "probe"]]

\* Each permit is used up or given back, unless the breakers are another revision's.
BreakersAfter(f) ==
    [p \in ProviderSet |->
        IF f.marker # marker \/ f.permits[p] = "none" THEN breakers[p]
        ELSE CASE ~f.aborted /\ f.jobs[p] = "ok" -> Closed
               [] ~f.aborted /\ f.jobs[p] = "failed" -> Failed(breakers[p], f.permits[p])
               [] OTHER -> [breakers[p] EXCEPT !.probing = @ /\ f.permits[p] # "probe"]]

Complete(f) == f.marker = marker /\ \A p \in ProviderSet : f.jobs[p] = "ok"

Settle(q) ==
    LET f == fetches[q]
    IN /\ f.pc = "running" /\ \A p \in ProviderSet : f.jobs[p] \notin {"queued", "running"}
       /\ breakers' = BreakersAfter(f)
       /\ shared' = {entry \in shared : entry.fetch # q}
       /\ fetches' = [fetches EXCEPT ![q] = [NoFetch EXCEPT !.busy = f.busy, !.aborted = f.busy # {},
                                                          !.pc = IF f.busy = {} THEN "none" ELSE "over"]]
       /\ queries' = [r \in Queries |->
             IF At(r, "fetch") /\ queries[r].fetch = q
             THEN [queries[r] EXCEPT !.pc = "record", !.content = [of |-> f.key],
                                     !.fresh = Complete(f), !.fetch = None]
             ELSE queries[r]]
       /\ UNCHANGED <<collection, clearing, epoch, marker, minted, cache, queue, active, asked, mishaps>>

\* The last request of a fetch that was over has ended: its place is free again.
Forget(q) ==
    /\ fetches[q].pc = "over" /\ fetches[q].busy = {}
    /\ fetches' = [fetches EXCEPT ![q] = NoFetch]
    /\ UnchangedCache
    /\ UNCHANGED <<collection, clearing, epoch, minted, queue, active, queries, asked, mishaps>>

\* The contexts of the streams are recorded, in the generation of the snapshot or not at all.
RecordContexts(q) ==
    /\ At(q, "record")
    /\ queries' = [queries EXCEPT ![q].pc = "answer", ![q].recorded = queries[q].told = collection]
    /\ UnchangedCache /\ UnchangedFetches
    /\ UNCHANGED <<collection, clearing, epoch, minted, asked, mishaps>>

\* What was fetched whole is cached, in the epoch it was fetched in.
Answer(q) ==
    /\ At(q, "answer")
    /\ LET key == CacheKey(queries[q].told)
       IN cache' = IF queries[q].fresh /\ queries[q].epoch = epoch /\ Cached(key) = {}
                   THEN cache \cup {[key |-> key, content |-> queries[q].content]} ELSE cache
    /\ Ended(q, [queries[q] EXCEPT !.pc = "answered", !.epoch = 0, !.fresh = FALSE])
    /\ UnchangedFetches
    /\ UNCHANGED <<collection, clearing, marker, minted, breakers, shared, asked, mishaps>>

\* The caller gives up: the query ends at once, and a fetch of its own with it.
Abort(q) ==
    /\ queries[q].own /\ queries[q].pc \notin {"idle", "answered"}
    /\ Ended(q, NoQuery)
    /\ Cancelled(IF fetches[q].pc = "running" THEN {q} ELSE {})
    /\ UnchangedCache /\ UNCHANGED <<collection, clearing, minted, asked, mishaps>>

-----------------------------------------------------------------------------
(* The profile is cleared *)

ClearProfile ==
    /\ clearing.issued < MaxClears
    /\ clearing' = [clearing EXCEPT !.issued = @ + 1, !.failed = FALSE]
    /\ epoch' = 0 /\ marker' = None /\ cache' = {} /\ shared' = {}
    /\ breakers' = [p \in ProviderSet |-> Closed]
    /\ queries' = [q \in Queries |-> IF InEpoch(q) THEN NoQuery ELSE queries[q]]
    /\ Cancelled({q \in Queries : fetches[q].pc = "running"})
    /\ UNCHANGED <<collection, minted, asked, mishaps>>

\* An invalidation ends, or fails with or without having been done; the queries
\* that were waiting for it fail with it.
InvalidationEnds ==
    /\ clearing.ended < clearing.issued
    /\ LET last == clearing.ended + 1
       IN \/ /\ clearing' = [clearing EXCEPT !.ended = last]
             /\ collection' = [collection EXCEPT !.generation = @ + 1]
             /\ UNCHANGED <<queries, mishaps>>
          \/ /\ Mishap
             /\ clearing' = [clearing EXCEPT !.ended = last, !.failed = last = clearing.issued]
             /\ \/ UNCHANGED collection
                \/ collection' = [collection EXCEPT !.generation = @ + 1]
             /\ queries' = [q \in Queries |->
                   IF At(q, "wait") /\ queries[q].waits = last THEN NoQuery ELSE queries[q]]
    /\ UnchangedCache /\ UnchangedFetches /\ UNCHANGED <<epoch, minted, asked>>

\* Somebody replaces the collection.
Replace ==
    /\ collection.revision <= MaxReplaces
    /\ collection' = [revision |-> collection.revision + 1, generation |-> collection.generation + 1]
    /\ UnchangedCache /\ UnchangedFetches
    /\ UNCHANGED <<clearing, epoch, minted, queries, asked, mishaps>>

\* A breaker has been open for its time.
Cool(p) ==
    /\ breakers[p].openFor = "long"
    /\ breakers' = [breakers EXCEPT ![p].openFor = "over"]
    /\ UnchangedFetches
    /\ UNCHANGED <<collection, clearing, epoch, marker, minted, cache, shared, queries, asked, mishaps>>

PruneCache ==
    /\ cache # {} /\ \E entry \in cache : cache' = cache \ {entry}
    /\ UnchangedFetches
    /\ UNCHANGED <<collection, clearing, epoch, marker, minted, breakers, shared, queries, asked, mishaps>>

\* Other profiles' breakers push this one's out, when nobody asks for it.
Trim ==
    /\ epoch = 0 /\ marker # None /\ Mishap
    /\ marker' = None /\ breakers' = [p \in ProviderSet |-> Closed]
    /\ UnchangedFetches
    /\ UNCHANGED <<collection, clearing, epoch, minted, cache, shared, queries, asked>>

-----------------------------------------------------------------------------
Query(q) ==
    \/ Ask(q) \/ Enter(q) \/ Refuse(q) \/ ReadSnapshot(q) \/ Decide(q)
    \/ Settle(q) \/ Forget(q) \/ RecordContexts(q) \/ Answer(q) \/ Abort(q)
    \/ \E p \in ProviderSet : JobEnds(q, p)

Next ==
    \/ \E q \in Queries : Query(q)
    \/ \E p \in ProviderSet : Cool(p)
    \/ ClearProfile \/ InvalidationEnds \/ Replace \/ PruneCache \/ Trim

Spec == Init /\ [][Next]_vars

-----------------------------------------------------------------------------
\* What a query answers was fetched for the very snapshot it names, cached and
\* shared fetches included, and the snapshot is no older than the question.
AnswerIsOfItsSnapshot ==
    \A q \in Queries : At(q, "answered") =>
        /\ queries[q].content = [of |-> queries[q].told]
        /\ queries[q].told.revision >= queries[q].since

\* A breaker that waits for a probe has one under way: no way for a fetch to
\* end, be aborted or become stale shuts a provider out for good.
ProbeHeld ==
    \A p \in ProviderSet : breakers[p].probing =>
        \E q \in Queries :
            fetches[q].pc = "running" /\ fetches[q].permits[p] = "probe" /\ fetches[q].marker = marker

\* A query that waits for a fetch waits for one that nobody else can abort.
WaitersServed ==
    \A q \in Queries : At(q, "fetch") =>
        fetches[queries[q].fetch].pc = "running" /\ ~fetches[queries[q].fetch].aborted
=============================================================================
