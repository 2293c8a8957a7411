-------------------------- MODULE SubtitleDelivery --------------------------
(***************************************************************************)
(* How one profile's subtitles are fetched, uploaded, read and removed     *)
(* again, as Redis sees it: the artifacts and their indexes, the quotas    *)
(* they are charged for, the leases of readers, and the authority under    *)
(* which an artifact may exist.                                            *)
(*                                                                         *)
(* A playback generation of the profile, with the provider revision and    *)
(* the claimed session that go with it, is one epoch.  A script on Redis   *)
(* is one step; a request of the player is a chain of them, with the fetch *)
(* from the source and the uploads to the object store in between.  The    *)
(* durable manifests of module SubtitleManifests appear here as calls that *)
(* succeed or fail.  Bytes are charged as objects are, and are left out.   *)
(***************************************************************************)
EXTENDS Integers, FiniteSets

CONSTANTS
    None,
    Artifacts,      \* the ids that reservations draw
    Requests,       \* resolutions of the subtitle, each with tokens of its own
    Readers,        \* players that read an artifact's objects
    Sweepers,       \* deletion workers that run on this repository
    Reserved,       \* the objects that a reservation is charged for
    MaxObjects,     \* the profile's quota of objects
    MaxEpoch,       \* bound: the playback generations of the profile
    MaxFaults       \* bound: lost replies and crashes of a request or a reader

ASSUME NamesAssumption == None \notin Artifacts \cup Requests

ASSUME QuotaAssumption == Reserved \in Nat \ {0} /\ MaxObjects \in Nat

ASSUME BoundsAssumption ==
    MaxEpoch \in Nat \ {0} /\ MaxFaults \in Nat /\ IsFiniteSet(Readers)

VARIABLES
    playback,       \* the current epoch, and its claim
    authority,      \* the epoch under which artifacts may exist; 0 before the first
    artifacts,
    listed,         \* the artifacts in the profile's index
    discovered,     \* for each epoch, the artifact of the subtitle
    charged,        \* the profile's counters
    requests,
    readers,        \* what each reader does, with which artifact
    leases,         \* and its lease on it
    sweeping,       \* the artifact each deletion worker has claimed
    faults

redis == <<authority, artifacts, listed, discovered, charged>>
vars == <<playback, authority, artifacts, listed, discovered, charged,
          requests, readers, leases, sweeping, faults>>

Epochs == 1..MaxEpoch
Active == {"reserved", "fetching", "uploading", "committed"}

NoArtifact == [state |-> "none", epoch |-> 0, quota |-> 0, reserver |-> None,
               fetcher |-> None, fenced |-> None, holder |-> None, requested |-> FALSE, phase |-> "none",
               age |-> "fresh", late |-> FALSE, settling |-> FALSE]

Init ==
    /\ playback = [epoch |-> 1, claim |-> "stands"]
    /\ authority = 0
    /\ artifacts = [a \in Artifacts |-> NoArtifact]
    /\ listed = {}
    /\ discovered = [e \in Epochs |-> None]
    /\ charged = [artifacts |-> 0, objects |-> 0, leases |-> 0]
    /\ requests = [r \in Requests |-> [pc |-> "idle", epoch |-> 0, artifact |-> None]]
    /\ readers = [k \in Readers |-> [pc |-> "idle", artifact |-> None]]
    /\ leases = [k \in Readers |-> "none"]
    /\ sweeping = [w \in Sweepers |-> None]
    /\ faults = 0

-----------------------------------------------------------------------------
(* What the scripts share: subtitle-common.lua                               *)

ActiveClaim(e) == playback.epoch = e /\ playback.claim = "stands"
Authorized(e) == authority = e /\ ActiveClaim(e)

\* The sliding expiry can be moved, until the absolute one has passed.
Refreshable(a) == artifacts[a].age # "dead"
Refreshed(rec) == [rec EXCEPT !.age = "fresh"]

\* Mutant: the way from the subtitle to the artifact stays.
UnlistHalf(S) == listed' = listed \ S /\ UNCHANGED discovered

Unlist(S) ==
    /\ listed' = listed \ S
    /\ discovered' = [e \in Epochs |-> IF discovered[e] \in S THEN None ELSE discovered[e]]

Put(a, rec) == artifacts' = [artifacts EXCEPT ![a] = rec]
Keep == UNCHANGED <<artifacts, listed, discovered>>

Condemned(rec, phase) ==
    [rec EXCEPT !.state = "deleting", !.requested = TRUE, !.phase = phase, !.late = FALSE,
                !.reserver = None, !.fetcher = None, !.fenced = None, !.age = "fresh"]

\* What an artifact becomes when its deletion is requested: objects on their way are
\* waited for.
Marked(rec) ==
    CASE rec.state \in {"reserved", "fetching"} -> Condemned(rec, "empty")
      [] rec.state = "uploading" -> [rec EXCEPT !.requested = TRUE, !.phase = "waiting"]
      [] rec.state = "committed" -> Condemned(rec, "first")

Markable(a) == artifacts[a].state \in Active /\ ~artifacts[a].requested

MarkDeleting(S) ==
    LET hit == {a \in S : Markable(a)}
    IN /\ artifacts' = [a \in Artifacts |-> IF a \in hit THEN Marked(artifacts[a]) ELSE artifacts[a]]
       /\ Unlist(hit)

TerminalAbort(a) == Put(a, Condemned(artifacts[a], "first")) /\ Unlist({a})

\* A fetch that was released or came too late: its token is remembered.
FetchReset(rec) ==
    [rec EXCEPT !.state = "reserved", !.fenced = rec.fetcher, !.fetcher = None, !.late = FALSE]

Lapsed == {k \in Readers : leases[k] = "lapsed"}
LapsedOn(a) == {k \in Lapsed : readers[k].artifact = a}
Held(a) == {k \in Readers : readers[k].artifact = a /\ leases[k] # "none"}

\* The leases of S are taken off the books.
Drop(S) ==
    /\ leases' = [k \in Readers |-> IF k \in S THEN "none" ELSE leases[k]]
    /\ charged' = [charged EXCEPT !.leases = @ - Cardinality(S)]

\* Mutant: what was reserved is given back, though a part of it was given back before.
ReservedBack(rec) == Reserved

GivenBack(rec) == rec.quota

Requeued(rec) == [rec EXCEPT !.state = "deleting", !.holder = None, !.late = FALSE]

-----------------------------------------------------------------------------
(* A request: SubtitleDiscoveryService, then SubtitleDeliveryService.resolve  *)

Fault == faults < MaxFaults /\ faults' = faults + 1

\* The request goes on at pc, about artifact a; an answered one is forgotten.
Proceed(r, pc, a) ==
    requests' = [requests EXCEPT ![r] =
                    IF pc = "done" THEN [pc |-> pc, epoch |-> 0, artifact |-> None]
                    ELSE [@ EXCEPT !.pc = pc, !.artifact = a]]

Goto(r, pc) == Proceed(r, pc, requests[r].artifact) /\ UNCHANGED faults

\* The script was run; its reply reaches the request, or gets lost on the way.
Replied(r, pc, lost) ==
    \/ Goto(r, pc)
    \/ Proceed(r, lost, requests[r].artifact) /\ Fault

Elsewhere == UNCHANGED <<playback, readers, leases, sweeping>>

ReadClaim(r) ==
    /\ requests[r].pc = "idle" /\ playback.claim = "stands"
    /\ requests' = [requests EXCEPT ![r].pc = "reconcile", ![r].epoch = playback.epoch]
    /\ UNCHANGED <<redis, faults>> /\ Elsewhere

\* The objects that the artifacts of S are charged for.
Objects(S) == {x \in S \X (1..Reserved) : x[2] <= artifacts[x[1]].quota}

\* The preflight of a change of authority: every listed artifact is in order.
Orderly(a, next) ==
    LET rec == artifacts[a]
    IN /\ rec.epoch \in {authority, next}
       /\ discovered[rec.epoch] = a
       /\ rec.state \in Active /\ ~rec.requested /\ rec.phase = "none"
       /\ rec.quota \in 1..Reserved
       /\ rec.state \in {"reserved", "fetching"} => rec.quota = Reserved /\ rec.reserver # None
       /\ (rec.fetcher = None) <=> (rec.state = "reserved")

Preflight(next) ==
    /\ Cardinality(listed) = Cardinality({e \in Epochs : discovered[e] # None})
    /\ \A a \in listed : Orderly(a, next)
    /\ charged.artifacts >= Cardinality(listed)
    /\ charged.objects >= Cardinality(Objects(listed))

ReconcileAuthority(r) ==
    LET e == requests[r].epoch
    IN /\ requests[r].pc = "reconcile"
       /\ IF playback.epoch # e \/ ~Preflight(e)
          THEN Goto(r, "done") /\ UNCHANGED redis
          ELSE /\ Replied(r, "reserve", "done")
               /\ authority' = e
               /\ IF authority = e THEN Keep ELSE MarkDeleting(listed)
               /\ UNCHANGED charged
       /\ Elsewhere

\* The subtitle has its artifact.  It was reserved with another capability; it has
\* expired; or the request joins in, and takes over a reservation nobody works on.
ReserveAgain(r, a) ==
    \/ Goto(r, "done") /\ UNCHANGED redis
    \/ /\ ~Refreshable(a)
       /\ MarkDeleting({a}) /\ Goto(r, "done")
       /\ UNCHANGED <<authority, charged>>
    \/ /\ Refreshable(a)
       /\ Put(a, IF artifacts[a].state = "reserved"
                 THEN [Refreshed(artifacts[a]) EXCEPT !.reserver = r]
                 ELSE Refreshed(artifacts[a]))
       /\ \/ /\ Proceed(r, IF artifacts[a].state = "committed" THEN "done" ELSE "begin", a)
             /\ UNCHANGED faults
          \/ Proceed(r, "done", a) /\ Fault
       /\ UNCHANGED <<authority, listed, discovered, charged>>

ReserveNew(r, a) ==
    LET e == requests[r].epoch
    IN /\ artifacts[a] = NoArtifact
       /\ charged.objects + Reserved <= MaxObjects
       /\ Put(a, [NoArtifact EXCEPT !.state = "reserved", !.epoch = e, !.quota = Reserved,
                                    !.reserver = r])
       /\ listed' = listed \cup {a}
       /\ discovered' = [discovered EXCEPT ![e] = a]
       /\ charged' = [charged EXCEPT !.artifacts = @ + 1, !.objects = @ + Reserved]
       /\ (Proceed(r, "begin", a) /\ UNCHANGED faults) \/ (Proceed(r, "done", a) /\ Fault)
       /\ UNCHANGED authority

Reserve(r) ==
    LET e == requests[r].epoch
        known == discovered[e]
    IN /\ requests[r].pc = "reserve"
       /\ \/ /\ ~Authorized(e) \/ (known = None /\ charged.objects + Reserved > MaxObjects)
             /\ Goto(r, "done") /\ UNCHANGED redis
          \/ Authorized(e) /\ known # None /\ ReserveAgain(r, known)
          \/ Authorized(e) /\ known = None /\ \E a \in Artifacts : ReserveNew(r, a)
       /\ Elsewhere

\* Another request is at work on the artifact.
FetchBusy(rec) == rec.state = "uploading" \/ (rec.state = "fetching" /\ ~rec.late)

BeginFetch(r) ==
    LET a == requests[r].artifact
        rec == artifacts[a]
        open == rec.state \in Active /\ ~rec.requested /\ Authorized(requests[r].epoch)
        begun == [Refreshed(rec) EXCEPT !.state = "fetching", !.fetcher = r, !.late = FALSE,
                     !.fenced = IF rec.state = "fetching" THEN rec.fetcher ELSE rec.fenced]
    IN /\ requests[r].pc = "begin"
       /\ IF open /\ rec.state = "committed" THEN Goto(r, "done") /\ Keep
          ELSE IF ~open \/ FetchBusy(rec) THEN Goto(r, "cancel") /\ Keep
          ELSE IF ~Refreshable(a)
          THEN /\ Put(a, IF rec.state = "fetching" THEN FetchReset(rec) ELSE rec)
               /\ Goto(r, "cancel") /\ UNCHANGED <<listed, discovered>>
          ELSE Put(a, begun) /\ Replied(r, "source", "cancel") /\ UNCHANGED <<listed, discovered>>
       /\ UNCHANGED <<authority, charged>> /\ Elsewhere

\* The subtitle comes from its source, or does not.
FetchSource(r) ==
    /\ requests[r].pc = "source"
    /\ Goto(r, "stage") \/ Goto(r, "cancel")
    /\ UNCHANGED redis /\ Elsewhere

\* The reservation becomes the objects that there are, and gives back the rest.
Stage(r, parts) ==
    LET a == requests[r].artifact
        rec == artifacts[a]
        owned == rec.state = "fetching" /\ rec.fetcher = r
    IN /\ requests[r].pc = "stage"
       /\ IF ~owned \/ rec.late
          THEN /\ Goto(r, "abort_stage")
               /\ Put(a, IF owned THEN FetchReset(rec) ELSE rec)
               /\ UNCHANGED <<listed, discovered, charged>>
          ELSE IF ~Authorized(rec.epoch)
          THEN Goto(r, "abort_stage") /\ MarkDeleting({a}) /\ UNCHANGED charged
          ELSE IF ~Refreshable(a)
          THEN Goto(r, "abort_stage") /\ Keep /\ UNCHANGED charged
          ELSE /\ Replied(r, "manifest", "abort_stage")
               /\ Put(a, [Refreshed(rec) EXCEPT !.state = "uploading", !.quota = parts,
                              !.reserver = None, !.settling = TRUE])
               /\ charged' = [charged EXCEPT !.objects = @ - (rec.quota - parts)]
               /\ UNCHANGED <<listed, discovered>>
       /\ UNCHANGED authority /\ Elsewhere

\* The durable manifest is reserved, and the objects are put, before the deadline or not.
ReserveManifest(r) ==
    /\ requests[r].pc = "manifest"
    /\ Goto(r, "put") \/ Goto(r, "abort")
    /\ UNCHANGED redis /\ Elsewhere

PutObjects(r) ==
    /\ requests[r].pc = "put"
    /\ Goto(r, "commit") \/ Goto(r, "abort")
    /\ UNCHANGED redis /\ Elsewhere

Commit(r) ==
    LET a == requests[r].artifact
        rec == artifacts[a]
        owned == rec.state = "uploading" /\ rec.fetcher = r
    IN /\ requests[r].pc = "commit"
       /\ IF ~owned THEN Goto(r, "abort") /\ Keep
          ELSE IF rec.late \/ rec.requested \/ ~Authorized(rec.epoch) \/ ~Refreshable(a)
          THEN Goto(r, "abort") /\ TerminalAbort(a)
          ELSE /\ Replied(r, "durable", "abort")
               /\ Put(a, [Refreshed(rec) EXCEPT !.state = "committed"])
               /\ UNCHANGED <<listed, discovered>>
       /\ UNCHANGED <<authority, charged>> /\ Elsewhere

\* The manifest is committed; a manifest that is gone takes the session's artifacts along.
CommitManifest(r) ==
    /\ requests[r].pc = "durable"
    /\ \/ Goto(r, "done") /\ Keep
       \/ Goto(r, "done") /\ MarkDeleting({a \in listed : artifacts[a].epoch = requests[r].epoch})
    /\ UNCHANGED <<authority, charged>> /\ Elsewhere

\* _cleanupUpload: after a failed stage the fetch is cleaned up as well.
AbortUpload(r) ==
    LET a == requests[r].artifact
    IN /\ requests[r].pc \in {"abort", "abort_stage"}
       /\ IF artifacts[a].state = "uploading" /\ artifacts[a].fetcher = r
          THEN TerminalAbort(a) ELSE Keep
       /\ Goto(r, IF requests[r].pc = "abort" THEN "done" ELSE "cancel")
       /\ UNCHANGED <<authority, charged>> /\ Elsewhere

\* Request r owns the reservation or the fetch, or owned the fetch that was reset.
Cancelable(r, rec) ==
    /\ ~rec.requested
    /\ \/ rec.state = "reserved" /\ r \in {rec.reserver, rec.fenced}
       \/ rec.state = "fetching" /\ r = rec.fetcher

Cancel(r) ==
    LET a == requests[r].artifact
        rec == artifacts[a]
    IN /\ requests[r].pc = "cancel"
       /\ IF Cancelable(r, rec)
          THEN /\ Put(a, [NoArtifact EXCEPT !.state = "gone"]) /\ Unlist({a})
               /\ charged' = [charged EXCEPT !.artifacts = @ - 1, !.objects = @ - GivenBack(rec)]
               /\ Replied(r, "done", "release")
          ELSE Goto(r, "release") /\ Keep /\ UNCHANGED charged
       /\ UNCHANGED authority /\ Elsewhere

ReleaseFetch(r) ==
    LET a == requests[r].artifact
        rec == artifacts[a]
    IN /\ requests[r].pc = "release"
       /\ Put(a, IF rec.state = "fetching" /\ rec.fetcher = r THEN FetchReset(rec) ELSE rec)
       /\ Goto(r, "done")
       /\ UNCHANGED <<authority, listed, discovered, charged>> /\ Elsewhere

\* The process dies in the middle of a request.
Crash(r) ==
    /\ requests[r].pc \notin {"idle", "done"}
    /\ Proceed(r, "done", None) /\ Fault
    /\ UNCHANGED redis /\ Elsewhere

-----------------------------------------------------------------------------
(* A reader: SubtitleDeliveryService.read                                     *)

Idle == UNCHANGED <<playback, authority, requests, sweeping>>

Authorize(k, a) ==
    LET rec == artifacts[a]
        kept == [j \in Readers |-> IF j \in Lapsed THEN "none" ELSE leases[j]]
        left == charged.leases - Cardinality(Lapsed)
    IN /\ readers[k].pc = "idle" /\ leases[k] # "live"
       /\ rec.state = "committed" /\ ~rec.requested /\ authority = rec.epoch
       /\ IF ~ActiveClaim(rec.epoch) \/ ~Refreshable(a)
          THEN MarkDeleting({a}) /\ Drop(Lapsed) /\ UNCHANGED readers
          ELSE /\ Put(a, Refreshed(rec))
               /\ readers' = [readers EXCEPT ![k] = [pc |-> "reading", artifact |-> a]]
               /\ leases' = [kept EXCEPT ![k] = "live"]
               /\ charged' = [charged EXCEPT !.leases = left + 1]
               /\ UNCHANGED <<listed, discovered>>
       /\ UNCHANGED faults /\ Idle

\* Mutant: the reader trusts that an invalidation would have marked the artifact.
Unmarked(a) == artifacts[a].state = "committed" /\ ~artifacts[a].requested

\* What the lease was given for is still so.
StillGood(a) ==
    /\ artifacts[a].state = "committed" /\ ~artifacts[a].requested
    /\ Authorized(artifacts[a].epoch)

\* The object was read; the player gets it when the lease and what it was given for hold.
Revalidate(k) ==
    LET a == readers[k].artifact
    IN /\ readers[k].pc = "reading"
       /\ IF leases[k] # "live"
          THEN /\ readers' = [readers EXCEPT ![k].pc = "releasing"]
               /\ Drop(LapsedOn(a)) /\ Keep
          ELSE IF StillGood(a) /\ Refreshable(a)
          THEN /\ readers' = [readers EXCEPT ![k].pc = "served"]
               /\ Put(a, Refreshed(artifacts[a]))
               /\ Drop(LapsedOn(a)) /\ UNCHANGED <<listed, discovered>>
          ELSE /\ readers' = [readers EXCEPT ![k].pc = "releasing"]
               /\ Drop(LapsedOn(a) \cup {k}) /\ MarkDeleting({a})
       /\ UNCHANGED faults /\ Idle

\* The lease goes back; or the call fails, or the process dies, and the lease lapses.
ReleaseLease(k) ==
    /\ readers[k].pc # "idle"
    /\ readers' = [readers EXCEPT ![k].pc = "idle"]
    /\ \/ Drop({k} \ {j \in Readers : leases[j] = "none"}) /\ UNCHANGED faults
       \/ Fault /\ UNCHANGED <<leases, charged>>
    /\ Keep /\ Idle

-----------------------------------------------------------------------------
(* Invalidation, expiry and deletion                                          *)

Quiet == UNCHANGED <<requests, readers, faults>>

\* The playback contexts of the profile are invalidated; a new session is claimed; a
\* claim is released or expires.
InvalidatePlayback ==
    /\ playback.epoch < MaxEpoch
    /\ playback' = [epoch |-> playback.epoch + 1, claim |-> "none"]
    /\ UNCHANGED <<redis, leases, sweeping>> /\ Quiet

ClaimSession ==
    /\ playback.claim = "none"
    /\ playback' = [playback EXCEPT !.claim = "stands"]
    /\ UNCHANGED <<redis, leases, sweeping>> /\ Quiet

EndClaim ==
    /\ playback.claim = "stands"
    /\ playback' = [playback EXCEPT !.claim = "ended"]
    /\ UNCHANGED <<redis, leases, sweeping>> /\ Quiet

\* The deliveries are told of it: later, or never when the process died in between.
InvalidateProfile ==
    /\ playback.epoch > 1 /\ listed # {}
    /\ MarkDeleting(listed)
    /\ UNCHANGED <<playback, authority, charged, leases, sweeping>> /\ Quiet

InvalidateRelease(e) ==
    LET mine == {a \in listed : artifacts[a].epoch = e}
    IN /\ mine # {}
       /\ MarkDeleting(mine)
       /\ UNCHANGED <<playback, authority, charged, leases, sweeping>> /\ Quiet

\* A work deadline passes: of a fetch, of an upload or of a deletion claim.
PassDeadline(a) ==
    /\ artifacts[a].state \in {"fetching", "uploading", "deletion_claimed"} /\ ~artifacts[a].late
    /\ Put(a, [artifacts[a] EXCEPT !.late = TRUE])
    /\ UNCHANGED <<playback, authority, listed, discovered, charged, leases, sweeping>> /\ Quiet

\* No deadline of work lies beyond the absolute expiry.
Expire(a, age) ==
    LET rec == artifacts[a]
    IN /\ Markable(a) /\ rec.age # age /\ rec.age # "dead"
       /\ Put(a, [rec EXCEPT !.age = age,
                   !.late = @ \/ (age = "dead" /\ rec.state \in {"fetching", "uploading"})])
       /\ UNCHANGED <<playback, authority, listed, discovered, charged, leases, sweeping>> /\ Quiet

\* Every put that was begun before the upload's deadline has ended.
Settle(a) ==
    /\ artifacts[a].settling /\ (artifacts[a].state = "uploading" => artifacts[a].late)
    /\ Put(a, [artifacts[a] EXCEPT !.settling = FALSE])
    /\ UNCHANGED <<playback, authority, listed, discovered, charged, leases, sweeping>> /\ Quiet

LapseLease(k) ==
    /\ leases[k] = "live"
    /\ leases' = [leases EXCEPT ![k] = "lapsed"]
    /\ UNCHANGED <<playback, redis, sweeping>> /\ Quiet

\* Mutant: an upload that missed its deadline goes back to the reservation.
OverdueResumes(rec) ==
    IF ~rec.late THEN rec
    ELSE IF rec.state = "deletion_claimed" THEN Requeued(rec) ELSE FetchReset(rec)

Overdue(rec) ==
    IF ~rec.late THEN rec
    ELSE CASE rec.state = "fetching" -> FetchReset(rec)
           [] rec.state = "uploading" -> Condemned(rec, "first")
           [] rec.state = "deletion_claimed" -> Requeued(rec)

\* Mutant: only the work is looked after.
PrunedWork(rec) == Overdue(rec)

Pruned(rec) ==
    LET left == Overdue(rec)
    IN IF left.state \in Active /\ ~left.requested /\ left.age # "fresh"
       THEN Marked(left) ELSE left

Prune ==
    LET left == [a \in Artifacts |-> Pruned(artifacts[a])]
    IN /\ left # artifacts \/ Lapsed # {}
       /\ artifacts' = left
       /\ Unlist({a \in Artifacts : left[a].requested})
       /\ Drop(Lapsed)
       /\ UNCHANGED <<playback, authority, sweeping>> /\ Quiet

\* Claims that ran out are put back first.
Due(a) ==
    LET rec == IF artifacts[a].state = "deletion_claimed" /\ artifacts[a].late
               THEN Requeued(artifacts[a]) ELSE artifacts[a]
    IN rec.state = "deleting" /\ (rec.phase = "first" => ~rec.settling)

\* Mutant: the objects are deleted under the readers.
DueNow(a) == Due(a)

\* Nobody reads the objects.
Deletable(a) == Due(a) /\ Held(a) \subseteq Lapsed

ClaimDeletion(w, a) ==
    LET put == [b \in Artifacts |-> IF artifacts[b].state = "deletion_claimed"
                                    THEN Overdue(artifacts[b]) ELSE artifacts[b]]
    IN /\ sweeping[w] = None /\ Deletable(a)
       /\ artifacts' = [put EXCEPT ![a].state = "deletion_claimed", ![a].holder = w]
       /\ Drop(Lapsed)
       /\ sweeping' = [sweeping EXCEPT ![w] = a]
       /\ UNCHANGED <<playback, authority, listed, discovered>> /\ Quiet

\* The worker still holds its claim.
Holds(w, a) == artifacts[a].state = "deletion_claimed" /\ artifacts[a].holder = w

\* The objects were deleted and found absent; or that failed, or the worker crashed.
Sweep(w) ==
    LET a == sweeping[w]
        rec == artifacts[a]
        again == Requeued(rec)
    IN /\ a # None
       /\ sweeping' = [sweeping EXCEPT ![w] = None]
       /\ \/ /\ ~Holds(w, a) /\ Keep /\ UNCHANGED <<leases, charged, faults>>
          \/ /\ Holds(w, a) /\ (rec.late \/ (rec.phase # "first" /\ ~(Held(a) \subseteq Lapsed)))
             /\ Put(a, again) /\ UNCHANGED <<listed, discovered, leases, charged, faults>>
          \/ /\ Holds(w, a) /\ ~rec.late /\ rec.phase = "first"
             /\ Put(a, [again EXCEPT !.phase = "second"])
             /\ UNCHANGED <<listed, discovered, leases, charged, faults>>
          \/ /\ Holds(w, a) /\ ~rec.late /\ rec.phase # "first" /\ Held(a) \subseteq Lapsed
             /\ Put(a, [NoArtifact EXCEPT !.state = "gone"]) /\ Unlist({a})
             /\ leases' = [k \in Readers |-> IF k \in Held(a) THEN "none" ELSE leases[k]]
             /\ charged' = [artifacts |-> charged.artifacts - 1,
                            objects |-> charged.objects - GivenBack(rec),
                            leases |-> charged.leases - Cardinality(Held(a))]
             /\ UNCHANGED faults
          \/ /\ Fault /\ UNCHANGED <<listed, discovered, leases, charged>>
             /\ \/ Put(a, IF Holds(w, a) THEN again ELSE rec)
                \/ UNCHANGED artifacts
       /\ UNCHANGED <<playback, authority, requests, readers>>

-----------------------------------------------------------------------------

Request(r) ==
    \/ ReadClaim(r) \/ ReconcileAuthority(r) \/ Reserve(r) \/ BeginFetch(r) \/ FetchSource(r)
    \/ \E n \in 1..Reserved : Stage(r, n)
    \/ ReserveManifest(r) \/ PutObjects(r) \/ Commit(r) \/ CommitManifest(r)
    \/ AbortUpload(r) \/ Cancel(r) \/ ReleaseFetch(r) \/ Crash(r)

Read(k) == (\E a \in Artifacts : Authorize(k, a)) \/ Revalidate(k) \/ ReleaseLease(k)

Passing(a) == PassDeadline(a) \/ Expire(a, "stale") \/ Expire(a, "dead") \/ Settle(a)

Next ==
    \/ \E r \in Requests : Request(r)
    \/ \E k \in Readers : Read(k) \/ LapseLease(k)
    \/ InvalidatePlayback \/ ClaimSession \/ EndClaim \/ InvalidateProfile
    \/ \E e \in Epochs : InvalidateRelease(e)
    \/ \E a \in Artifacts : Passing(a)
    \/ Prune
    \/ \E w \in Sweepers : Sweep(w) \/ \E a \in Artifacts : ClaimDeletion(w, a)

Spec == Init /\ [][Next]_vars

SweepInTime(w) == Sweep(w) /\ Holds(w, sweeping[w]) /\ ~artifacts[sweeping[w]].late

\* Time passes, the maintenance prunes, and the deletion workers are run again and again;
\* the time of a claim is enough for a deletion, if not for every one.
Fairness ==
    /\ \A a \in Artifacts : WF_vars(PassDeadline(a)) /\ WF_vars(Expire(a, "dead")) /\ WF_vars(Settle(a))
    /\ \A k \in Readers : WF_vars(LapseLease(k))
    /\ WF_vars(Prune)
    /\ \A w \in Sweepers : WF_vars(Sweep(w)) /\ SF_vars(SweepInTime(w))
                         /\ \A a \in Artifacts : SF_vars(ClaimDeletion(w, a))

FairSpec == Spec /\ Fairness

-----------------------------------------------------------------------------
(* Properties                                                                *)

ArtifactRecords ==
    [state : {"none", "reserved", "fetching", "uploading", "committed", "deleting",
              "deletion_claimed", "gone"},
     epoch : 0..MaxEpoch, quota : 0..Reserved, reserver : Requests \cup {None},
     fetcher : Requests \cup {None}, fenced : Requests \cup {None},
     holder : Sweepers \cup {None}, requested : BOOLEAN,
     phase : {"none", "empty", "waiting", "first", "second"},
     age : {"fresh", "stale", "dead"}, late : BOOLEAN, settling : BOOLEAN]

\* The steps of a request that are about an artifact.
Working == {"begin", "source", "stage", "manifest", "put", "commit", "durable",
            "abort", "abort_stage", "cancel", "release"}

RequestStates ==
    [pc : {"idle", "reconcile", "reserve", "done"} \cup Working, epoch : 0..MaxEpoch,
     artifact : Artifacts \cup {None}]

ReaderStates ==
    [pc : {"idle", "reading", "releasing", "served"}, artifact : Artifacts \cup {None}]

\* The type invariant; a request has the epoch, and from its reservation on the
\* artifact, and a reader the artifact, that its step is about.
TypeOK ==
    /\ playback \in [epoch : Epochs, claim : {"none", "stands", "ended"}]
    /\ authority \in 0..MaxEpoch
    /\ artifacts \in [Artifacts -> ArtifactRecords]
    /\ listed \subseteq Artifacts
    /\ discovered \in [Epochs -> Artifacts \cup {None}]
    /\ charged \in [artifacts : Int, objects : Int, leases : Int]
    /\ requests \in [Requests -> RequestStates]
    /\ \A r \in Requests :
          /\ requests[r].pc \notin {"idle", "done"} => requests[r].epoch \in Epochs
          /\ requests[r].pc \in Working => requests[r].artifact \in Artifacts
    /\ readers \in [Readers -> ReaderStates]
    /\ leases \in [Readers -> {"none", "live", "lapsed"}]
    /\ \A k \in Readers :
          readers[k].pc # "idle" \/ leases[k] # "none" => readers[k].artifact \in Artifacts
    /\ sweeping \in [Sweepers -> Artifacts \cup {None}]
    /\ faults \in 0..MaxFaults

Charging == {a \in Artifacts : artifacts[a].state \notin {"none", "gone"}}

\* The profile is charged for the artifacts, the objects and the leases that there are,
\* whichever of the seven paths gives them back, and in whatever order they race.
QuotasAgree ==
    charged = [artifacts |-> Cardinality(Charging),
               objects |-> Cardinality(Objects(Charging)),
               leases |-> Cardinality({k \in Readers : leases[k] # "none"})]

\* The authority of a profile can always move on: no race of a fetch, an upload and an
\* invalidation leaves an artifact listed that the preflight of a change refuses, which
\* would end every subtitle of the profile with state_collision for ever.
AuthorityCanMove == \A e \in playback.epoch..MaxEpoch : Preflight(e)

\* The object keys of an artifact are put by one request: no two requests are past the
\* stage of the same artifact, however late one of them is.
UploadsNeverOverlap ==
    \A a \in Artifacts :
        Cardinality({r \in Requests : requests[r].artifact = a
                        /\ requests[r].pc \in {"manifest", "put", "commit"}}) <= 1

\* A deletion worker does not delete the objects of an artifact while a reader has a lease.
ReadersHoldDeletion ==
    \A k \in Readers : leases[k] = "live" =>
        artifacts[readers[k].artifact].state \in {"committed", "deleting"}

\* Whatever races, nothing is left that costs the profile a subtitle: what it is
\* charged for is there, and its authority can move on.
NothingBlocks == QuotasAgree /\ AuthorityCanMove

\* Nobody's objects are put twice or deleted under a reader.
ObjectsHeld == UploadsNeverOverlap /\ ReadersHoldDeletion

\* What is committed or given to a player belongs, in that very step, to the claim that
\* stands, though the deliveries may never have been told that an earlier one ended.
DeliveredIsCurrent ==
    [][/\ \A a \in Artifacts :
            artifacts'[a].state = "committed" /\ artifacts[a].state # "committed"
              => Authorized(artifacts[a].epoch)
       /\ \A k \in Readers :
            readers'[k].pc = "served" /\ readers[k].pc # "served"
              => Authorized(artifacts[readers[k].artifact].epoch)]_vars

\* Whatever becomes of an artifact, what the profile is charged for it is given back.
QuotaReturns == \A a \in Artifacts : (a \in Charging) ~> (a \notin Charging)
=============================================================================
