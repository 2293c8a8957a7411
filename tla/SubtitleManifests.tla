-------------------------- MODULE SubtitleManifests --------------------------
(***************************************************************************)
(* The durable record of the subtitle files that the service puts into the *)
(* object store: src/lib/storage/postgres/subtitle-manifest-repository.js, *)
(* the upload of subtitle-delivery-service.js that writes a manifest       *)
(* before the first PUT, the subtitle-deletion-worker.js that removes the  *)
(* files, and the revocations and erasures of profiles and devices that    *)
(* condemn them.                                                           *)
(*                                                                         *)
(* An object store has no transactions: a PUT that was given up may still  *)
(* land.  A manifest therefore outlives every PUT: it is not taken up for  *)
(* deletion before its settlement deadline, and it is removed only when    *)
(* the files were found absent twice, SecondPass apart.                    *)
(*                                                                         *)
(* Time is what is left of each term; a Tick takes one unit of all.  The   *)
(* terms of an upload differ by constants, so one count is kept for all:   *)
(* horizon is the time in which a PUT may still land.  A transaction is    *)
(* one action, because each locks the rows that it decides on.             *)
(***************************************************************************)
EXTENDS Integers, FiniteSets

CONSTANTS
    Profiles,
    Devices,
    Owner,        \* the profile of a device
    Artifacts,    \* subtitle artifacts, each staged once
    DeviceOf,     \* the device that an artifact is made for
    Parts,        \* the files of an artifact
    Workers,      \* deletion workers, one in each process
    None,         \* no artifact, no lease
    UploadTtl,    \* time for an upload
    Settlement,   \* lifetime of a PUT, and a grace
    LateBy,       \* how much later than the settlement deadline a PUT may land
    SecondPass,   \* time from the first absence to the second pass
    LeaseTime,
    RetryDelay,
    MaxFaults     \* bound on failures, crashes and lapsed leases

ASSUME NamesAssumption ==
    /\ Owner \in [Devices -> Profiles]
    /\ DeviceOf \in [Artifacts -> Devices]
    /\ None \notin Artifacts \cup Workers
    /\ IsFiniteSet(Parts) /\ Parts # {}

\* The files must not land later than the second pass can see them.
ASSUME TermsAssumption ==
    /\ UploadTtl \in Nat \ {0} /\ Settlement \in Nat
    /\ SecondPass \in Nat /\ LateBy \in 0..SecondPass
    /\ LeaseTime \in Nat \ {0} /\ RetryDelay \in Nat /\ MaxFaults \in Nat

VARIABLES
    profiles,   \* deletion and revocation state of each profile
    devices,    \* state of each device
    stale,      \* artifacts whose revision or generation has been overtaken
    uploads,    \* where the upload of each artifact stands
    horizon,    \* how long a PUT of an artifact may still land
    manifests,  \* the table, a row for each artifact
    objects,    \* files in the object store
    flying,     \* PUTs sent that have neither landed nor died
    workers,    \* what each deletion worker does
    faults      \* failures, crashes and lapsed leases left

vars == <<profiles, devices, stale, uploads, horizon, manifests, objects, flying,
          workers, faults>>

Kept == {"uploading", "active"}
Condemned == {"deletion_requested", "first_absent"}

NoRow == [state |-> "none", due |-> 0, lease |-> None, leaseLeft |-> 0]
Idle == [pc |-> "idle", artifact |-> None, phase |-> "first", todo |-> {}, broken |-> FALSE]

ProfileOf(a) == Owner[DeviceOf[a]]
OfProfile(p) == {a \in Artifacts : ProfileOf(a) = p}
OfDevice(d) == {a \in Artifacts : DeviceOf[a] = d}
FilesOf(a) == {a} \X Parts

Less(n) == IF n > 0 THEN n - 1 ELSE 0

\* The deadline of the upload has not passed.
Writable(a) == horizon[a] > Settlement + LateBy
\* What is left until the settlement deadline.
SettleLeft(a) == IF horizon[a] > LateBy THEN horizon[a] - LateBy ELSE 0

Settled(a) == SettleLeft(a) = 0

Init ==
    /\ profiles = [p \in Profiles |-> "active"]
    /\ devices = [d \in Devices |-> "current"]
    /\ stale = {}
    /\ uploads = [a \in Artifacts |-> "none"]
    /\ horizon = [a \in Artifacts |-> 0]
    /\ manifests = [a \in Artifacts |-> NoRow]
    /\ objects = {} /\ flying = {}
    /\ workers = [w \in Workers |-> Idle]
    /\ faults = MaxFaults

Fault == faults > 0 /\ faults' = faults - 1

\* Mutant: the device is not asked.
BindingOfProfile(a) == profiles[ProfileOf(a)] = "active" /\ a \notin stale

\* The profile and the device are those of the request.
BindingHeld(a) ==
    /\ profiles[ProfileOf(a)] = "active"
    /\ devices[DeviceOf[a]] = "current"
    /\ a \notin stale

\* The rows once the deletion of those of S is requested.
Condemn(S) ==
    [a \in Artifacts |->
        IF a \in S /\ manifests[a].state \in Kept
        THEN [state |-> "deletion_requested", due |-> SettleLeft(a), lease |-> None,
              leaseLeft |-> 0]
        ELSE manifests[a]]

-----------------------------------------------------------------------------
(* An upload.                                                                *)

Upload(a, from, to) == uploads[a] = from /\ uploads' = [uploads EXCEPT ![a] = to]

StageUpload(a) ==
    /\ Upload(a, "none", "staged")
    /\ \E ttl \in 1..UploadTtl : horizon' = [horizon EXCEPT ![a] = ttl + Settlement + LateBy]
    /\ UNCHANGED <<profiles, devices, stale, manifests, objects, flying, workers, faults>>

Reserved(a) == [state |-> "uploading", due |-> SettleLeft(a), lease |-> None, leaseLeft |-> 0]

\* The row is there before the first PUT; an answer may be lost with it there.
ReserveManifest(a) ==
    /\ \/ /\ BindingHeld(a) /\ Upload(a, "staged", "reserved")
          /\ manifests' = [manifests EXCEPT ![a] = Reserved(a)]
          /\ UNCHANGED faults
       \/ ~BindingHeld(a) /\ Upload(a, "staged", "cleaning") /\ UNCHANGED <<manifests, faults>>
       \/ /\ Fault /\ Upload(a, "staged", "cleaning")
          /\ \/ UNCHANGED manifests
             \/ BindingHeld(a) /\ manifests' = [manifests EXCEPT ![a] = Reserved(a)]
    /\ UNCHANGED <<profiles, devices, stale, horizon, objects, flying, workers>>

\* After the deadline the signal is aborted before the first PUT.
StartPuts(a) ==
    /\ \/ /\ Writable(a) /\ Upload(a, "reserved", "writing")
          /\ flying' = flying \cup FilesOf(a)
       \/ ~Writable(a) /\ Upload(a, "reserved", "cleaning") /\ UNCHANGED flying
    /\ UNCHANGED <<profiles, devices, stale, horizon, manifests, objects, workers, faults>>

\* The store takes a file, whether or not somebody waits for the answer.
Land(f) ==
    /\ f \in flying
    /\ flying' = flying \ {f}
    /\ objects' = objects \cup {f}
    /\ UNCHANGED <<profiles, devices, stale, uploads, horizon, manifests, workers, faults>>

\* Every PUT is answered.
PutsAnswered(a) ==
    /\ FilesOf(a) \subseteq objects
    /\ Upload(a, "writing", "written")
    /\ UNCHANGED <<profiles, devices, stale, horizon, manifests, objects, flying, workers, faults>>

\* The deadline passes, or a PUT fails.  What was sent stays sent.
GiveUp(a) ==
    /\ Upload(a, "writing", "cleaning")
    /\ \/ ~Writable(a) /\ UNCHANGED faults
       \/ Fault
    /\ UNCHANGED <<profiles, devices, stale, horizon, manifests, objects, flying, workers>>

\* Redis refuses what is too late, or what has lost its playback.
CommitDelivery(a) ==
    /\ \/ Writable(a) /\ Upload(a, "written", "delivered")
       \/ Upload(a, "written", "cleaning")
    /\ UNCHANGED <<profiles, devices, stale, horizon, manifests, objects, flying, workers, faults>>

\* Mutant: the state of the row is not asked again.
CommittableIfThere(a) == manifests[a].state # "none"

Committable(a) == manifests[a].state = "uploading"

\* An error leaves the delivery as it is, and the row to its deadline.
CommitManifest(a) ==
    /\ \/ /\ Committable(a) /\ BindingHeld(a) /\ Upload(a, "delivered", "done")
          /\ manifests' = [manifests EXCEPT ![a].state = "active"]
          /\ UNCHANGED faults
       \/ /\ ~(Committable(a) /\ BindingHeld(a)) /\ Upload(a, "delivered", "cleaning")
          /\ manifests' = Condemn({a})
          /\ UNCHANGED faults
       \/ Fault /\ Upload(a, "delivered", "done") /\ UNCHANGED manifests
    /\ UNCHANGED <<profiles, devices, stale, horizon, objects, flying, workers>>

\* A clean-up that fails leaves the row to its deadline.
CleanUp(a) ==
    /\ Upload(a, "cleaning", "done")
    /\ \/ manifests' = Condemn({a}) /\ UNCHANGED faults
       \/ Fault /\ UNCHANGED manifests
    /\ UNCHANGED <<profiles, devices, stale, horizon, objects, flying, workers>>

CrashUpload(a) ==
    /\ Fault /\ uploads[a] \notin {"none", "done"}
    /\ uploads' = [uploads EXCEPT ![a] = "done"]
    /\ UNCHANGED <<profiles, devices, stale, horizon, manifests, objects, flying, workers>>

\* A disclosure that is refused takes its delivery back.
Invalidate(a) ==
    /\ uploads[a] = "done" /\ manifests[a].state = "active"
    /\ manifests' = Condemn({a})
    /\ UNCHANGED <<profiles, devices, stale, uploads, horizon, objects, flying, workers, faults>>

-----------------------------------------------------------------------------
(* The owner, and the clock.                                                 *)

\* The revision of the profile moves; uploads under way keep the old one.
Revise(p) ==
    /\ profiles[p] = "active"
    /\ stale' = stale \cup {a \in OfProfile(p) : uploads[a] # "none"}
    /\ UNCHANGED <<profiles, devices, uploads, horizon, manifests, objects, flying, workers, faults>>

RevokeProfile(p) ==
    /\ profiles[p] = "active"
    /\ profiles' = [profiles EXCEPT ![p] = "revoked"]
    /\ manifests' = Condemn(OfProfile(p))
    /\ UNCHANGED <<devices, stale, uploads, horizon, objects, flying, workers, faults>>

BeginErasure(p) ==
    /\ profiles[p] = "active"
    /\ profiles' = [profiles EXCEPT ![p] = "pending"]
    /\ manifests' = Condemn(OfProfile(p))
    /\ UNCHANGED <<devices, stale, uploads, horizon, objects, flying, workers, faults>>

\* Mutant: rows on their way out do not count.
UnreferencedByKept(p) == \A a \in OfProfile(p) : manifests[a].state \notin Kept

Unreferenced(p) == \A a \in OfProfile(p) : manifests[a].state = "none"

\* The sweep that goes before finds nothing that BeginErasure has left.
Erase(p) ==
    /\ profiles[p] = "pending" /\ Unreferenced(p)
    /\ profiles' = [profiles EXCEPT ![p] = "deleted"]
    /\ UNCHANGED <<devices, stale, uploads, horizon, manifests, objects, flying, workers, faults>>

RevokeDevice(d) ==
    /\ profiles[Owner[d]] = "active" /\ devices[d] # "revoked"
    /\ devices' = [devices EXCEPT ![d] = "revoked"]
    /\ manifests' = Condemn(OfDevice(d))
    /\ UNCHANGED <<profiles, stale, uploads, horizon, objects, flying, workers, faults>>

DeviceExpires(d) ==
    /\ devices[d] = "current"
    /\ devices' = [devices EXCEPT ![d] = "expired"]
    /\ UNCHANGED <<profiles, stale, uploads, horizon, manifests, objects, flying, workers, faults>>

\* The job of w is the one that the row is leased for.
Holds(w) ==
    /\ manifests[workers[w].artifact].lease = w
    /\ manifests[workers[w].artifact].leaseLeft > 0

\* A worker so slow that the lease runs out counts as a fault.
Lapsing ==
    \E w \in Workers :
        /\ workers[w].pc # "idle" /\ Holds(w)
        /\ manifests[workers[w].artifact].leaseLeft = 1

Running ==
    \E a \in Artifacts : horizon[a] > 0 \/ manifests[a].due > 0 \/ manifests[a].leaseLeft > 0

Tick ==
    /\ Running
    /\ IF Lapsing THEN Fault ELSE UNCHANGED faults
    /\ horizon' = [a \in Artifacts |-> Less(horizon[a])]
    /\ manifests' = [a \in Artifacts |->
          [manifests[a] EXCEPT !.due = Less(@), !.leaseLeft = Less(@)]]
    /\ flying' = {f \in flying : horizon[f[1]] > 1}
    /\ UNCHANGED <<profiles, devices, stale, uploads, objects, workers>>

-----------------------------------------------------------------------------
(* A deletion worker.                                                        *)

Job(w, job) == workers' = [workers EXCEPT ![w] = job]

\* The rows once those are condemned that have expired, of which E are active.
Expired(E) == Condemn(E \cup {a \in Artifacts : manifests[a].state = "uploading" /\ Settled(a)})

\* Mutant: nobody comes for the second pass.
ClaimableOnce(rows, a) ==
    /\ rows[a].state = "deletion_requested"
    /\ rows[a].due = 0 /\ Settled(a) /\ rows[a].leaseLeft = 0

Claimable(rows, a) ==
    /\ rows[a].state \in Condemned
    /\ rows[a].due = 0 /\ Settled(a) /\ rows[a].leaseLeft = 0

Claim(w) ==
    /\ workers[w].pc = "idle"
    /\ \E E \in SUBSET {a \in Artifacts : manifests[a].state = "active"} :
          LET rows == Expired(E) IN
          \/ \E a \in Artifacts :
                /\ Claimable(rows, a)
                /\ manifests' = [rows EXCEPT ![a].lease = w, ![a].leaseLeft = LeaseTime]
                /\ Job(w, [pc |-> "deleting", artifact |-> a,
                           phase |-> IF rows[a].state = "first_absent" THEN "second" ELSE "first",
                           todo |-> Parts, broken |-> FALSE])
          \/ /\ \A a \in Artifacts : ~Claimable(rows, a)
             /\ manifests' = rows
             /\ UNCHANGED workers
    /\ UNCHANGED <<profiles, devices, stale, uploads, horizon, objects, flying, faults>>

\* A delete is answered, or not; an unanswered one may have been done.
Delete(w, k) ==
    LET a == workers[w].artifact
        left == workers[w].todo \ {k}
        answered(failed) ==
            Job(w, IF left # {} THEN [workers[w] EXCEPT !.todo = left, !.broken = failed]
                   ELSE IF failed THEN [workers[w] EXCEPT !.pc = "failed", !.todo = {}]
                   ELSE [workers[w] EXCEPT !.pc = "verifying", !.todo = Parts])
    IN  /\ workers[w].pc = "deleting" /\ k \in workers[w].todo
        /\ \/ objects' = objects \ {<<a, k>>} /\ answered(workers[w].broken) /\ UNCHANGED faults
           \/ Fault /\ objects' \in {objects, objects \ {<<a, k>>}} /\ answered(TRUE)
        /\ UNCHANGED <<profiles, devices, stale, uploads, horizon, manifests, flying>>

\* A HEAD that finds the file fails the pass.
Verify(w, k) ==
    LET a == workers[w].artifact
        left == workers[w].todo \ {k}
    IN  /\ workers[w].pc = "verifying" /\ k \in workers[w].todo
        /\ \/ /\ <<a, k>> \notin objects
              /\ Job(w, [workers[w] EXCEPT !.todo = left,
                                           !.pc = IF left = {} THEN "verified" ELSE @])
              /\ UNCHANGED faults
           \/ <<a, k>> \in objects /\ Job(w, [workers[w] EXCEPT !.pc = "failed"]) /\ UNCHANGED faults
           \/ Fault /\ Job(w, [workers[w] EXCEPT !.pc = "failed"])
        /\ UNCHANGED <<profiles, devices, stale, uploads, horizon, manifests, objects, flying>>

\* Mutant: the second pass may follow the first at once.
RecordedAtOnce(w) ==
    IF workers[w].phase = "first"
    THEN [state |-> "first_absent", due |-> 0, lease |-> None, leaseLeft |-> 0]
    ELSE NoRow

\* The row after a pass that found the files absent; NoRow after the second.
Recorded(w) ==
    IF workers[w].phase = "first"
    THEN [state |-> "first_absent", due |-> SecondPass, lease |-> None, leaseLeft |-> 0]
    ELSE NoRow

Expects(w) == IF workers[w].phase = "first" THEN "deletion_requested" ELSE "first_absent"

\* recordDeletionAbsence and confirmDeletion; a lost lease changes nothing.
Record(w) ==
    LET a == workers[w].artifact
        mine == Holds(w) /\ manifests[a].state = Expects(w)
        recorded == manifests' = IF mine THEN [manifests EXCEPT ![a] = Recorded(w)] ELSE manifests
    IN  /\ workers[w].pc = "verified"
        /\ \/ recorded /\ Job(w, Idle) /\ UNCHANGED faults
           \/ /\ Fault /\ Job(w, [workers[w] EXCEPT !.pc = "failed"])
              /\ recorded \/ UNCHANGED manifests
        /\ UNCHANGED <<profiles, devices, stale, uploads, horizon, objects, flying>>

Retry(w) ==
    LET a == workers[w].artifact
    IN  /\ workers[w].pc = "failed"
        /\ Job(w, Idle)
        /\ \/ /\ manifests' = IF Holds(w) /\ manifests[a].state \in Condemned
                              THEN [manifests EXCEPT ![a].due = RetryDelay, ![a].lease = None,
                                                     ![a].leaseLeft = 0]
                              ELSE manifests
              /\ UNCHANGED faults
           \/ Fault /\ UNCHANGED manifests
        /\ UNCHANGED <<profiles, devices, stale, uploads, horizon, objects, flying>>

CrashWorker(w) ==
    /\ Fault /\ workers[w].pc # "idle"
    /\ Job(w, Idle)
    /\ UNCHANGED <<profiles, devices, stale, uploads, horizon, manifests, objects, flying>>

-----------------------------------------------------------------------------

UploadStep(a) ==
    \/ StageUpload(a) \/ ReserveManifest(a) \/ StartPuts(a) \/ PutsAnswered(a) \/ GiveUp(a)
    \/ CommitDelivery(a) \/ CommitManifest(a) \/ CleanUp(a) \/ CrashUpload(a) \/ Invalidate(a)

WorkerStep(w) ==
    \/ Claim(w) \/ Record(w) \/ Retry(w) \/ CrashWorker(w)
    \/ \E k \in Parts : Delete(w, k) \/ Verify(w, k)

Next ==
    \/ \E a \in Artifacts : UploadStep(a)
    \/ \E f \in flying : Land(f)
    \/ \E p \in Profiles : Revise(p) \/ RevokeProfile(p) \/ BeginErasure(p) \/ Erase(p)
    \/ \E d \in Devices : RevokeDevice(d) \/ DeviceExpires(d)
    \/ \E w \in Workers : WorkerStep(w)
    \/ Tick

Spec == Init /\ [][Next]_vars

\* The clock runs, the cleanup timer fires, a pass goes on to its end, and
\* the lifecycle service takes a pending erasure up again.
Fairness ==
    /\ WF_vars(Tick)
    /\ \A w \in Workers : WF_vars(WorkerStep(w))
    /\ \A p \in Profiles : WF_vars(Erase(p))

FairSpec == Spec /\ Fairness

-----------------------------------------------------------------------------

RowType ==
    [state : {"none"} \cup Kept \cup Condemned, due : Nat, lease : Workers \cup {None},
     leaseLeft : 0..LeaseTime]

JobType ==
    [pc : {"idle", "deleting", "verifying", "verified", "failed"},
     artifact : Artifacts \cup {None}, phase : {"first", "second"},
     todo : SUBSET Parts, broken : BOOLEAN]

\* Types; a worker that is busy has an artifact, and a lease that counts has
\* a holder.
TypeOK ==
    /\ profiles \in [Profiles -> {"active", "revoked", "pending", "deleted"}]
    /\ devices \in [Devices -> {"current", "expired", "revoked"}]
    /\ stale \subseteq Artifacts
    /\ uploads \in [Artifacts -> {"none", "staged", "reserved", "writing", "written",
                                  "delivered", "cleaning", "done"}]
    /\ horizon \in [Artifacts -> 0..(UploadTtl + Settlement + LateBy)]
    /\ manifests \in [Artifacts -> RowType]
    /\ \A a \in Artifacts : manifests[a].leaseLeft > 0 => manifests[a].lease # None
    /\ objects \subseteq Artifacts \X Parts /\ flying \subseteq Artifacts \X Parts
    /\ workers \in [Workers -> JobType]
    /\ \A w \in Workers : workers[w].pc # "idle" => workers[w].artifact \in Artifacts
    /\ faults \in 0..MaxFaults

\* No file is forgotten: while one is in the store, or a PUT of it may still
\* land, the manifest that leads the deletion worker to it is there.
NoOrphan == \A f \in objects \cup flying : manifests[f[1]].state # "none"

\* When a profile counts as erased, none of its files is left, none can come,
\* and no manifest names it.
ErasedIsEmpty ==
    \A a \in Artifacts :
        profiles[ProfileOf(a)] = "deleted" =>
            /\ manifests[a].state = "none"
            /\ FilesOf(a) \cap (objects \cup flying) = {}

\* A manifest that says that its files may be read is right: all are stored.
ActiveIsStored == \A a \in Artifacts : manifests[a].state = "active" => FilesOf(a) \subseteq objects

\* Whatever upload was under way when a profile or a device was revoked, no
\* file of theirs is kept: every row is on its way out.
EndedIsCondemned ==
    \A a \in Artifacts :
        \/ profiles[ProfileOf(a)] # "active"
        \/ devices[DeviceOf[a]] = "revoked"
        => manifests[a].state \notin Kept

\* The end of a profile or a device is the end of its files, sooner or later.
EndedIsErased == ErasedIsEmpty /\ EndedIsCondemned

\* What is condemned goes, in spite of failures, crashes and late PUTs.
CondemnedGoes ==
    \A a \in Artifacts : manifests[a].state \in Condemned ~> manifests[a].state = "none"

\* An erasure that was begun ends.
ErasureEnds == \A p \in Profiles : profiles[p] = "pending" ~> profiles[p] = "deleted"

\* Deletion gets through: of each artifact, and so of a whole profile.
DeletionEnds == CondemnedGoes /\ ErasureEnds
=============================================================================
