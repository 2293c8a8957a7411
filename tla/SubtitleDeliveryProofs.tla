---------------------- MODULE SubtitleDeliveryProofs ----------------------
(***************************************************************************)
(* Proofs about SubtitleDelivery, for any numbers of artifacts, requests,  *)
(* readers and deletion workers, any quota and any bounds: type            *)
(* correctness; that the objects of an artifact are put by one request and *)
(* not deleted under a reader; that what is committed or given to a player *)
(* is, in that step, of the claim that stands; and that the profile is     *)
(* charged for what there is and its authority can always move on.         *)
(***************************************************************************)
EXTENDS SubtitleDelivery, FiniteSetTheorems, TLAPS

-----------------------------------------------------------------------------
(* The records of artifacts.                                                 *)

\* Past the stage of an upload.
Uploaded == {"uploading", "committed", "deleting", "deletion_claimed", "gone"}

\* A deadline is over only of work under way.
Punctual(rec) == rec.late => rec.state \in {"fetching", "uploading", "deletion_claimed"}

\* An ordinary change of an artifact: none comes back to a reservation once it was
\* staged, becomes committed, or is claimed for its deletion while it can be read.
Moves(x, y) ==
    /\ y \in ArtifactRecords /\ Punctual(y)
    /\ x.state \in Uploaded => y.state \in Uploaded
    /\ y.state = "committed" => x.state = "committed"
    /\ x.state \in {"committed", "deleting"} => y.state \in {"committed", "deleting"}

LEMMA FieldsTyped ==
    ASSUME NEW x \in ArtifactRecords
    PROVE  /\ x.state \in {"none", "reserved", "fetching", "uploading", "committed", "deleting",
                           "deletion_claimed", "gone"}
           /\ x.epoch \in 0..MaxEpoch /\ x.quota \in 0..Reserved
           /\ x.late \in BOOLEAN /\ x.requested \in BOOLEAN
BY DEF ArtifactRecords

LEMMA NothingTyped ==
    /\ NoArtifact \in ArtifactRecords /\ NoArtifact.state = "none" /\ ~NoArtifact.late
    /\ [NoArtifact EXCEPT !.state = "gone"] \in ArtifactRecords
    /\ [NoArtifact EXCEPT !.state = "gone"].state = "gone"
    /\ ~[NoArtifact EXCEPT !.state = "gone"].late
<1>1. 0 \in 0..MaxEpoch /\ 0 \in 0..Reserved
  BY BoundsAssumption, QuotaAssumption
<1>2. NoArtifact \in ArtifactRecords
  BY <1>1, Zenon DEF NoArtifact, ArtifactRecords
<1>3. [NoArtifact EXCEPT !.state = "gone"] \in ArtifactRecords
  BY <1>2, Zenon DEF ArtifactRecords
<1> QED BY <1>2, <1>3 DEF NoArtifact

LEMMA RefreshedMoves ==
    ASSUME NEW x \in ArtifactRecords
    PROVE  /\ Refreshed(x) \in ArtifactRecords
           /\ Refreshed(x).state = x.state /\ Refreshed(x).late = x.late
BY DEF Refreshed, ArtifactRecords

LEMMA CondemnedMoves ==
    ASSUME NEW x \in ArtifactRecords, NEW p \in {"none", "empty", "waiting", "first", "second"}
    PROVE  /\ Condemned(x, p) \in ArtifactRecords
           /\ Condemned(x, p).state = "deleting" /\ ~Condemned(x, p).late
BY DEF Condemned, ArtifactRecords

LEMMA MarkedMoves ==
    ASSUME NEW x \in ArtifactRecords, Punctual(x), x.state \in Active
    PROVE  Moves(x, Marked(x))
<1>1. CASE x.state \in {"reserved", "fetching"}
  BY <1>1, CondemnedMoves DEF Marked, Moves, Punctual, Uploaded
<1>2. CASE x.state = "uploading"
  BY <1>2 DEF Marked, ArtifactRecords, Moves, Punctual, Uploaded
<1>3. CASE x.state = "committed"
  BY <1>3, CondemnedMoves DEF Marked, Moves, Punctual, Uploaded
<1> QED BY <1>1, <1>2, <1>3 DEF Active

LEMMA FetchResetMoves ==
    ASSUME NEW x \in ArtifactRecords
    PROVE  /\ FetchReset(x) \in ArtifactRecords
           /\ FetchReset(x).state = "reserved" /\ ~FetchReset(x).late
           /\ x.state = "fetching" => Moves(x, FetchReset(x))
<1>1. FetchReset(x) \in ArtifactRecords
  BY DEF ArtifactRecords, FetchReset
<1>2. FetchReset(x).state = "reserved" /\ ~FetchReset(x).late
  BY DEF FetchReset, ArtifactRecords
<1> QED BY <1>1, <1>2 DEF Moves, Punctual, Uploaded

LEMMA RequeuedMoves ==
    ASSUME NEW x \in ArtifactRecords
    PROVE  /\ Requeued(x) \in ArtifactRecords
           /\ Requeued(x).state = "deleting" /\ ~Requeued(x).late
BY DEF Requeued, ArtifactRecords

LEMMA OverdueMoves ==
    ASSUME NEW x \in ArtifactRecords, Punctual(x)
    PROVE  Moves(x, Overdue(x))
<1>1. CASE ~x.late
  BY <1>1 DEF Overdue, Moves
<1>2. CASE x.late /\ x.state = "fetching"
  BY <1>2, FetchResetMoves DEF Overdue
<1>3. CASE x.late /\ x.state = "uploading"
  BY <1>3, CondemnedMoves DEF Overdue, Moves, Punctual, Uploaded
<1>4. CASE x.late /\ x.state = "deletion_claimed"
  BY <1>4, RequeuedMoves DEF Overdue, Moves, Punctual, Uploaded
<1> QED BY <1>1, <1>2, <1>3, <1>4 DEF Punctual

LEMMA PrunedMoves ==
    ASSUME NEW x \in ArtifactRecords, Punctual(x)
    PROVE  Moves(x, Pruned(x))
<1>1. Moves(x, Overdue(x)) /\ Overdue(x) \in ArtifactRecords /\ Punctual(Overdue(x))
  BY OverdueMoves DEF Moves
<1>2. PICK left : left = Overdue(x)
  OBVIOUS
<1>3. CASE left.state \in Active /\ ~left.requested /\ left.age # "fresh"
  BY <1>2, <1>3, <1>1, MarkedMoves DEF Pruned, Moves
<1>4. CASE ~(left.state \in Active /\ ~left.requested /\ left.age # "fresh")
  BY <1>1, <1>2, <1>4 DEF Pruned
<1> QED BY <1>3, <1>4

-----------------------------------------------------------------------------
(* One step, as each part of the state sees it.                              *)

Punctuality == \A a \in Artifacts : Punctual(artifacts[a])

LEMMA RecordsTyped ==
    ASSUME TypeOK, Punctuality, NEW a \in Artifacts
    PROVE  /\ artifacts[a] \in ArtifactRecords /\ Punctual(artifacts[a])
           /\ Moves(artifacts[a], artifacts[a])
BY DEF TypeOK, Punctuality, Moves

\* The two changes that are not ordinary: a commit, of the claim that stands, and the
\* claim of a deletion worker, when nobody reads.
Commits(a) ==
    /\ artifacts[a].state = "uploading" /\ artifacts'[a].state = "committed"
    /\ Authorized(artifacts[a].epoch)

Claims(a) ==
    /\ artifacts[a].state \in {"deleting", "deletion_claimed"}
    /\ artifacts'[a].state = "deletion_claimed"
    /\ Held(a) \subseteq Lapsed
    /\ UNCHANGED readers /\ \A k \in Readers : leases'[k] \in {leases[k], "none"}

ArtifactsTyped == artifacts' \in [Artifacts -> ArtifactRecords] /\ Punctuality'

ArtifactsMove ==
    /\ ArtifactsTyped
    /\ \A a \in Artifacts : Moves(artifacts[a], artifacts'[a]) \/ Commits(a) \/ Claims(a)

IndexTyped == listed' \subseteq Artifacts /\ discovered' \in [Epochs -> Artifacts \cup {None}]

Putting == {"manifest", "put", "commit"}

\* The request that stages an artifact is the one whose fetch it is.
Stages(r) ==
    /\ requests[r].pc = "stage" /\ requests'[r].artifact = requests[r].artifact
    /\ artifacts[requests[r].artifact].state = "fetching"
    /\ artifacts'[requests[r].artifact].state = "uploading"
    /\ \A s \in Requests : s # r => requests'[s] = requests[s]

RequestsTyped ==
    /\ requests' \in [Requests -> RequestStates]
    /\ \A r \in Requests :
          /\ requests'[r].pc \notin {"idle", "done"} => requests'[r].epoch \in Epochs
          /\ requests'[r].pc \in Working => requests'[r].artifact \in Artifacts

StillPutting(r) ==
    requests'[r].pc \in Putting =>
        requests[r].pc \in Putting /\ requests'[r].artifact = requests[r].artifact

RequestsMove ==
    RequestsTyped /\ \A r \in Requests : StillPutting(r) \/ Stages(r)

\* A lease is given on an artifact that is committed.
Leased(k) ==
    /\ readers'[k].artifact \in Artifacts
    /\ artifacts[readers'[k].artifact].state = "committed"
    /\ artifacts'[readers'[k].artifact].state = "committed"

ReadersTyped ==
    /\ readers' \in [Readers -> ReaderStates]
    /\ leases' \in [Readers -> {"none", "live", "lapsed"}]
    /\ \A k \in Readers :
          readers'[k].pc # "idle" \/ leases'[k] # "none" => readers'[k].artifact \in Artifacts

ReadersMove ==
    /\ ReadersTyped
    /\ \A k \in Readers :
          /\ leases'[k] = "live" =>
                \/ leases[k] = "live" /\ readers'[k].artifact = readers[k].artifact
                \/ Leased(k)
          /\ readers'[k].pc = "served" /\ readers[k].pc # "served" =>
                Authorized(artifacts[readers[k].artifact].epoch)

ChargedTyped == charged' \in [artifacts : Int, objects : Int, leases : Int]

ElseTyped ==
    /\ playback' \in [epoch : Epochs, claim : {"none", "stands", "ended"}]
    /\ authority' \in 0..MaxEpoch
    /\ sweeping' \in [Sweepers -> Artifacts \cup {None}]
    /\ faults' \in 0..MaxFaults

Step ==
    /\ ArtifactsMove /\ IndexTyped /\ RequestsMove /\ ReadersMove
    /\ ChargedTyped /\ ElseTyped

LEMMA StepTyped ==
    ASSUME Step
    PROVE  TypeOK' /\ Punctuality'
BY DEF Step, ArtifactsMove, ArtifactsTyped, IndexTyped, RequestsMove, RequestsTyped,
       ReadersMove, ReadersTyped, ChargedTyped, ElseTyped, TypeOK

(* What the scripts share. *)

LEMMA PutMoves ==
    ASSUME TypeOK, Punctuality, NEW a \in Artifacts, NEW x, Moves(artifacts[a], x), Put(a, x)
    PROVE  ArtifactsMove /\ artifacts'[a] = x
BY RecordsTyped DEF Moves, TypeOK, Put, ArtifactsMove, ArtifactsTyped, Punctuality

LEMMA KeepMoves ==
    ASSUME TypeOK, Punctuality, UNCHANGED artifacts
    PROVE  ArtifactsMove
BY RecordsTyped DEF ArtifactsMove, ArtifactsTyped, Punctuality, TypeOK

LEMMA IndexKept ==
    ASSUME TypeOK, UNCHANGED <<listed, discovered>>
    PROVE  IndexTyped
BY DEF TypeOK, IndexTyped

LEMMA UnlistTyped ==
    ASSUME TypeOK, NEW S, Unlist(S)
    PROVE  IndexTyped
BY DEF TypeOK, Unlist, IndexTyped

LEMMA MarkMoves ==
    ASSUME TypeOK, Punctuality, NEW S, MarkDeleting(S)
    PROVE  ArtifactsMove /\ IndexTyped
<1> DEFINE hit == {a \in S : Markable(a)}
<1>1. artifacts' = [a \in Artifacts |-> IF a \in hit THEN Marked(artifacts[a]) ELSE artifacts[a]]
      /\ Unlist(hit)
  BY DEF MarkDeleting
<1>2. ASSUME NEW a \in Artifacts
      PROVE  Moves(artifacts[a], artifacts'[a])
  <2>1. CASE a \in hit
    BY <2>1, RecordsTyped, MarkedMoves, <1>1 DEF Markable
  <2>2. CASE a \notin hit
    BY <1>1, <2>2, RecordsTyped
  <2> QED BY <2>1, <2>2
<1>3. ArtifactsMove
  BY <1>1, <1>2 DEF ArtifactsMove, ArtifactsTyped, Punctuality, Moves
<1> QED BY <1>1, <1>3, UnlistTyped

LEMMA AbortMoves ==
    ASSUME TypeOK, Punctuality, NEW a \in Artifacts, artifacts[a].state = "uploading",
           TerminalAbort(a)
    PROVE  ArtifactsMove /\ IndexTyped
BY RecordsTyped, CondemnedMoves, PutMoves, UnlistTyped
   DEF Moves, Punctual, Uploaded, TerminalAbort

LEMMA DropTyped ==
    ASSUME TypeOK, NEW S \in SUBSET Readers, Drop(S)
    PROVE  /\ ChargedTyped
           /\ leases' \in [Readers -> {"none", "live", "lapsed"}]
           /\ \A k \in Readers : leases'[k] = IF k \in S THEN "none" ELSE leases[k]
BY BoundsAssumption, FS_Subset, FS_CardinalityType DEF TypeOK, Drop, ChargedTyped

(* The local variables of the requests and of the readers. *)

LEMMA ProceedMoves ==
    ASSUME TypeOK, NEW r \in Requests, NEW pc, NEW a \in Artifacts \cup {None},
           pc \in {"reconcile", "reserve", "done"} \cup Working,
           pc # "done" => requests[r].pc \notin {"idle", "done"},
           pc \in Working => a \in Artifacts,
           Proceed(r, pc, a)
    PROVE  /\ RequestsTyped /\ requests'[r].pc = pc
           /\ pc # "done" => requests'[r].artifact = a
           /\ \A s \in Requests : s # r => requests'[s] = requests[s]
<1>1. requests[r] \in RequestStates /\ 0 \in 0..MaxEpoch
  BY BoundsAssumption DEF TypeOK
<1>2. PICK x : x = IF pc = "done" THEN [pc |-> pc, epoch |-> 0, artifact |-> None]
                   ELSE [requests[r] EXCEPT !.pc = pc, !.artifact = a]
  OBVIOUS
<1>3. /\ x \in RequestStates /\ x.pc = pc
      /\ pc # "done" => x.artifact = a /\ x.epoch = requests[r].epoch
  BY <1>1, <1>2 DEF RequestStates
<1>4. requests' = [requests EXCEPT ![r] = x]
  BY <1>2 DEF Proceed
<1>5. requests' \in [Requests -> RequestStates] /\ requests'[r] = x
      /\ \A s \in Requests : s # r => requests'[s] = requests[s]
  BY <1>3, <1>4 DEF TypeOK
<1>6. /\ pc \notin {"idle", "done"} => x.epoch \in Epochs
      /\ pc \in Working => x.artifact \in Artifacts
  BY <1>3 DEF TypeOK, Working
<1> QED BY <1>3, <1>5, <1>6 DEF TypeOK, RequestsTyped

\* A request that does not start to put.
LEMMA OnwardMoves ==
    ASSUME TypeOK, NEW r \in Requests, NEW pc, NEW a \in Artifacts \cup {None},
           pc \in {"reconcile", "reserve", "done"} \cup Working,
           pc # "done" => requests[r].pc \notin {"idle", "done"},
           pc \in Working => a \in Artifacts,
           pc \in Putting => requests[r].pc \in Putting /\ a = requests[r].artifact,
           Proceed(r, pc, a)
    PROVE  RequestsMove
BY ProceedMoves DEF StillPutting, Putting, RequestsMove

LEMMA GotoMoves ==
    ASSUME TypeOK, NEW r \in Requests, NEW pc,
           requests[r].pc \in Working, pc \in {"done"} \cup Working,
           pc \in Putting => requests[r].pc \in Putting,
           Goto(r, pc)
    PROVE  RequestsMove /\ UNCHANGED faults
BY OnwardMoves DEF TypeOK, Working, Goto

LEMMA FaultTyped ==
    ASSUME TypeOK, Fault
    PROVE  faults' \in 0..MaxFaults
BY BoundsAssumption DEF TypeOK, Fault

LEMMA RepliedMoves ==
    ASSUME TypeOK, NEW r \in Requests, NEW pc, NEW lost,
           requests[r].pc \in Working, pc \in {"done"} \cup Working, lost \in {"done"} \cup Working,
           pc \in Putting => requests[r].pc \in Putting, lost \notin Putting,
           Replied(r, pc, lost)
    PROVE  RequestsMove /\ faults' \in 0..MaxFaults
BY GotoMoves, OnwardMoves, FaultTyped DEF TypeOK, Working, Replied

LEMMA RequestsKept ==
    ASSUME TypeOK, UNCHANGED requests
    PROVE  RequestsMove
BY DEF StillPutting, TypeOK, RequestsMove, RequestsTyped

\* The step of a request leaves the readers alone.
LEMMA ElsewhereTyped ==
    ASSUME TypeOK, Elsewhere, authority' \in 0..MaxEpoch, faults' \in 0..MaxFaults
    PROVE  ReadersMove /\ ElseTyped
BY DEF TypeOK, Elsewhere, ReadersMove, ReadersTyped, ElseTyped

LEMMA ReadersKept ==
    ASSUME TypeOK, UNCHANGED readers,
           leases' \in [Readers -> {"none", "live", "lapsed"}],
           \A k \in Readers : leases'[k] # leases[k] => leases'[k] # "live" /\ leases[k] # "none"
    PROVE  ReadersMove
BY DEF TypeOK, ReadersMove, ReadersTyped

LEMMA ChargedKept ==
    ASSUME TypeOK, UNCHANGED charged
    PROVE  ChargedTyped
BY DEF TypeOK, ChargedTyped

LEMMA ChargedFields ==
    /\ TypeOK => /\ charged \in [artifacts : Int, objects : Int, leases : Int]
                 /\ charged.artifacts \in Int /\ charged.objects \in Int /\ charged.leases \in Int
    /\ \A n, m, l \in Int :
          [artifacts |-> n, objects |-> m, leases |-> l]
              \in [artifacts : Int, objects : Int, leases : Int]
BY DEF TypeOK

\* The counters of artifacts and objects are moved.
LEMMA ChargedMoved ==
    ASSUME TypeOK, NEW n \in Int, NEW m \in Int,
           charged' = [charged EXCEPT !.artifacts = n, !.objects = m]
    PROVE  ChargedTyped
BY DEF TypeOK, ChargedTyped

-----------------------------------------------------------------------------
(* The requests.                                                             *)

LEMMA ReadClaimStep ==
    ASSUME TypeOK, Punctuality, NEW r \in Requests, ReadClaim(r)
    PROVE  Step
<1>1. ArtifactsMove /\ IndexTyped /\ ChargedTyped /\ ReadersMove /\ ElseTyped
  BY KeepMoves, IndexKept, ChargedKept, ElsewhereTyped DEF ReadClaim, redis, TypeOK
<1>2. RequestsMove
  <2>1. PICK x : x = [requests[r] EXCEPT !.pc = "reconcile", !.epoch = playback.epoch]
    OBVIOUS
  <2>2. requests[r] \in RequestStates /\ playback.epoch \in Epochs
    BY DEF TypeOK
  <2>3. playback.epoch \in 0..MaxEpoch
    BY <2>2, BoundsAssumption DEF Epochs
  <2>4. x \in RequestStates /\ x.pc = "reconcile" /\ x.epoch \in Epochs
    BY <2>1, <2>2, <2>3 DEF RequestStates
  <2>5. requests' = [requests EXCEPT ![r] = x]
    BY <2>1 DEF ReadClaim, TypeOK
  <2>6. requests' \in [Requests -> RequestStates] /\ requests'[r] = x
        /\ \A s \in Requests : s # r => requests'[s] = requests[s]
    BY <2>4, <2>5 DEF TypeOK
  <2> QED BY <2>4, <2>6
          DEF TypeOK, RequestsMove, RequestsTyped, StillPutting, Putting, Working
<1> QED BY <1>1, <1>2 DEF Step

LEMMA ReconcileStep ==
    ASSUME TypeOK, Punctuality, NEW r \in Requests, ReconcileAuthority(r)
    PROVE  Step
<1> DEFINE e == requests[r].epoch
<1>1. requests[r].pc = "reconcile" /\ e \in Epochs /\ e \in 0..MaxEpoch /\ Elsewhere
      /\ requests[r].artifact \in Artifacts \cup {None}
  BY BoundsAssumption DEF ReconcileAuthority, TypeOK, Epochs, RequestStates
<1>2. CASE Goto(r, "done") /\ UNCHANGED redis
  <2>1. RequestsMove /\ UNCHANGED faults
    BY <1>1, <1>2, OnwardMoves DEF Goto, Putting, Working
  <2>2. UNCHANGED <<authority, artifacts, listed, discovered, charged>>
    BY <1>2 DEF redis
  <2>3. authority' \in 0..MaxEpoch /\ faults' \in 0..MaxFaults
    BY <2>1, <2>2 DEF TypeOK
  <2> QED BY <1>1, <2>1, <2>2, <2>3, KeepMoves, IndexKept, ChargedKept, ElsewhereTyped DEF Step
<1>3. CASE /\ Replied(r, "reserve", "done") /\ authority' = e
           /\ IF authority = e THEN Keep ELSE MarkDeleting(listed)
           /\ UNCHANGED charged
  <2>1. RequestsMove /\ faults' \in 0..MaxFaults
    BY <1>1, OnwardMoves, FaultTyped, <1>3 DEF Goto, Putting, Working, TypeOK, Replied
  <2>2. ArtifactsMove /\ IndexTyped
    BY KeepMoves, IndexKept, MarkMoves, <1>3 DEF Keep
  <2> QED BY <1>1, <1>3, <2>1, <2>2, ChargedKept, ElsewhereTyped DEF Step
<1> QED BY <1>2, <1>3 DEF ReconcileAuthority

LEMMA ReserveAgainStep ==
    ASSUME TypeOK, Punctuality, NEW r \in Requests, requests[r].pc = "reserve",
           NEW a \in Artifacts, ReserveAgain(r, a), Elsewhere
    PROVE  Step
<1>1. requests[r].artifact \in Artifacts \cup {None}
  BY DEF TypeOK, RequestStates
<1>2. authority' \in 0..MaxEpoch
  BY DEF ReserveAgain, redis, TypeOK
<1>3. ASSUME Goto(r, "done")
      PROVE  RequestsMove /\ faults' \in 0..MaxFaults
  BY <1>1, <1>3, OnwardMoves DEF Goto, Putting, Working, TypeOK
<1>4. CASE Goto(r, "done") /\ UNCHANGED redis
  BY <1>4, <1>2, <1>3, KeepMoves, IndexKept, ChargedKept, ElsewhereTyped DEF redis, Step
<1>5. CASE MarkDeleting({a}) /\ Goto(r, "done") /\ UNCHANGED <<authority, charged>>
  BY <1>2, <1>3, <1>5, MarkMoves, ChargedKept, ElsewhereTyped DEF Step
<1>6. CASE /\ Put(a, IF artifacts[a].state = "reserved"
                     THEN [Refreshed(artifacts[a]) EXCEPT !.reserver = r]
                     ELSE Refreshed(artifacts[a]))
           /\ \/ /\ Proceed(r, IF artifacts[a].state = "committed" THEN "done" ELSE "begin", a)
                 /\ UNCHANGED faults
              \/ Proceed(r, "done", a) /\ Fault
           /\ UNCHANGED <<authority, listed, discovered, charged>>
  <2>1. PICK y : y = Refreshed(artifacts[a])
    OBVIOUS
  <2>2. y \in ArtifactRecords /\ y.state = artifacts[a].state /\ y.late = artifacts[a].late
    BY <2>1, RefreshedMoves, RecordsTyped
  <2>3. [y EXCEPT !.reserver = r] \in ArtifactRecords
    BY <2>2, Zenon DEF ArtifactRecords
  <2>4. [y EXCEPT !.reserver = r].state = y.state /\ [y EXCEPT !.reserver = r].late = y.late
    BY <2>2 DEF ArtifactRecords
  <2>5. PICK x : x = IF artifacts[a].state = "reserved" THEN [y EXCEPT !.reserver = r] ELSE y
    OBVIOUS
  <2>6. x \in ArtifactRecords /\ x.state = artifacts[a].state /\ x.late = artifacts[a].late
    BY <2>2, <2>3, <2>4, <2>5
  <2>7. Moves(artifacts[a], x)
    BY <2>6, RecordsTyped DEF Moves, Punctual
  <2>8. ArtifactsMove
    BY <1>6, <2>1, <2>5, <2>7, PutMoves
  <2>9. RequestsMove /\ faults' \in 0..MaxFaults
    BY <1>6, OnwardMoves, FaultTyped DEF Putting, Working, TypeOK
  <2> QED BY <1>2, <1>6, <2>8, <2>9, IndexKept, ChargedKept, ElsewhereTyped DEF Step
<1> QED BY <1>4, <1>5, <1>6 DEF ReserveAgain

LEMMA ReserveNewStep ==
    ASSUME TypeOK, Punctuality, NEW r \in Requests, requests[r].pc = "reserve",
           NEW a \in Artifacts, ReserveNew(r, a), Elsewhere
    PROVE  Step
<1> DEFINE e == requests[r].epoch
<1>1. e \in Epochs /\ e \in 0..MaxEpoch /\ Reserved \in 0..Reserved
  BY BoundsAssumption, QuotaAssumption DEF TypeOK, Epochs
<1>2. PICK x : x = [NoArtifact EXCEPT !.state = "reserved", !.epoch = e, !.quota = Reserved,
                                      !.reserver = r]
  OBVIOUS
<1>3. x \in ArtifactRecords
  BY <1>1, <1>2, NothingTyped, Zenon DEF ArtifactRecords
<1>4. x.state = "reserved" /\ ~x.late
  BY <1>2 DEF NoArtifact
<1>5. ArtifactsMove
  BY <1>2, NothingTyped, <1>3, <1>4, PutMoves DEF ReserveNew, Moves, Punctual, Uploaded
<1>6. IndexTyped
  BY <1>1 DEF ReserveNew, IndexTyped, TypeOK
<1>7. ChargedTyped
  <2>1. charged.artifacts + 1 \in Int /\ charged.objects + Reserved \in Int
    BY QuotaAssumption, ChargedFields
  <2>2. charged' = [charged EXCEPT !.artifacts = charged.artifacts + 1,
                                   !.objects = charged.objects + Reserved]
    BY DEF ReserveNew
  <2> QED BY <2>1, <2>2, ChargedMoved
<1>8. RequestsMove /\ faults' \in 0..MaxFaults
  BY OnwardMoves, FaultTyped DEF Putting, Working, TypeOK, ReserveNew
<1>9. authority' \in 0..MaxEpoch
  BY DEF ReserveNew, TypeOK
<1> QED BY <1>5, <1>6, <1>7, <1>8, <1>9, ElsewhereTyped DEF Step

LEMMA ReserveStep ==
    ASSUME TypeOK, Punctuality, NEW r \in Requests, Reserve(r)
    PROVE  Step
<1>1. requests[r].pc = "reserve" /\ Elsewhere /\ requests[r].epoch \in Epochs
      /\ requests[r].artifact \in Artifacts \cup {None}
  BY DEF Reserve, TypeOK, RequestStates
<1>2. CASE Goto(r, "done") /\ UNCHANGED redis
  <2>1. RequestsMove /\ UNCHANGED faults
    BY <1>1, <1>2, OnwardMoves DEF Goto, Putting, Working
  <2>2. UNCHANGED <<authority, artifacts, listed, discovered, charged>>
    BY <1>2 DEF redis
  <2>3. authority' \in 0..MaxEpoch /\ faults' \in 0..MaxFaults
    BY <2>1, <2>2 DEF TypeOK
  <2> QED BY <1>1, <2>1, <2>2, <2>3, KeepMoves, IndexKept, ChargedKept, ElsewhereTyped DEF Step
<1>3. CASE discovered[requests[r].epoch] # None
           /\ ReserveAgain(r, discovered[requests[r].epoch])
  BY <1>1, <1>3, ReserveAgainStep DEF TypeOK
<1>4. CASE \E a \in Artifacts : ReserveNew(r, a)
  BY <1>1, <1>4, ReserveNewStep
<1> QED BY <1>2, <1>3, <1>4 DEF Reserve

LEMMA WorkingFields ==
    ASSUME TypeOK, Punctuality, NEW r \in Requests, requests[r].pc \in Working
    PROVE  /\ requests[r].artifact \in Artifacts
           /\ artifacts[requests[r].artifact] \in ArtifactRecords
           /\ Punctual(artifacts[requests[r].artifact])
           /\ Moves(artifacts[requests[r].artifact], artifacts[requests[r].artifact])
BY RecordsTyped DEF TypeOK

\* A step that writes, at most, an artifact and the indexes.
LEMMA RequestStep ==
    ASSUME TypeOK, RequestsMove, faults' \in 0..MaxFaults, ArtifactsMove, IndexTyped,
           UNCHANGED <<authority, charged>>, Elsewhere
    PROVE  Step
BY ChargedKept, ElsewhereTyped DEF TypeOK, Step

LEMMA BeginFetchStep ==
    ASSUME TypeOK, Punctuality, NEW r \in Requests, BeginFetch(r)
    PROVE  Step
<1> DEFINE a == requests[r].artifact
           rec == artifacts[a]
           open == rec.state \in Active /\ ~rec.requested /\ Authorized(requests[r].epoch)
<1>1. /\ requests[r].pc \in Working /\ requests[r].pc = "begin"
      /\ UNCHANGED <<authority, charged>> /\ Elsewhere
  BY DEF BeginFetch, Working
<1>2. a \in Artifacts /\ rec \in ArtifactRecords /\ Punctual(rec) /\ Moves(rec, rec)
  BY <1>1, WorkingFields
<1>3. ASSUME NEW pc \in {"done", "cancel"}, Goto(r, pc)
      PROVE  RequestsMove /\ faults' \in 0..MaxFaults
  BY <1>1, <1>3, GotoMoves DEF Working, Putting, TypeOK
<1>4. CASE (Goto(r, "done") \/ Goto(r, "cancel")) /\ Keep
  BY <1>4, KeepMoves, IndexKept, <1>1, <1>3, RequestStep DEF Keep
<1>5. CASE /\ Put(a, IF rec.state = "fetching" THEN FetchReset(rec) ELSE rec)
           /\ Goto(r, "cancel") /\ UNCHANGED <<listed, discovered>>
  BY <1>2, FetchResetMoves, <1>5, PutMoves, IndexKept, <1>1, <1>3, RequestStep
<1>6. CASE /\ open /\ rec.state # "committed" /\ ~FetchBusy(rec)
           /\ Put(a, [Refreshed(rec) EXCEPT !.state = "fetching", !.fetcher = r, !.late = FALSE,
                     !.fenced = IF rec.state = "fetching" THEN rec.fetcher ELSE rec.fenced])
           /\ Replied(r, "source", "cancel") /\ UNCHANGED <<listed, discovered>>
  <2>1. rec.state \in {"reserved", "fetching"}
    BY <1>6 DEF Active, FetchBusy
  <2>2. PICK y : y = Refreshed(rec)
    OBVIOUS
  <2>3. PICK f : f = IF rec.state = "fetching" THEN rec.fetcher ELSE rec.fenced
    OBVIOUS
  <2>4. y \in ArtifactRecords /\ f \in Requests \cup {None}
    BY <1>2, <2>2, <2>3, RefreshedMoves DEF ArtifactRecords
  <2>5. PICK x : x = [y EXCEPT !.state = "fetching", !.fetcher = r, !.late = FALSE, !.fenced = f]
    OBVIOUS
  <2>6. x \in ArtifactRecords
    BY <2>4, <2>5, Zenon DEF ArtifactRecords
  <2>7. x.state = "fetching" /\ ~x.late
    BY <2>4, <2>5 DEF ArtifactRecords
  <2>8. Put(a, x)
    BY <1>6, <2>2, <2>3, <2>5
  <2>9. Moves(rec, x)
    BY <2>1, <2>6, <2>7 DEF Moves, Punctual, Uploaded
  <2>10. ArtifactsMove /\ IndexTyped
    BY <1>2, <1>6, <2>8, <2>9, PutMoves, IndexKept
  <2>11. RequestsMove /\ faults' \in 0..MaxFaults
    BY <1>1, <1>6, RepliedMoves DEF Working, Putting
  <2> QED BY <1>1, <2>10, <2>11, RequestStep
<1> QED BY <1>4, <1>5, <1>6 DEF BeginFetch

\* A call elsewhere, that is answered or not.
LEMMA CallStep ==
    ASSUME TypeOK, Punctuality, NEW r \in Requests,
           FetchSource(r) \/ ReserveManifest(r) \/ PutObjects(r)
    PROVE  Step
<1>1. UNCHANGED redis /\ Elsewhere
  BY DEF FetchSource, ReserveManifest, PutObjects
<1>2. UNCHANGED <<authority, artifacts, listed, discovered, charged>>
  BY <1>1 DEF redis
<1>3. RequestsMove /\ UNCHANGED faults
  BY GotoMoves DEF FetchSource, Working, Putting, ReserveManifest, PutObjects
<1>4. faults' \in 0..MaxFaults
  BY <1>3 DEF TypeOK
<1> QED BY <1>1, <1>2, <1>3, <1>4, KeepMoves, IndexKept, RequestStep

LEMMA StageStep ==
    ASSUME TypeOK, Punctuality, NEW r \in Requests, NEW n \in 1..Reserved, Stage(r, n)
    PROVE  Step
<1> DEFINE a == requests[r].artifact
           rec == artifacts[a]
           owned == rec.state = "fetching" /\ rec.fetcher = r
<1>1. /\ requests[r].pc \in Working /\ requests[r].pc = "stage"
      /\ UNCHANGED authority /\ Elsewhere
  BY DEF Stage, Working
<1>2. a \in Artifacts /\ rec \in ArtifactRecords /\ Punctual(rec) /\ Moves(rec, rec)
  BY <1>1, WorkingFields
<1>3. ASSUME Goto(r, "abort_stage")
      PROVE  RequestsMove /\ faults' \in 0..MaxFaults
  BY <1>1, <1>3, GotoMoves DEF Working, Putting, TypeOK
<1>4. CASE /\ Goto(r, "abort_stage")
           /\ Put(a, IF owned THEN FetchReset(rec) ELSE rec)
           /\ UNCHANGED <<listed, discovered, charged>>
  BY <1>2, FetchResetMoves, <1>4, PutMoves, IndexKept, <1>1, <1>3, RequestStep
<1>5. CASE Goto(r, "abort_stage") /\ MarkDeleting({a}) /\ UNCHANGED charged
  BY <1>1, <1>3, <1>5, MarkMoves, RequestStep
<1>6. CASE Goto(r, "abort_stage") /\ Keep /\ UNCHANGED charged
  BY <1>6, KeepMoves, IndexKept, <1>1, <1>3, RequestStep DEF Keep
<1>7. CASE /\ owned
           /\ Replied(r, "manifest", "abort_stage")
           /\ Put(a, [Refreshed(rec) EXCEPT !.state = "uploading", !.quota = n,
                          !.reserver = None, !.settling = TRUE])
           /\ charged' = [charged EXCEPT !.objects = @ - (rec.quota - n)]
           /\ UNCHANGED <<listed, discovered>>
  <2>1. PICK y : y = Refreshed(rec)
    OBVIOUS
  <2>2. y \in ArtifactRecords /\ y.late = rec.late /\ n \in 0..Reserved
    BY <1>2, <2>1, RefreshedMoves, QuotaAssumption
  <2>3. PICK x : x = [y EXCEPT !.state = "uploading", !.quota = n,
                          !.reserver = None, !.settling = TRUE]
    OBVIOUS
  <2>4. x \in ArtifactRecords
    BY <2>2, <2>3, Zenon DEF ArtifactRecords
  <2>5. x.state = "uploading" /\ x.late = rec.late
    BY <2>2, <2>3 DEF ArtifactRecords
  <2>6. Put(a, x)
    BY <1>7, <2>1, <2>3
  <2>7. Moves(rec, x)
    BY <1>7, <2>4, <2>5 DEF Moves, Punctual, Uploaded
  <2>8. ArtifactsMove /\ artifacts'[a].state = "uploading"
    BY <1>2, <2>5, <2>6, <2>7, PutMoves
  <2>9. RequestsMove /\ faults' \in 0..MaxFaults
    <3>1. CASE Goto(r, "manifest")
      <4>1. a \in Artifacts \cup {None} /\ Proceed(r, "manifest", a) /\ UNCHANGED faults
        BY <1>2, <3>1 DEF Goto
      <4>2. /\ RequestsTyped /\ requests'[r].artifact = a
            /\ \A s \in Requests : s # r => requests'[s] = requests[s]
        BY <1>1, <1>2, <4>1, ProceedMoves DEF Working
      <4>3. Stages(r)
        BY <1>1, <1>7, <2>8, <4>2 DEF Stages
      <4>4. \A s \in Requests : StillPutting(s) \/ Stages(s)
        BY <4>2, <4>3 DEF StillPutting
      <4> QED BY <4>1, <4>2, <4>4 DEF RequestsMove, TypeOK
    <3>2. CASE Proceed(r, "abort_stage", a) /\ Fault
      BY <1>1, <1>2, <3>2, OnwardMoves, FaultTyped DEF Working, Putting
    <3> QED BY <1>7, <3>1, <3>2 DEF Replied
  <2>10. ChargedTyped
    BY <1>2, FieldsTyped, ChargedFields, QuotaAssumption, <1>7 DEF ChargedTyped
  <2>11. IndexTyped /\ authority' \in 0..MaxEpoch
    BY <1>1, <1>7, IndexKept DEF TypeOK
  <2> QED BY <1>1, <2>8, <2>9, <2>10, <2>11, ElsewhereTyped DEF Step
<1> QED BY <1>4, <1>5, <1>6, <1>7 DEF Stage

LEMMA CommitStep ==
    ASSUME TypeOK, Punctuality, NEW r \in Requests, Commit(r)
    PROVE  Step
<1> DEFINE a == requests[r].artifact
           rec == artifacts[a]
<1>1. /\ requests[r].pc \in Working /\ requests[r].pc = "commit"
      /\ UNCHANGED <<authority, charged>> /\ Elsewhere
  BY DEF Commit, Working
<1>2. a \in Artifacts /\ rec \in ArtifactRecords /\ Punctual(rec)
  BY <1>1, WorkingFields
<1>3. ASSUME Goto(r, "abort")
      PROVE  RequestsMove /\ faults' \in 0..MaxFaults
  BY <1>1, <1>3, GotoMoves DEF Working, Putting, TypeOK
<1>4. CASE Goto(r, "abort") /\ Keep
  BY <1>4, KeepMoves, IndexKept, <1>1, <1>3, RequestStep DEF Keep
<1>5. CASE rec.state = "uploading" /\ Goto(r, "abort") /\ TerminalAbort(a)
  BY <1>1, <1>2, <1>3, <1>5, AbortMoves, RequestStep
<1>6. CASE /\ rec.state = "uploading" /\ ~rec.late /\ Authorized(rec.epoch)
           /\ Replied(r, "durable", "abort")
           /\ Put(a, [Refreshed(rec) EXCEPT !.state = "committed"])
           /\ UNCHANGED <<listed, discovered>>
  <2>1. PICK y : y = Refreshed(rec)
    OBVIOUS
  <2>2. y \in ArtifactRecords /\ y.late = rec.late
    BY <1>2, <2>1, RefreshedMoves
  <2>3. PICK x : x = [y EXCEPT !.state = "committed"]
    OBVIOUS
  <2>4. x \in ArtifactRecords
    BY <2>2, <2>3, Zenon DEF ArtifactRecords
  <2>5. x.state = "committed" /\ x.late = rec.late
    BY <2>2, <2>3 DEF ArtifactRecords
  <2>6. artifacts' = [artifacts EXCEPT ![a] = x]
    BY <1>6, <2>1, <2>3 DEF Put
  <2>7. /\ artifacts' \in [Artifacts -> ArtifactRecords] /\ artifacts'[a] = x
        /\ \A b \in Artifacts : b # a => artifacts'[b] = artifacts[b]
    BY <1>2, <2>4, <2>6 DEF TypeOK
  <2>8. Punctual(x) /\ Commits(a)
    BY <1>6, <2>5, <2>7 DEF Punctual, Commits
  <2>9. \A b \in Artifacts :
            Punctual(artifacts'[b]) /\ (Moves(artifacts[b], artifacts'[b]) \/ Commits(b))
    BY <2>7, <2>8, RecordsTyped
  <2>10. ArtifactsMove
    BY <2>7, <2>9 DEF ArtifactsMove, ArtifactsTyped, Punctuality
  <2>11. RequestsMove /\ faults' \in 0..MaxFaults
    BY <1>1, <1>6, RepliedMoves DEF Working, Putting
  <2>12. IndexTyped
    BY <1>6, IndexKept
  <2> QED BY <1>1, <2>10, <2>11, <2>12, RequestStep
<1> QED BY <1>4, <1>5, <1>6 DEF Commit

LEMMA CommitManifestStep ==
    ASSUME TypeOK, Punctuality, NEW r \in Requests, CommitManifest(r)
    PROVE  Step
<1>1. /\ requests[r].pc \in Working /\ requests[r].pc = "durable" /\ Goto(r, "done")
      /\ UNCHANGED <<authority, charged>> /\ Elsewhere
  BY DEF CommitManifest, Working
<1>2. RequestsMove /\ faults' \in 0..MaxFaults
  BY <1>1, GotoMoves DEF Working, Putting, TypeOK
<1>3. ArtifactsMove /\ IndexTyped
  BY KeepMoves, IndexKept, MarkMoves DEF Keep, CommitManifest
<1> QED BY <1>1, <1>2, <1>3, RequestStep

LEMMA AbortUploadStep ==
    ASSUME TypeOK, Punctuality, NEW r \in Requests, AbortUpload(r)
    PROVE  Step
<1>1. /\ requests[r].pc \in Working
      /\ Goto(r, IF requests[r].pc = "abort" THEN "done" ELSE "cancel")
      /\ UNCHANGED <<authority, charged>> /\ Elsewhere
  BY DEF AbortUpload, Working
<1>2. RequestsMove /\ faults' \in 0..MaxFaults
  BY <1>1, GotoMoves DEF Working, Putting, TypeOK
<1>3. ArtifactsMove /\ IndexTyped
  BY KeepMoves, IndexKept, <1>1, WorkingFields, AbortMoves DEF Keep, AbortUpload
<1> QED BY <1>1, <1>2, <1>3, RequestStep

LEMMA GoneMoves ==
    ASSUME NEW x, x.state \notin {"committed", "deleting"}
    PROVE  Moves(x, [NoArtifact EXCEPT !.state = "gone"])
BY NothingTyped DEF Moves, Punctual, Uploaded

LEMMA CancelStep ==
    ASSUME TypeOK, Punctuality, NEW r \in Requests, Cancel(r)
    PROVE  Step
<1> DEFINE a == requests[r].artifact
           rec == artifacts[a]
<1>1. /\ requests[r].pc \in Working /\ requests[r].pc = "cancel"
      /\ UNCHANGED authority /\ Elsewhere
  BY DEF Cancel, Working
<1>2. a \in Artifacts /\ rec \in ArtifactRecords
  BY <1>1, WorkingFields
<1>3. CASE /\ Cancelable(r, rec)
           /\ Put(a, [NoArtifact EXCEPT !.state = "gone"]) /\ Unlist({a})
           /\ charged' = [charged EXCEPT !.artifacts = @ - 1, !.objects = @ - GivenBack(rec)]
           /\ Replied(r, "done", "release")
  <2>1. rec.state \in {"reserved", "fetching"}
    BY <1>3 DEF Cancelable
  <2>2. ArtifactsMove /\ IndexTyped
    BY <1>2, <1>3, <2>1, GoneMoves, PutMoves, UnlistTyped
  <2>3. RequestsMove /\ faults' \in 0..MaxFaults
    BY <1>1, <1>3, RepliedMoves DEF Working, Putting
  <2>4. ChargedTyped
    <3>1. rec.quota \in Int
      BY <1>2, FieldsTyped, QuotaAssumption
    <3>2. charged.artifacts - 1 \in Int /\ charged.objects - GivenBack(rec) \in Int
      BY <3>1, ChargedFields DEF GivenBack
    <3> QED BY <1>3, <3>2, ChargedMoved
  <2>5. authority' \in 0..MaxEpoch
    BY <1>1 DEF TypeOK
  <2> QED BY <1>1, <2>2, <2>3, <2>4, <2>5, ElsewhereTyped DEF Step
<1>4. CASE Goto(r, "release") /\ Keep /\ UNCHANGED charged
  BY <1>4, KeepMoves, IndexKept, <1>1, GotoMoves, RequestStep DEF Keep, Working, Putting, TypeOK
<1> QED BY <1>3, <1>4 DEF Cancel

LEMMA ReleaseFetchStep ==
    ASSUME TypeOK, Punctuality, NEW r \in Requests, ReleaseFetch(r)
    PROVE  Step
<1> DEFINE a == requests[r].artifact
           rec == artifacts[a]
<1>1. /\ requests[r].pc \in Working /\ requests[r].pc = "release" /\ Goto(r, "done")
      /\ Put(a, IF rec.state = "fetching" /\ rec.fetcher = r THEN FetchReset(rec) ELSE rec)
      /\ UNCHANGED <<authority, listed, discovered, charged>> /\ Elsewhere
  BY DEF ReleaseFetch, Working
<1>2. a \in Artifacts /\ rec \in ArtifactRecords /\ Punctual(rec) /\ Moves(rec, rec)
  BY <1>1, WorkingFields
<1>3. Moves(rec, IF rec.state = "fetching" /\ rec.fetcher = r THEN FetchReset(rec) ELSE rec)
  BY <1>2, FetchResetMoves
<1>4. ArtifactsMove /\ IndexTyped
  BY <1>1, <1>2, <1>3, PutMoves, IndexKept
<1>5. RequestsMove /\ faults' \in 0..MaxFaults
  BY <1>1, GotoMoves DEF Working, Putting, TypeOK
<1> QED BY <1>1, <1>4, <1>5, RequestStep

LEMMA CrashStep ==
    ASSUME TypeOK, Punctuality, NEW r \in Requests, Crash(r)
    PROVE  Step
BY OnwardMoves, FaultTyped, KeepMoves, IndexKept, RequestStep DEF Crash, redis, Working, Putting

LEMMA RequestSteps ==
    ASSUME TypeOK, Punctuality, NEW r \in Requests, Request(r)
    PROVE  Step
BY ReadClaimStep, ReconcileStep, ReserveStep, BeginFetchStep, CallStep, StageStep, CommitStep,
   CommitManifestStep, AbortUploadStep, CancelStep, ReleaseFetchStep, CrashStep DEF Request

-----------------------------------------------------------------------------
(* The readers.                                                              *)

LEMMA ReaderFields ==
    ASSUME TypeOK, NEW k \in Readers
    PROVE  /\ readers[k] \in ReaderStates /\ leases[k] \in {"none", "live", "lapsed"}
           /\ readers[k].pc # "idle" \/ leases[k] # "none" => readers[k].artifact \in Artifacts
BY DEF TypeOK

LEMMA DropKeeps ==
    ASSUME TypeOK, NEW S \in SUBSET Readers, Drop(S), UNCHANGED readers
    PROVE  ChargedTyped /\ ReadersMove
BY DropTyped, ReadersKept

\* Reader k goes on at pc, with the artifact it had, and leases are taken away.
LEMMA ReaderMoves ==
    ASSUME TypeOK, NEW k \in Readers, NEW pc \in {"idle", "reading", "releasing", "served"},
           readers' = [readers EXCEPT ![k].pc = pc],
           pc \notin {"idle", "served"} => readers[k].pc # "idle",
           pc = "served" => readers[k].pc # "idle"
                            /\ Authorized(artifacts[readers[k].artifact].epoch),
           leases' \in [Readers -> {"none", "live", "lapsed"}],
           \A j \in Readers : leases'[j] \in {leases[j], "none"}
    PROVE  ReadersMove
<1>1. PICK x : x = [readers[k] EXCEPT !.pc = pc]
  OBVIOUS
<1>2. x \in ReaderStates /\ x.pc = pc /\ x.artifact = readers[k].artifact
  BY <1>1, ReaderFields DEF ReaderStates
<1>3. readers' = [readers EXCEPT ![k] = x]
  BY <1>1 DEF TypeOK
<1>4. /\ readers' \in [Readers -> ReaderStates] /\ readers'[k] = x
      /\ \A j \in Readers : j # k => readers'[j] = readers[j]
  BY <1>2, <1>3 DEF TypeOK
<1>5. ASSUME NEW j \in Readers
      PROVE  /\ readers'[j].artifact = readers[j].artifact
             /\ readers'[j].pc # "idle" \/ leases'[j] # "none" => readers'[j].artifact \in Artifacts
             /\ leases'[j] = "live" => leases[j] = "live"
             /\ readers'[j].pc = "served" /\ readers[j].pc # "served"
                  => Authorized(artifacts[readers[j].artifact].epoch)
  BY <1>2, <1>4, ReaderFields
<1> QED BY <1>4, <1>5 DEF ReadersMove, ReadersTyped

LEMMA ReaderStep ==
    ASSUME TypeOK, ArtifactsMove, IndexTyped, ReadersMove, ChargedTyped, Idle,
           faults' \in 0..MaxFaults
    PROVE  Step
BY RequestsKept DEF Idle, TypeOK, ElseTyped, Step

LEMMA AuthorizeStep ==
    ASSUME TypeOK, Punctuality, NEW k \in Readers, NEW a \in Artifacts, Authorize(k, a)
    PROVE  Step
<1> DEFINE rec == artifacts[a]
           kept == [j \in Readers |-> IF j \in Lapsed THEN "none" ELSE leases[j]]
           left == charged.leases - Cardinality(Lapsed)
<1>1. /\ leases[k] # "live" /\ rec.state = "committed" /\ Idle /\ UNCHANGED faults
      /\ faults' \in 0..MaxFaults /\ Lapsed \in SUBSET Readers
  BY DEF Authorize, Lapsed, TypeOK
<1>2. CASE MarkDeleting({a}) /\ Drop(Lapsed) /\ UNCHANGED readers
  BY <1>1, <1>2, MarkMoves, DropKeeps, ReaderStep
<1>3. CASE /\ Put(a, Refreshed(rec))
           /\ readers' = [readers EXCEPT ![k] = [pc |-> "reading", artifact |-> a]]
           /\ leases' = [kept EXCEPT ![k] = "live"]
           /\ charged' = [charged EXCEPT !.leases = left + 1]
           /\ UNCHANGED <<listed, discovered>>
  <2>1. PICK x : x = Refreshed(rec)
    OBVIOUS
  <2>2. x \in ArtifactRecords /\ x.state = "committed" /\ x.late = rec.late
    BY <1>1, <2>1, RefreshedMoves, RecordsTyped
  <2>3. Moves(rec, x)
    BY <1>1, <2>2, RecordsTyped DEF Moves, Punctual
  <2>4. ArtifactsMove /\ artifacts'[a].state = "committed" /\ IndexTyped
    BY <1>3, <2>1, <2>2, <2>3, PutMoves, IndexKept
  <2>5. ReadersMove
    BY <1>3, <1>1, <2>4, ReaderFields DEF ReaderStates, TypeOK, Leased, ReadersMove, ReadersTyped
  <2>6. ChargedTyped
    BY <1>1, BoundsAssumption, FS_Subset, FS_CardinalityType, <1>3, ChargedFields DEF ChargedTyped
  <2> QED BY <1>1, <2>4, <2>5, <2>6, ReaderStep
<1> QED BY <1>2, <1>3 DEF Authorize

LEMMA RevalidateStep ==
    ASSUME TypeOK, Punctuality, NEW k \in Readers, Revalidate(k)
    PROVE  Step
<1> DEFINE a == readers[k].artifact
<1>1. /\ readers[k].pc = "reading" /\ Idle /\ faults' \in 0..MaxFaults
      /\ a \in Artifacts /\ LapsedOn(a) \in SUBSET Readers
      /\ (LapsedOn(a) \cup {k}) \in SUBSET Readers
  BY ReaderFields DEF Revalidate, Lapsed, LapsedOn, TypeOK
<1>2. CASE readers' = [readers EXCEPT ![k].pc = "releasing"] /\ Drop(LapsedOn(a)) /\ Keep
  BY <1>1, <1>2, DropTyped, ReaderMoves, KeepMoves, IndexKept, ReaderStep DEF Keep
<1>3. CASE /\ StillGood(a)
           /\ readers' = [readers EXCEPT ![k].pc = "served"]
           /\ Put(a, Refreshed(artifacts[a]))
           /\ Drop(LapsedOn(a)) /\ UNCHANGED <<listed, discovered>>
  <2>1. ChargedTyped /\ leases' \in [Readers -> {"none", "live", "lapsed"}]
        /\ \A j \in Readers : leases'[j] \in {leases[j], "none"}
    BY <1>1, <1>3, DropTyped
  <2>2. ReadersMove
    BY <1>1, <1>3, <2>1, ReaderMoves DEF StillGood
  <2>3. PICK x : x = Refreshed(artifacts[a])
    OBVIOUS
  <2>4. x \in ArtifactRecords /\ x.state = artifacts[a].state /\ x.late = artifacts[a].late
    BY <1>1, <2>3, RefreshedMoves, RecordsTyped
  <2>5. Moves(artifacts[a], x)
    BY <1>1, <2>4, RecordsTyped DEF Moves, Punctual
  <2>6. ArtifactsMove /\ IndexTyped
    BY <1>1, <1>3, <2>3, <2>5, PutMoves, IndexKept
  <2> QED BY <1>1, <2>1, <2>2, <2>6, ReaderStep
<1>4. CASE /\ readers' = [readers EXCEPT ![k].pc = "releasing"]
           /\ Drop(LapsedOn(a) \cup {k}) /\ MarkDeleting({a})
  BY <1>1, <1>4, DropTyped, ReaderMoves, MarkMoves, ReaderStep
<1> QED BY <1>2, <1>3, <1>4 DEF Revalidate

LEMMA ReleaseLeaseStep ==
    ASSUME TypeOK, Punctuality, NEW k \in Readers, ReleaseLease(k)
    PROVE  Step
<1>1. readers' = [readers EXCEPT ![k].pc = "idle"] /\ Keep /\ Idle
  BY DEF ReleaseLease
<1>2. ArtifactsMove /\ IndexTyped
  BY <1>1, KeepMoves, IndexKept DEF Keep
<1>3. CASE Drop({k} \ {j \in Readers : leases[j] = "none"}) /\ UNCHANGED faults
  BY <1>3, DropTyped, <1>1, ReaderMoves, <1>2, ReaderStep DEF TypeOK
<1>4. CASE Fault /\ UNCHANGED <<leases, charged>>
  BY <1>1, <1>4, ReaderMoves, <1>2, FaultTyped, ChargedKept, ReaderStep DEF TypeOK
<1> QED BY <1>3, <1>4 DEF ReleaseLease

-----------------------------------------------------------------------------
(* Invalidation, expiry and deletion.                                        *)

LEMMA QuietStep ==
    ASSUME TypeOK, ArtifactsMove, IndexTyped, ReadersMove, ChargedTyped, UNCHANGED <<requests, faults>>,
           playback' \in [epoch : Epochs, claim : {"none", "stands", "ended"}],
           UNCHANGED authority, sweeping' \in [Sweepers -> Artifacts \cup {None}]
    PROVE  Step
BY RequestsKept DEF TypeOK, ElseTyped, Step

\* Steps that leave the playback, the deletion workers and the counters alone.
LEMMA ArtifactStep ==
    ASSUME TypeOK, ArtifactsMove, IndexTyped,
           UNCHANGED <<playback, authority, charged, leases, sweeping>>, Quiet
    PROVE  Step
BY ReadersKept, QuietStep, ChargedKept DEF Quiet, TypeOK

LEMMA PlaybackStep ==
    ASSUME TypeOK, Punctuality, InvalidatePlayback \/ ClaimSession \/ EndClaim
    PROVE  Step
<1>1. UNCHANGED <<authority, artifacts, listed, discovered, charged, leases, sweeping>> /\ Quiet
  BY DEF InvalidatePlayback, ClaimSession, EndClaim, redis
<1>2. playback \in [epoch : Epochs, claim : {"none", "stands", "ended"}] /\ playback.epoch \in Epochs
  BY DEF TypeOK
<1>3. playback' \in [epoch : Epochs, claim : {"none", "stands", "ended"}]
  <2>1. CASE InvalidatePlayback
    BY <1>2, <2>1, BoundsAssumption DEF InvalidatePlayback, Epochs
  <2>2. CASE ClaimSession
    BY <1>2, <2>2 DEF ClaimSession
  <2>3. CASE EndClaim
    BY <1>2, <2>3 DEF EndClaim
  <2> QED BY <2>1, <2>2, <2>3
<1>4. ReadersMove /\ sweeping' \in [Sweepers -> Artifacts \cup {None}]
  BY <1>1, ReadersKept DEF Quiet, TypeOK
<1> QED BY <1>1, <1>3, <1>4, KeepMoves, IndexKept, ChargedKept, QuietStep DEF Quiet

LEMMA InvalidateStep ==
    ASSUME TypeOK, Punctuality, InvalidateProfile \/ \E e \in Epochs : InvalidateRelease(e)
    PROVE  Step
BY MarkMoves, ArtifactStep DEF InvalidateProfile, InvalidateRelease

LEMMA PassingStep ==
    ASSUME TypeOK, Punctuality, NEW a \in Artifacts, Passing(a)
    PROVE  Step
<1> DEFINE rec == artifacts[a]
<1>1. rec \in ArtifactRecords /\ Punctual(rec)
  BY RecordsTyped
<1>2. UNCHANGED <<playback, authority, listed, discovered, charged, leases, sweeping>> /\ Quiet
  BY DEF Passing, PassDeadline, Expire, Settle
<1>3. ASSUME NEW x \in ArtifactRecords, x.state = rec.state, Punctual(x), Put(a, x)
      PROVE  Step
  BY <1>3, <1>2, PutMoves, IndexKept, ArtifactStep DEF Moves
<1>4. CASE PassDeadline(a)
  BY <1>1, <1>3, <1>4 DEF ArtifactRecords, PassDeadline, Punctual
<1>5. ASSUME NEW age \in {"stale", "dead"}, Expire(a, age)
      PROVE  Step
  <2>1. PICK late : late = (rec.late \/ (age = "dead" /\ rec.state \in {"fetching", "uploading"}))
    OBVIOUS
  <2>2. late \in BOOLEAN
    BY <1>1, <2>1, FieldsTyped
  <2>3. PICK x : x = [rec EXCEPT !.age = age, !.late = late]
    OBVIOUS
  <2>4. x \in ArtifactRecords
    BY <1>1, <2>2, <2>3, Zenon DEF ArtifactRecords
  <2>5. x.state = rec.state /\ x.late = late
    BY <1>1, <2>3 DEF ArtifactRecords
  <2>6. Punctual(x)
    BY <1>1, <2>1, <2>5 DEF Punctual
  <2>7. Put(a, x)
    BY <1>1, <1>5, <2>1, <2>3 DEF Expire, ArtifactRecords
  <2> QED BY <1>3, <2>4, <2>5, <2>6, <2>7
<1>6. CASE Settle(a)
  BY <1>1, <1>3, <1>6 DEF ArtifactRecords, Settle, Punctual
<1> QED BY <1>4, <1>5, <1>6 DEF Passing

LEMMA LapseStep ==
    ASSUME TypeOK, Punctuality, NEW k \in Readers, LapseLease(k)
    PROVE  Step
BY ReadersKept, KeepMoves, IndexKept, ChargedKept, QuietStep DEF LapseLease, redis, Quiet, TypeOK

LEMMA PruneStep ==
    ASSUME TypeOK, Punctuality, Prune
    PROVE  Step
<1>1. artifacts' = [a \in Artifacts |-> Pruned(artifacts[a])]
  BY DEF Prune
<1>2. \A a \in Artifacts : Moves(artifacts[a], artifacts'[a])
  BY <1>1, RecordsTyped, PrunedMoves
<1>3. ArtifactsMove
  BY <1>1, <1>2 DEF ArtifactsMove, ArtifactsTyped, Punctuality, Moves
<1>4. IndexTyped
  BY UnlistTyped DEF Prune
<1>5. ChargedTyped /\ ReadersMove
  BY DropKeeps DEF Prune, Quiet, Lapsed
<1>6. /\ playback' \in [epoch : Epochs, claim : {"none", "stands", "ended"}]
      /\ sweeping' \in [Sweepers -> Artifacts \cup {None}]
      /\ UNCHANGED <<authority, requests, faults>>
  BY DEF Prune, Quiet, TypeOK
<1> QED BY <1>3, <1>4, <1>5, <1>6, QuietStep

LEMMA ClaimDeletionStep ==
    ASSUME TypeOK, Punctuality, NEW w \in Sweepers, NEW a \in Artifacts, ClaimDeletion(w, a)
    PROVE  Step
<1>1. PICK put : put = [b \in Artifacts |-> IF artifacts[b].state = "deletion_claimed"
                                            THEN Overdue(artifacts[b]) ELSE artifacts[b]]
  OBVIOUS
<1>2. /\ Deletable(a) /\ artifacts' = [put EXCEPT ![a].state = "deletion_claimed", ![a].holder = w]
      /\ Drop(Lapsed) /\ sweeping' = [sweeping EXCEPT ![w] = a]
      /\ UNCHANGED <<playback, authority, listed, discovered>> /\ Quiet
  BY <1>1 DEF ClaimDeletion
<1>3. \A b \in Artifacts : Moves(artifacts[b], put[b])
  BY <1>1, RecordsTyped, OverdueMoves
<1>4. put[a] \in ArtifactRecords
  BY <1>3 DEF Moves
<1>5. PICK x : x = [put[a] EXCEPT !.state = "deletion_claimed", !.holder = w]
  OBVIOUS
<1>6. x \in ArtifactRecords
  BY <1>4, <1>5, Zenon DEF ArtifactRecords
<1>7. x.state = "deletion_claimed"
  BY <1>4, <1>5 DEF ArtifactRecords
<1>8. artifacts' = [put EXCEPT ![a] = x]
  BY <1>1, <1>2, <1>5
<1>9. DOMAIN put = Artifacts
  BY <1>1
<1>10. artifacts'[a] = x /\ \A b \in Artifacts : b # a => artifacts'[b] = put[b]
  BY <1>1, <1>8
<1>11. ArtifactsTyped
  BY <1>3, <1>6, <1>7, <1>10, <1>1, <1>8 DEF Moves, Punctual, ArtifactsTyped, Punctuality
<1>12. Claims(a)
  BY <1>2, DropTyped, <1>7, <1>10 DEF Deletable, Due, Lapsed, Claims, Quiet
<1>13. ArtifactsMove
  BY <1>3, <1>10, <1>11, <1>12 DEF ArtifactsMove
<1>14. ChargedTyped /\ ReadersMove
  BY <1>2, DropKeeps DEF Quiet, Lapsed
<1>15. /\ playback' \in [epoch : Epochs, claim : {"none", "stands", "ended"}]
       /\ sweeping' \in [Sweepers -> Artifacts \cup {None}]
  BY <1>2 DEF TypeOK
<1> QED BY <1>2, <1>13, <1>14, <1>15, IndexKept, QuietStep DEF Quiet

LEMMA SweepStep ==
    ASSUME TypeOK, Punctuality, NEW w \in Sweepers, Sweep(w)
    PROVE  Step
<1> DEFINE a == sweeping[w]
           rec == artifacts[a]
           again == Requeued(rec)
<1>1. /\ a \in Artifacts /\ sweeping' \in [Sweepers -> Artifacts \cup {None}]
      /\ UNCHANGED <<playback, authority, requests, readers>>
  BY DEF Sweep, TypeOK
<1>2. rec \in ArtifactRecords /\ Punctual(rec) /\ Moves(rec, rec)
  BY <1>1, RecordsTyped
<1>3. again \in ArtifactRecords /\ again.state = "deleting" /\ ~again.late
  BY <1>2, RequeuedMoves
<1>4. Holds(w, a) => Moves(rec, again)
  BY <1>3 DEF Holds, Moves, Punctual, Uploaded
<1>5. ASSUME ArtifactsMove, IndexTyped, ReadersMove, ChargedTyped, faults' \in 0..MaxFaults
      PROVE  Step
  BY <1>1, <1>5, RequestsKept DEF TypeOK, ElseTyped, Step
<1>6. ASSUME UNCHANGED leases
      PROVE  ReadersMove
  BY <1>1, <1>6, ReadersKept DEF TypeOK
<1>7. CASE Keep /\ UNCHANGED <<leases, charged, faults>>
  BY <1>7, KeepMoves, IndexKept, <1>5, <1>6, ChargedKept DEF Keep, TypeOK
<1>8. CASE /\ Holds(w, a) /\ Put(a, again)
           /\ UNCHANGED <<listed, discovered, leases, charged, faults>>
  BY <1>1, <1>4, <1>8, PutMoves, IndexKept, <1>5, <1>6, ChargedKept DEF TypeOK
<1>9. CASE /\ Holds(w, a) /\ Put(a, [again EXCEPT !.phase = "second"])
           /\ UNCHANGED <<listed, discovered, leases, charged, faults>>
  <2>1. PICK y : y = again
    OBVIOUS
  <2>2. PICK x : x = [y EXCEPT !.phase = "second"]
    OBVIOUS
  <2>3. x \in ArtifactRecords
    BY <1>3, <2>1, <2>2, Zenon DEF ArtifactRecords
  <2>4. x.state = "deleting" /\ ~x.late
    BY <1>3, <2>1, <2>2 DEF ArtifactRecords
  <2>5. Moves(rec, x)
    BY <1>9, <2>3, <2>4 DEF Holds, Moves, Punctual, Uploaded
  <2>6. ArtifactsMove /\ IndexTyped /\ faults' \in 0..MaxFaults
    BY <1>1, <1>9, <2>1, <2>2, <2>5, PutMoves, IndexKept DEF TypeOK
  <2> QED BY <1>5, <1>6, <1>9, <2>6, ChargedKept
<1>10. CASE /\ Holds(w, a) /\ Put(a, [NoArtifact EXCEPT !.state = "gone"]) /\ Unlist({a})
            /\ leases' = [k \in Readers |-> IF k \in Held(a) THEN "none" ELSE leases[k]]
            /\ charged' = [artifacts |-> charged.artifacts - 1,
                           objects |-> charged.objects - GivenBack(rec),
                           leases |-> charged.leases - Cardinality(Held(a))]
            /\ UNCHANGED faults
  <2>1. ArtifactsMove
    BY <1>1, <1>10, GoneMoves, PutMoves DEF Holds
  <2>2. IndexTyped
    BY <1>10, UnlistTyped
  <2>3. ReadersMove
    BY <1>1, <1>10, ReadersKept DEF TypeOK, Held
  <2>4. ChargedTyped
    <3>1. Cardinality(Held(a)) \in Int
      BY BoundsAssumption, FS_Subset, FS_CardinalityType DEF Held
    <3>2. GivenBack(rec) \in Int
      BY <1>2, FieldsTyped, QuotaAssumption DEF GivenBack
    <3>3. /\ charged.artifacts - 1 \in Int /\ charged.objects - GivenBack(rec) \in Int
          /\ charged.leases - Cardinality(Held(a)) \in Int
      BY <3>1, <3>2, ChargedFields
    <3> QED BY <1>10, <3>3, ChargedFields DEF ChargedTyped
  <2>5. faults' \in 0..MaxFaults
    BY <1>10 DEF TypeOK
  <2> QED BY <1>5, <2>1, <2>2, <2>3, <2>4, <2>5
<1>11. CASE /\ Fault /\ UNCHANGED <<listed, discovered, leases, charged>>
            /\ \/ Put(a, IF Holds(w, a) THEN again ELSE rec)
               \/ UNCHANGED artifacts
  <2>1. Moves(rec, IF Holds(w, a) THEN again ELSE rec)
    BY <1>2, <1>4
  <2>2. ArtifactsMove /\ IndexTyped
    BY <1>1, <1>11, <2>1, PutMoves, KeepMoves, IndexKept
  <2> QED BY <1>5, <1>6, <1>11, <2>2, FaultTyped, ChargedKept
<1> QED BY <1>7, <1>8, <1>9, <1>10, <1>11 DEF Sweep

LEMMA NextStep ==
    ASSUME TypeOK, Punctuality, [Next]_vars
    PROVE  Step
<1>1. CASE UNCHANGED vars
  BY <1>1, KeepMoves, IndexKept, ArtifactStep DEF vars, Quiet
<1>2. ASSUME NEW k \in Readers, Read(k) \/ LapseLease(k)
      PROVE  Step
  BY <1>2, AuthorizeStep, RevalidateStep, ReleaseLeaseStep, LapseStep DEF Read
<1>3. ASSUME NEW w \in Sweepers, Sweep(w) \/ \E a \in Artifacts : ClaimDeletion(w, a)
      PROVE  Step
  BY <1>3, SweepStep, ClaimDeletionStep
<1> QED BY <1>1, <1>2, <1>3, RequestSteps, PlaybackStep, InvalidateStep, PassingStep, PruneStep
        DEF Next

-----------------------------------------------------------------------------
(* The invariants.                                                           *)

\* What is put was staged.
StagedInv ==
    \A r \in Requests : requests[r].pc \in Putting =>
        artifacts[requests[r].artifact].state \in Uploaded

AloneInv ==
    \A r, s \in Requests :
        /\ requests[r].pc \in Putting /\ requests[s].pc \in Putting
        /\ requests[r].artifact = requests[s].artifact
        => r = s

\* The inductive invariant: an artifact is staged once, by whom it is put.
IInv == TypeOK /\ Punctuality /\ StagedInv /\ AloneInv /\ ReadersHoldDeletion

LEMMA InitIInv == Init => IInv
<1> SUFFICES ASSUME Init PROVE IInv
  OBVIOUS
<1>1. 1 \in Epochs /\ 0 \in 0..MaxEpoch /\ 0 \in 0..MaxFaults
  BY BoundsAssumption DEF Epochs
<1>2. /\ \A r \in Requests : /\ requests[r] = [pc |-> "idle", epoch |-> 0, artifact |-> None]
                             /\ requests[r].pc = "idle"
      /\ \A k \in Readers : readers[k].pc = "idle" /\ leases[k] = "none"
      /\ \A a \in Artifacts : artifacts[a] = NoArtifact
  BY DEF Init
<1>3. /\ requests \in [Requests -> RequestStates] /\ readers \in [Readers -> ReaderStates]
      /\ artifacts \in [Artifacts -> ArtifactRecords]
  BY <1>1, NothingTyped DEF Init, RequestStates, ReaderStates
<1>4. TypeOK
  BY <1>1, <1>2, <1>3 DEF Init, TypeOK, Working
<1>5. Punctuality /\ StagedInv /\ AloneInv /\ ReadersHoldDeletion
  BY <1>2, NothingTyped
     DEF Punctuality, Punctual, StagedInv, AloneInv, ReadersHoldDeletion, Putting
<1> QED BY <1>4, <1>5 DEF IInv

LEMMA NextStaged ==
    ASSUME IInv, Step
    PROVE  StagedInv'
<1> SUFFICES ASSUME NEW r \in Requests, requests'[r].pc \in Putting
             PROVE  artifacts'[requests'[r].artifact].state \in Uploaded
  BY DEF StagedInv, Putting
<1>1. CASE Stages(r)
  BY <1>1 DEF Stages, Uploaded
<1>2. CASE StillPutting(r)
  <2>1. requests[r].pc \in Putting /\ requests'[r].artifact = requests[r].artifact
    BY <1>2 DEF StillPutting
  <2>2. PICK a \in Artifacts : a = requests[r].artifact
    BY <2>1 DEF IInv, TypeOK, Putting, Working
  <2>3. artifacts[a].state \in Uploaded
    BY <2>1, <2>2 DEF IInv, StagedInv
  <2>4. artifacts'[a].state \in Uploaded
    BY <2>3 DEF Step, ArtifactsMove, Moves, Commits, Claims, Uploaded
  <2> QED BY <2>1, <2>2, <2>4
<1> QED BY <1>1, <1>2 DEF Step, RequestsMove

LEMMA NextAlone ==
    ASSUME IInv, Step
    PROVE  AloneInv'
<1>1. ASSUME NEW r \in Requests, NEW s \in Requests, r # s, Stages(r),
             requests'[s].pc \in Putting, requests'[r].artifact = requests'[s].artifact
      PROVE  FALSE
  BY <1>1 DEF Stages, IInv, StagedInv, Uploaded
<1>2. ASSUME NEW r \in Requests, NEW s \in Requests,
             requests'[r].pc \in Putting, requests'[s].pc \in Putting,
             requests'[r].artifact = requests'[s].artifact
      PROVE  r = s
  BY <1>2, <1>1 DEF IInv, AloneInv, StillPutting, Step, RequestsMove
<1> QED BY <1>2 DEF AloneInv, Putting

LEMMA NextHeld ==
    ASSUME IInv, Step
    PROVE  ReadersHoldDeletion'
<1> SUFFICES ASSUME NEW k \in Readers, leases'[k] = "live"
             PROVE  artifacts'[readers'[k].artifact].state \in {"committed", "deleting"}
  BY DEF ReadersHoldDeletion
<1>1. CASE Leased(k)
  BY <1>1 DEF Leased
<1>2. CASE leases[k] = "live" /\ readers'[k].artifact = readers[k].artifact
  <2>1. PICK a \in Artifacts : a = readers[k].artifact
    BY <1>2 DEF IInv, TypeOK
  <2>2. artifacts[a].state \in {"committed", "deleting"}
    BY <1>2, <2>1 DEF IInv, ReadersHoldDeletion
  <2>3. ~Claims(a)
    BY <1>2, <2>1 DEF Held, Lapsed, Claims
  <2>4. artifacts'[a].state \in {"committed", "deleting"}
    BY <2>2, <2>3 DEF Step, ArtifactsMove, Moves, Commits
  <2> QED BY <1>2, <2>1, <2>4
<1> QED BY <1>1, <1>2 DEF Step, ReadersMove

LEMMA NextIInv ==
    ASSUME IInv, [Next]_vars
    PROVE  IInv'
BY NextStep, StepTyped, NextStaged, NextAlone, NextHeld DEF IInv

\* The inductive invariant holds.
THEOREM Delivery == Spec => []IInv
BY InitIInv, NextIInv, PTL DEF Spec

\* Type correctness, and that a request has the epoch and the artifact of its step.
THEOREM TypeCorrect == Spec => []TypeOK
<1>1. IInv => TypeOK
  BY DEF IInv
<1> QED BY <1>1, Delivery, PTL

LEMMA AtMostOne ==
    ASSUME NEW S, \A x, y \in S : x = y
    PROVE  Cardinality(S) <= 1
<1>1. CASE S = {}
  BY <1>1, FS_EmptySet
<1>2. CASE S # {}
  BY <1>2, FS_Singleton
<1> QED BY <1>1, <1>2

\* The objects of an artifact are put by one request, and not deleted under a reader.
THEOREM ObjectsHeldCorrect == Spec => []ObjectsHeld
<1>1. IInv => ObjectsHeld
  <2> SUFFICES ASSUME IInv PROVE ObjectsHeld
    OBVIOUS
  <2>1. ASSUME NEW a \in Artifacts
        PROVE  Cardinality({r \in Requests : requests[r].artifact = a
                              /\ requests[r].pc \in {"manifest", "put", "commit"}}) <= 1
    <3> DEFINE S == {r \in Requests : requests[r].artifact = a
                        /\ requests[r].pc \in {"manifest", "put", "commit"}}
    <3>1. \A r, s \in S : r = s
      BY DEF IInv, AloneInv, Putting
    <3> HIDE DEF S
    <3> QED BY <3>1, AtMostOne DEF S
  <2> QED BY <2>1 DEF ObjectsHeld, UploadsNeverOverlap, IInv
<1> QED BY <1>1, Delivery, PTL

\* What is committed or given to a player belongs, in that step, to the claim that
\* stands.
THEOREM CurrentCorrect == Spec => DeliveredIsCurrent
<1> DEFINE Current ==
      /\ \A a \in Artifacts :
            artifacts'[a].state = "committed" /\ artifacts[a].state # "committed"
              => Authorized(artifacts[a].epoch)
      /\ \A k \in Readers :
            readers'[k].pc = "served" /\ readers[k].pc # "served"
              => Authorized(artifacts[readers[k].artifact].epoch)
<1>1. IInv /\ [Next]_vars => [Current]_vars
  BY NextStep DEF IInv, Step, ArtifactsMove, Moves, Commits, Claims, ReadersMove
<1> QED BY <1>1, Delivery, PTL DEF Spec, DeliveredIsCurrent

-----------------------------------------------------------------------------
(* The books: what is listed, discovered and charged.                        *)

\* What the index lists.
Open(x) == x.state \in Active /\ ~x.requested

\* What the profile is not charged for.
Void(x) == x.state \in {"none", "gone"}

\* The fields of an artifact go with its state, as the preflight demands of a listed one.
Sound(x) ==
    /\ x.state \in {"reserved", "fetching"} => x.quota = Reserved /\ x.reserver # None
    /\ x.state \in Active => x.quota >= 1 /\ ((x.fetcher = None) <=> (x.state = "reserved"))
    /\ Open(x) => x.phase = "none"

SoundInv == \A a \in Artifacts : Sound(artifacts[a])

\* The index lists what is open, all of it under the authority, each found from its
\* epoch; and an epoch leads nowhere else.
IndexInv ==
    /\ listed = {a \in Artifacts : Open(artifacts[a])}
    /\ \A a \in listed :
          authority \in Epochs /\ artifacts[a].epoch = authority /\ discovered[authority] = a
    /\ \A e \in Epochs : discovered[e] # None => discovered[e] \in listed /\ e = authority

ChargesInv ==
    /\ IsFiniteSet(Charging)
    /\ charged.artifacts = Cardinality(Charging)
    /\ charged.objects = Cardinality(Objects(Charging))

Books == SoundInv /\ IndexInv /\ ChargesInv

Holders == {k \in Readers : leases[k] # "none"}

LeasesInv == charged.leases = Cardinality(Holders)

\* A change of an artifact that leaves the charges alone and lists nothing.
Tends(x, y) ==
    /\ Sound(y) /\ y.quota = x.quota /\ (Void(y) <=> Void(x))
    /\ Open(y) => Open(x) /\ y.epoch = x.epoch

LEMMA TendsSelf ==
    ASSUME NEW x, Sound(x)
    PROVE  Tends(x, x)
BY DEF Tends

LEMMA RefreshedFields ==
    ASSUME NEW x \in ArtifactRecords
    PROVE  /\ Refreshed(x).state = x.state /\ Refreshed(x).epoch = x.epoch
           /\ Refreshed(x).quota = x.quota /\ Refreshed(x).reserver = x.reserver
           /\ Refreshed(x).fetcher = x.fetcher /\ Refreshed(x).requested = x.requested
           /\ Refreshed(x).phase = x.phase
BY DEF Refreshed, ArtifactRecords

LEMMA RefreshedTends ==
    ASSUME NEW x \in ArtifactRecords, Sound(x)
    PROVE  Tends(x, Refreshed(x)) /\ (Open(x) => Open(Refreshed(x)))
BY RefreshedFields DEF Tends, Sound, Open, Void

LEMMA CondemnedTends ==
    ASSUME NEW x \in ArtifactRecords, NEW p, ~Void(x)
    PROVE  Tends(x, Condemned(x, p)) /\ ~Open(Condemned(x, p)) /\ Condemned(x, p).requested
BY DEF Condemned, ArtifactRecords, Tends, Sound, Open, Void, Active

LEMMA MarkedTends ==
    ASSUME NEW x \in ArtifactRecords, Sound(x), x.state \in Active
    PROVE  Tends(x, Marked(x)) /\ ~Open(Marked(x)) /\ Marked(x).requested
<1>1. ~Void(x)
  BY DEF Void, Active
<1>2. CASE x.state \in {"reserved", "fetching"}
  BY <1>2, <1>1, CondemnedTends DEF Marked
<1>3. CASE x.state = "uploading"
  BY <1>3 DEF Marked, ArtifactRecords, Tends, Sound, Open, Void, Active
<1>4. CASE x.state = "committed"
  BY <1>4, <1>1, CondemnedTends DEF Marked
<1> QED BY <1>2, <1>3, <1>4 DEF Active

LEMMA FetchResetTends ==
    ASSUME NEW x \in ArtifactRecords, Sound(x), x.state = "fetching"
    PROVE  Tends(x, FetchReset(x)) /\ (Open(x) => Open(FetchReset(x)))
BY DEF FetchReset, ArtifactRecords, Sound, Active, Tends, Open, Void

LEMMA RequeuedTends ==
    ASSUME NEW x \in ArtifactRecords, ~Void(x)
    PROVE  Tends(x, Requeued(x)) /\ ~Open(Requeued(x))
BY DEF Requeued, ArtifactRecords, Tends, Sound, Open, Void, Active

LEMMA OverdueTends ==
    ASSUME NEW x \in ArtifactRecords, Punctual(x), Sound(x)
    PROVE  Tends(x, Overdue(x)) /\ (Open(x) => Open(Overdue(x)) \/ Overdue(x).requested)
<1>1. CASE ~x.late
  BY <1>1, TendsSelf DEF Overdue
<1>2. CASE x.late /\ x.state = "fetching"
  BY <1>2, FetchResetTends DEF Overdue
<1>3. CASE x.late /\ x.state = "uploading"
  BY <1>3, CondemnedTends DEF Overdue, Void
<1>4. CASE x.late /\ x.state = "deletion_claimed"
  BY <1>4, RequeuedTends DEF Overdue, Void, Open, Active
<1> QED BY <1>1, <1>2, <1>3, <1>4 DEF Punctual

LEMMA TendsTwice ==
    ASSUME NEW x, NEW y, NEW z, Tends(x, y), Tends(y, z)
    PROVE  Tends(x, z)
BY DEF Tends

LEMMA PrunedTends ==
    ASSUME NEW x \in ArtifactRecords, Punctual(x), Sound(x)
    PROVE  /\ Tends(x, Pruned(x)) /\ (Open(x) => Open(Pruned(x)) \/ Pruned(x).requested)
<1>1. PICK left : left = Overdue(x)
  OBVIOUS
<1>2. /\ left \in ArtifactRecords /\ Tends(x, left) /\ Sound(left)
      /\ Open(x) => Open(left) \/ left.requested
  BY <1>1, OverdueTends, OverdueMoves DEF Moves, Tends
<1>3. CASE left.state \in Active /\ ~left.requested /\ left.age # "fresh"
  BY <1>1, <1>3, <1>2, MarkedTends, TendsTwice DEF Pruned
<1>4. CASE ~(left.state \in Active /\ ~left.requested /\ left.age # "fresh")
  BY <1>1, <1>2, <1>4 DEF Pruned
<1> QED BY <1>3, <1>4

LEMMA NothingSound ==
    LET gone == [NoArtifact EXCEPT !.state = "gone"]
    IN /\ Sound(NoArtifact) /\ ~Open(NoArtifact) /\ Void(NoArtifact)
       /\ Sound(gone) /\ ~Open(gone) /\ Void(gone)
BY DEF NoArtifact, Sound, Open, Void, Active

(* What is charged. *)

\* The objects of S, as the quotas q have it.
Heap(q, S) == {x \in S \X (1..Reserved) : x[2] <= q[x[1]]}

Quotas == [a \in Artifacts |-> artifacts[a].quota]

LEMMA ObjectsAreHeap ==
    ASSUME NEW S \in SUBSET Artifacts
    PROVE  Objects(S) = Heap(Quotas, S)
BY DEF Objects, Heap, Quotas

LEMMA HeapOfOne ==
    ASSUME NEW q \in [Artifacts -> 0..Reserved], NEW a \in Artifacts
    PROVE  IsFiniteSet(Heap(q, {a})) /\ Cardinality(Heap(q, {a})) = q[a]
<1> DEFINE n == q[a]
           f == [i \in 1..n |-> <<a, i>>]
<1>1. n \in 0..Reserved
  OBVIOUS
<1>2. IsFiniteSet(1..n) /\ Cardinality(1..n) = n
  BY <1>1, QuotaAssumption, FS_Interval
<1>3. f \in Bijection(1..n, Heap(q, {a}))
  <2>1. ASSUME NEW i \in 1..n PROVE <<a, i>> \in Heap(q, {a})
    BY <1>1, <2>1, QuotaAssumption DEF Heap
  <2>2. ASSUME NEW x \in Heap(q, {a}) PROVE \E i \in 1..n : f[i] = x
    BY <1>1, <2>2, QuotaAssumption DEF Heap
  <2>3. \A i, j \in 1..n : f[i] = f[j] => i = j
    OBVIOUS
  <2> QED BY <2>1, <2>2, <2>3 DEF Bijection, Injection, Surjection, IsInjective
<1> QED BY <1>2, <1>3, FS_Bijection DEF ExistsBijection

LEMMA HeapFinite ==
    ASSUME NEW q, NEW S, IsFiniteSet(S)
    PROVE  IsFiniteSet(Heap(q, S)) /\ Cardinality(Heap(q, S)) \in Nat
<1>1. IsFiniteSet(1..Reserved)
  BY FS_Interval, QuotaAssumption
<1>2. IsFiniteSet(S \X (1..Reserved))
  BY <1>1, FS_Product
<1>3. Heap(q, S) \in SUBSET (S \X (1..Reserved))
  BY DEF Heap
<1>4. IsFiniteSet(Heap(q, S))
  BY <1>2, <1>3, FS_Subset
<1> QED BY <1>4, FS_CardinalityType

\* An artifact more is its quota more.
LEMMA HeapGrows ==
    ASSUME NEW q \in [Artifacts -> 0..Reserved], NEW S \in SUBSET Artifacts, IsFiniteSet(S),
           NEW a \in Artifacts, a \notin S
    PROVE  Cardinality(Heap(q, S \cup {a})) = Cardinality(Heap(q, S)) + q[a]
<1> DEFINE H == Heap(q, S)
           P == Heap(q, {a})
<1>1. Heap(q, S \cup {a}) = H \cup P
  BY DEF Heap
<1>2. H \cap P = {}
  BY DEF Heap
<1>3. IsFiniteSet(H) /\ Cardinality(H) \in Nat
  BY HeapFinite
<1>4. IsFiniteSet(P) /\ Cardinality(P) = q[a]
  BY HeapOfOne
<1>5. Cardinality(H \cup P) = Cardinality(H) + Cardinality(P) - Cardinality(H \cap P)
  <2> HIDE DEF H, P
  <2> QED BY <1>3, <1>4, FS_Union
<1>6. Cardinality(H \cap P) = 0
  BY <1>2, FS_EmptySet
<1>7. q[a] \in Int
  BY QuotaAssumption
<1>8. Cardinality(H \cup P) = Cardinality(H) + q[a]
  <2> HIDE DEF H, P
  <2>1. PICK c, d, e : c = Cardinality(H) /\ d = Cardinality(H \cup P) /\ e = Cardinality(H \cap P)
    OBVIOUS
  <2> QED BY <1>3, <1>4, <1>5, <1>6, <1>7, <2>1
<1> QED BY <1>1, <1>8, Zenon

\* A step after which each artifact is charged as before.
LEMMA ChargesKept ==
    ASSUME TypeOK, ChargesInv, \A a \in Artifacts : Tends(artifacts[a], artifacts'[a]),
           charged'.artifacts = charged.artifacts, charged'.objects = charged.objects
    PROVE  ChargesInv'
BY DEF Charging, Tends, Void, Objects, ChargesInv

\* An artifact more, another quota for one, or one less.
LEMMA ChargesMove ==
    ASSUME TypeOK, TypeOK', ChargesInv, NEW a \in Artifacts,
           \A b \in Artifacts : b # a => artifacts'[b] = artifacts[b],
           charged'.artifacts = charged.artifacts
               - (IF a \in Charging THEN 1 ELSE 0) + (IF a \in Charging' THEN 1 ELSE 0),
           charged'.objects = charged.objects
               - (IF a \in Charging THEN artifacts[a].quota ELSE 0)
               + (IF a \in Charging' THEN artifacts'[a].quota ELSE 0)
    PROVE  ChargesInv'
<1>1. PICK R \in SUBSET Artifacts : R = Charging \ {a}
  BY DEF Charging
<1>2. PICK before \in BOOLEAN, after \in BOOLEAN :
          (before <=> a \in Charging) /\ (after <=> a \in Charging')
  OBVIOUS
<1>3. /\ Charging = IF before THEN R \cup {a} ELSE R
      /\ Charging' = IF after THEN R \cup {a} ELSE R
  BY <1>1, <1>2 DEF Charging
<1>4. a \notin R /\ IsFiniteSet(R) /\ Cardinality(R) \in Nat
  BY <1>1, FS_RemoveElement, FS_CardinalityType DEF ChargesInv
<1>5. IsFiniteSet(R \cup {a}) /\ Cardinality(R \cup {a}) = Cardinality(R) + 1
  BY <1>4, FS_AddElement
<1>6. PICK q, r : q = Quotas /\ r = Quotas'
  OBVIOUS
<1>7. /\ q \in [Artifacts -> 0..Reserved] /\ r \in [Artifacts -> 0..Reserved]
      /\ q[a] = artifacts[a].quota /\ r[a] = artifacts'[a].quota
      /\ \A b \in R : r[b] = q[b]
  BY <1>4, <1>6, FieldsTyped DEF TypeOK, Quotas
<1>8. PICK H : H = Heap(q, R)
  OBVIOUS
<1>9. H = Heap(r, R)
  BY <1>7, <1>8 DEF Heap
<1>10. /\ Cardinality(Heap(q, R \cup {a})) = Cardinality(H) + q[a]
       /\ Cardinality(Heap(r, R \cup {a})) = Cardinality(H) + r[a]
       /\ Cardinality(H) \in Nat
  BY <1>4, <1>7, <1>8, <1>9, HeapGrows, HeapFinite
<1>11. Objects(Charging) = Heap(q, Charging)
  BY <1>6, ObjectsAreHeap DEF Charging
<1>12. Objects(Charging)' = Heap(r, Charging')
  BY <1>6 DEF Objects, Heap, Quotas, Charging
<1>13. /\ charged.artifacts = Cardinality(R) + (IF before THEN 1 ELSE 0)
       /\ charged.objects = Cardinality(H) + (IF before THEN q[a] ELSE 0)
  BY <1>11, <1>3, <1>5, <1>10, <1>4, <1>8 DEF ChargesInv
<1>14. /\ charged'.artifacts = Cardinality(R) + (IF after THEN 1 ELSE 0)
       /\ charged'.objects = Cardinality(H) + (IF after THEN r[a] ELSE 0)
  BY <1>7, QuotaAssumption, <1>2, <1>4, <1>10, <1>13
<1> QED BY <1>3, <1>4, <1>5, <1>9, <1>10, <1>12, <1>14 DEF ChargesInv

(* What is listed. *)

LEMMA KeptUnlists ==
    ASSUME TypeOK, UNCHANGED <<listed, discovered>>
    PROVE  Unlist({})
BY DEF TypeOK, Unlist

\* What leaves the index is what is open no more.
LEMMA IndexShrinks ==
    ASSUME TypeOK, IndexInv, NEW S, Unlist(S), UNCHANGED authority,
           \A a \in Artifacts :
              /\ Open(artifacts'[a]) =>
                    Open(artifacts[a]) /\ artifacts'[a].epoch = artifacts[a].epoch
              /\ Open(artifacts[a]) => (a \in S <=> ~Open(artifacts'[a]))
    PROVE  IndexInv'
<1>1. listed' = {a \in Artifacts : Open(artifacts'[a])}
  BY DEF IndexInv, Unlist
<1>2. ASSUME NEW a \in listed'
      PROVE  authority' \in Epochs /\ artifacts'[a].epoch = authority' /\ discovered'[authority'] = a
  BY <1>1, <1>2 DEF Unlist, IndexInv
<1>3. ASSUME NEW e \in Epochs, discovered'[e] # None
      PROVE  discovered'[e] \in listed' /\ e = authority'
  BY <1>3 DEF Unlist, IndexInv
<1> QED BY <1>1, <1>2, <1>3 DEF IndexInv

\* A step that lists, charges and gives back nothing.
LEMMA Shrinks ==
    ASSUME TypeOK, Books, NEW S, Unlist(S), UNCHANGED authority,
           charged'.artifacts = charged.artifacts, charged'.objects = charged.objects,
           \A a \in Artifacts :
              /\ Tends(artifacts[a], artifacts'[a])
              /\ Open(artifacts[a]) => (a \in S <=> ~Open(artifacts'[a]))
    PROVE  Books'
BY IndexShrinks, ChargesKept DEF SoundInv, Tends, Books

LEMMA SoundRecord ==
    ASSUME TypeOK, Books, NEW a \in Artifacts
    PROVE  artifacts[a] \in ArtifactRecords /\ Sound(artifacts[a]) /\ Tends(artifacts[a], artifacts[a])
BY TendsSelf DEF TypeOK, Books, SoundInv

LEMMA KeepBooks ==
    ASSUME TypeOK, Books, Keep, UNCHANGED authority,
           charged'.artifacts = charged.artifacts, charged'.objects = charged.objects
    PROVE  Books'
BY KeptUnlists, Shrinks, SoundRecord DEF Keep

LEMMA PutBooks ==
    ASSUME TypeOK, Books, NEW a \in Artifacts, NEW x, Tends(artifacts[a], x), Put(a, x),
           Open(artifacts[a]) => Open(x), UNCHANGED <<authority, listed, discovered>>,
           charged'.artifacts = charged.artifacts, charged'.objects = charged.objects
    PROVE  Books'
BY KeptUnlists, SoundRecord, Shrinks DEF TypeOK, Put

LEMMA MarkBooks ==
    ASSUME TypeOK, Books, NEW S, MarkDeleting(S), UNCHANGED authority,
           charged'.artifacts = charged.artifacts, charged'.objects = charged.objects
    PROVE  Books'
<1> DEFINE hit == {a \in S : Markable(a)}
<1>1. /\ artifacts' = [a \in Artifacts |-> IF a \in hit THEN Marked(artifacts[a]) ELSE artifacts[a]]
      /\ Unlist(hit)
  BY DEF MarkDeleting
<1>2. ASSUME NEW a \in Artifacts
      PROVE  /\ Tends(artifacts[a], artifacts'[a])
             /\ Open(artifacts[a]) => (a \in hit <=> ~Open(artifacts'[a]))
  <2>1. CASE a \in hit
    BY <2>1, <1>1, SoundRecord, MarkedTends DEF Markable
  <2>2. CASE a \notin hit
    BY <1>1, <2>2, SoundRecord
  <2> QED BY <2>1, <2>2
<1> QED BY <1>1, <1>2, Shrinks

LEMMA AbortBooks ==
    ASSUME TypeOK, Books, NEW a \in Artifacts, artifacts[a].state = "uploading",
           TerminalAbort(a), UNCHANGED <<authority, charged>>
    PROVE  Books'
<1> DEFINE x == Condemned(artifacts[a], "first")
<1>1. /\ artifacts' = [artifacts EXCEPT ![a] = x] /\ Unlist({a})
  BY DEF TerminalAbort, Put
<1>2. artifacts'[a] = x /\ \A b \in Artifacts : b # a => artifacts'[b] = artifacts[b]
  BY <1>1 DEF TypeOK
<1>3. Tends(artifacts[a], x) /\ ~Open(x)
  BY SoundRecord, CondemnedTends DEF Void
<1>4. \A b \in Artifacts :
          /\ Tends(artifacts[b], artifacts'[b])
          /\ Open(artifacts[b]) => (b \in {a} <=> ~Open(artifacts'[b]))
  BY <1>2, <1>3, SoundRecord
<1> QED BY <1>1, <1>4, Shrinks

(* What is leased. *)

LEMMA HoldersFinite ==
    /\ IsFiniteSet(Holders) /\ Cardinality(Holders) \in Nat
    /\ \A S \in SUBSET Readers : IsFiniteSet(S) /\ Cardinality(S) \in Nat
BY BoundsAssumption, FS_Subset, FS_CardinalityType DEF Holders

LEMMA Fewer ==
    ASSUME TypeOK, LeasesInv, NEW S \in SUBSET Holders,
           leases' = [k \in Readers |-> IF k \in S THEN "none" ELSE leases[k]],
           charged'.leases = charged.leases - Cardinality(S)
    PROVE  LeasesInv'
<1>1. Holders' = Holders \ S
  BY DEF Holders
<1>2. PICK H : H = Holders
  OBVIOUS
<1>3. Cardinality(H \ S) = Cardinality(H) - Cardinality(H \cap S)
  BY <1>2, HoldersFinite, FS_Difference
<1>4. H \cap S = S
  BY <1>2
<1> QED BY <1>1, <1>2, <1>3, <1>4 DEF LeasesInv

LEMMA DropBooks ==
    ASSUME TypeOK, LeasesInv, NEW S \in SUBSET Holders, Drop(S)
    PROVE  /\ LeasesInv'
           /\ charged'.artifacts = charged.artifacts /\ charged'.objects = charged.objects
BY Fewer DEF Drop, TypeOK

LEMMA LeasesKept ==
    ASSUME LeasesInv, UNCHANGED leases, charged'.leases = charged.leases
    PROVE  LeasesInv'
BY DEF LeasesInv, Holders

(* The steps of a request. *)

Accounts == Books /\ LeasesInv

LEMMA SameAccounts ==
    ASSUME TypeOK, Accounts, UNCHANGED <<redis, leases>>
    PROVE  Accounts'
BY KeepBooks, LeasesKept DEF redis, Keep, Accounts

LEMMA ReconcileAccounts ==
    ASSUME TypeOK, Accounts, NEW r \in Requests, ReconcileAuthority(r)
    PROVE  Accounts'
<1> DEFINE e == requests[r].epoch
<1>1. CASE UNCHANGED redis /\ Elsewhere
  BY <1>1, SameAccounts DEF Elsewhere
<1>2. CASE authority' = e /\ authority = e /\ Keep /\ UNCHANGED charged /\ Elsewhere
  BY <1>2, KeepBooks, LeasesKept DEF Accounts, Elsewhere
<1>3. CASE MarkDeleting(listed) /\ UNCHANGED charged /\ Elsewhere
  <2> DEFINE hit == {a \in listed : Markable(a)}
  <2>1. hit = listed
    BY DEF Accounts, Books, IndexInv, Markable, Open
  <2>2. /\ artifacts' = [a \in Artifacts |-> IF a \in listed THEN Marked(artifacts[a]) ELSE artifacts[a]]
        /\ Unlist(listed)
    BY <1>3, <2>1 DEF MarkDeleting
  <2>3. ASSUME NEW a \in Artifacts
        PROVE  Tends(artifacts[a], artifacts'[a]) /\ ~Open(artifacts'[a])
    <3>1. CASE a \in listed
      BY <3>1, <2>2, SoundRecord, MarkedTends DEF Accounts, Books, IndexInv, Open
    <3>2. CASE a \notin listed
      BY <2>2, <3>2, SoundRecord DEF Accounts, Books, IndexInv
    <3> QED BY <3>1, <3>2
  <2>4. listed' = {} /\ \A x \in Epochs : discovered'[x] = None
    BY <2>2 DEF Unlist, Accounts, Books, IndexInv
  <2>5. IndexInv'
    BY <2>3, <2>4 DEF IndexInv
  <2>6. SoundInv'
    BY <2>3 DEF SoundInv, Tends
  <2>7. ChargesInv'
    BY <1>3, <2>3, ChargesKept DEF Accounts, Books
  <2> QED BY <1>3, <2>5, <2>6, <2>7, LeasesKept DEF Accounts, Books, Elsewhere
<1> QED BY <1>1, <1>2, <1>3 DEF ReconcileAuthority

LEMMA ReserveAgainAccounts ==
    ASSUME TypeOK, Accounts, NEW r \in Requests, NEW a \in Artifacts, ReserveAgain(r, a), Elsewhere
    PROVE  Accounts'
<1> DEFINE x == artifacts[a]
<1>1. x \in ArtifactRecords /\ Sound(x)
  BY SoundRecord DEF Accounts
<1>2. CASE UNCHANGED redis
  BY <1>2, SameAccounts DEF Elsewhere
<1>3. CASE MarkDeleting({a}) /\ UNCHANGED <<authority, charged>>
  BY <1>3, MarkBooks, LeasesKept DEF Accounts, Elsewhere
<1>4. CASE /\ Put(a, IF x.state = "reserved" THEN [Refreshed(x) EXCEPT !.reserver = r] ELSE Refreshed(x))
           /\ UNCHANGED <<authority, listed, discovered, charged>>
  <2>1. CASE x.state = "reserved"
    <3>1. PICK y : y = Refreshed(x)
      OBVIOUS
    <3>2. y \in ArtifactRecords /\ Tends(x, y) /\ (Open(x) => Open(y))
      BY <1>1, <3>1, RefreshedMoves, RefreshedTends
    <3>3. PICK z : z = [y EXCEPT !.reserver = r]
      OBVIOUS
    <3>4. /\ z.state = y.state /\ z.epoch = y.epoch /\ z.quota = y.quota /\ z.reserver = r
          /\ z.fetcher = y.fetcher /\ z.requested = y.requested /\ z.phase = y.phase
      BY <3>2, <3>3 DEF ArtifactRecords
    <3>5. Tends(x, z) /\ (Open(x) => Open(z))
      BY <3>2, <3>4, NamesAssumption DEF Tends, Sound, Open, Void
    <3> QED BY <1>4, <2>1, <3>1, <3>3, <3>5, PutBooks, LeasesKept DEF Accounts, Elsewhere
  <2>2. CASE x.state # "reserved"
    BY <1>1, <1>4, <2>2, RefreshedTends, PutBooks, LeasesKept DEF Accounts, Elsewhere
  <2> QED BY <2>1, <2>2
<1> QED BY <1>2, <1>3, <1>4 DEF ReserveAgain

LEMMA ReserveNewAccounts ==
    ASSUME TypeOK, TypeOK', Accounts, NEW r \in Requests, NEW a \in Artifacts,
           requests[r].epoch \in Epochs, authority = requests[r].epoch,
           discovered[requests[r].epoch] = None, ReserveNew(r, a), Elsewhere
    PROVE  Accounts'
<1> DEFINE e == requests[r].epoch
<1>1. PICK x : x = [NoArtifact EXCEPT !.state = "reserved", !.epoch = e, !.quota = Reserved, !.reserver = r]
  OBVIOUS
<1>2. /\ x.state = "reserved" /\ x.epoch = e /\ x.quota = Reserved /\ x.reserver = r
      /\ x.fetcher = None /\ ~x.requested /\ x.phase = "none"
  BY <1>1 DEF NoArtifact
<1>3. Sound(x) /\ Open(x) /\ ~Void(x)
  BY <1>2, NamesAssumption, QuotaAssumption DEF Sound, Open, Void, Active
<1>4. /\ artifacts[a] = NoArtifact /\ Put(a, x) /\ listed' = listed \cup {a}
      /\ discovered' = [discovered EXCEPT ![e] = a]
      /\ charged' = [charged EXCEPT !.artifacts = @ + 1, !.objects = @ + Reserved]
      /\ UNCHANGED authority
  BY <1>1 DEF ReserveNew
<1>5. artifacts'[a] = x /\ \A b \in Artifacts : b # a => artifacts'[b] = artifacts[b]
  BY <1>4 DEF TypeOK, Put
<1>6. listed = {} /\ \A k \in Epochs : discovered[k] = None
  BY NamesAssumption DEF Accounts, Books, IndexInv
<1>7. SoundInv'
  BY <1>3, <1>5 DEF Accounts, Books, SoundInv
<1>8. IndexInv'
  BY <1>3, <1>4, <1>5, <1>6, <1>2 DEF Accounts, Books, IndexInv, TypeOK
<1>9. ChargesInv'
  BY <1>2, <1>4, <1>5, ChargesMove, QuotaAssumption
     DEF Charging, NoArtifact, TypeOK, Accounts, Books
<1>10. LeasesInv'
  BY <1>4, LeasesKept DEF Accounts, Elsewhere, TypeOK
<1> QED BY <1>7, <1>8, <1>9, <1>10 DEF Accounts, Books

LEMMA ReserveAccounts ==
    ASSUME TypeOK, TypeOK', Accounts, NEW r \in Requests, Reserve(r)
    PROVE  Accounts'
<1> DEFINE e == requests[r].epoch
<1>1. e \in Epochs /\ Elsewhere
  BY DEF Reserve, TypeOK
<1>2. CASE UNCHANGED redis
  BY <1>1, <1>2, SameAccounts DEF Elsewhere
<1>3. CASE discovered[e] # None /\ ReserveAgain(r, discovered[e])
  BY <1>1, <1>3, ReserveAgainAccounts DEF TypeOK
<1>4. CASE Authorized(e) /\ discovered[e] = None /\ \E a \in Artifacts : ReserveNew(r, a)
  BY <1>1, <1>4, ReserveNewAccounts DEF Authorized
<1> QED BY <1>2, <1>3, <1>4 DEF Reserve

LEMMA BeginFetchAccounts ==
    ASSUME TypeOK, Punctuality, Accounts, NEW r \in Requests, BeginFetch(r)
    PROVE  Accounts'
<1> DEFINE a == requests[r].artifact
           x == artifacts[a]
<1>1. requests[r].pc \in Working /\ UNCHANGED <<authority, charged>> /\ Elsewhere
  BY DEF BeginFetch, Working
<1>2. a \in Artifacts /\ x \in ArtifactRecords /\ Sound(x) /\ Tends(x, x)
  BY <1>1, WorkingFields, SoundRecord DEF Accounts
<1>3. CASE Keep
  BY <1>1, <1>3, KeepBooks, LeasesKept DEF Accounts, Elsewhere
<1>4. CASE /\ Put(a, IF x.state = "fetching" THEN FetchReset(x) ELSE x)
           /\ UNCHANGED <<listed, discovered>>
  BY <1>2, FetchResetTends, <1>1, <1>4, PutBooks, LeasesKept DEF Accounts, Elsewhere
<1>5. CASE /\ x.state \in {"reserved", "fetching"}
           /\ Put(a, [Refreshed(x) EXCEPT !.state = "fetching", !.fetcher = r, !.late = FALSE,
                     !.fenced = IF x.state = "fetching" THEN x.fetcher ELSE x.fenced])
           /\ UNCHANGED <<listed, discovered>>
  <2>1. PICK y : y = Refreshed(x)
    OBVIOUS
  <2>2. PICK f : f = IF x.state = "fetching" THEN x.fetcher ELSE x.fenced
    OBVIOUS
  <2>3. PICK z : z = [y EXCEPT !.state = "fetching", !.fetcher = r, !.late = FALSE, !.fenced = f]
    OBVIOUS
  <2>4. y \in ArtifactRecords
    BY <1>2, <2>1, RefreshedMoves
  <2>5. /\ z.state = "fetching" /\ z.epoch = x.epoch /\ z.quota = x.quota /\ z.reserver = x.reserver
        /\ z.fetcher = r /\ z.requested = x.requested /\ z.phase = x.phase
    BY <1>2, <2>1, <2>3, <2>4, RefreshedFields DEF ArtifactRecords
  <2>6. Tends(x, z) /\ (Open(x) => Open(z))
    BY <1>2, <1>5, <2>5, NamesAssumption DEF Tends, Sound, Open, Void, Active
  <2>7. Put(a, z)
    BY <1>5, <2>1, <2>2, <2>3
  <2> QED BY <1>1, <1>2, <1>5, <2>6, <2>7, PutBooks, LeasesKept DEF Accounts, Elsewhere
<1>6. x.state \in Active /\ x.state # "committed" /\ ~FetchBusy(x) => x.state \in {"reserved", "fetching"}
  BY DEF Active, FetchBusy
<1> QED BY <1>3, <1>4, <1>5, <1>6 DEF BeginFetch

LEMMA StageAccounts ==
    ASSUME TypeOK, TypeOK', Punctuality, Accounts, NEW r \in Requests, NEW n \in 1..Reserved,
           Stage(r, n)
    PROVE  Accounts'
<1> DEFINE a == requests[r].artifact
           x == artifacts[a]
           owned == x.state = "fetching" /\ x.fetcher = r
<1>1. requests[r].pc \in Working /\ UNCHANGED authority /\ Elsewhere
  BY DEF Stage, Working
<1>2. a \in Artifacts /\ x \in ArtifactRecords /\ Sound(x) /\ Tends(x, x)
  BY <1>1, WorkingFields, SoundRecord DEF Accounts
<1>3. CASE Put(a, IF owned THEN FetchReset(x) ELSE x) /\ UNCHANGED <<listed, discovered, charged>>
  BY <1>2, FetchResetTends, <1>1, <1>3, PutBooks, LeasesKept DEF Accounts, Elsewhere
<1>4. CASE MarkDeleting({a}) /\ UNCHANGED charged
  BY <1>1, <1>4, MarkBooks, LeasesKept DEF Accounts, Elsewhere
<1>5. CASE Keep /\ UNCHANGED charged
  BY <1>1, <1>5, KeepBooks, LeasesKept DEF Accounts, Elsewhere
<1>6. CASE /\ owned
           /\ Put(a, [Refreshed(x) EXCEPT !.state = "uploading", !.quota = n,
                          !.reserver = None, !.settling = TRUE])
           /\ charged' = [charged EXCEPT !.objects = @ - (x.quota - n)]
           /\ UNCHANGED <<listed, discovered>>
  <2>1. PICK y : y = Refreshed(x)
    OBVIOUS
  <2>2. PICK z : z = [y EXCEPT !.state = "uploading", !.quota = n,
                          !.reserver = None, !.settling = TRUE]
    OBVIOUS
  <2>3. y \in ArtifactRecords
    BY <1>2, <2>1, RefreshedMoves
  <2>4. /\ z.state = "uploading" /\ z.epoch = x.epoch /\ z.quota = n
        /\ z.fetcher = r /\ z.requested = x.requested /\ z.phase = x.phase
    BY <1>2, <1>6, <2>1, <2>2, <2>3, RefreshedFields DEF ArtifactRecords
  <2>5. /\ Sound(z) /\ ~Void(x) /\ ~Void(z) /\ (Open(z) <=> Open(x)) /\ z.epoch = x.epoch
    BY <1>2, <1>6, <2>4, NamesAssumption, QuotaAssumption DEF Sound, Open, Void, Active
  <2>6. Put(a, z)
    BY <1>6, <2>1, <2>2
  <2>7. artifacts'[a] = z /\ \A b \in Artifacts : b # a => artifacts'[b] = artifacts[b]
    BY <1>2, <2>6 DEF TypeOK, Put
  <2>8. SoundInv'
    BY <2>5, <2>7 DEF Accounts, Books, SoundInv
  <2>9. IndexInv'
    BY <1>6, KeptUnlists, <1>1, <2>5, <2>7, IndexShrinks DEF Accounts, Books
  <2>10. ChargesInv'
    <3>1. a \in Charging /\ a \in Charging'
      BY <1>2, <2>5, <2>7 DEF Charging, Void
    <3>2. /\ charged.artifacts \in Int /\ charged.objects \in Int /\ x.quota \in Int /\ n \in Int
      BY <1>2, FieldsTyped, QuotaAssumption DEF TypeOK
    <3>3. /\ charged'.artifacts = charged.artifacts
          /\ charged'.objects = charged.objects - (x.quota - n)
      BY <1>6 DEF TypeOK
    <3>4. /\ charged'.artifacts = charged.artifacts - 1 + 1
          /\ charged'.objects = charged.objects - x.quota + n
      BY <3>2, <3>3
    <3> QED BY <1>2, <2>4, <2>7, <3>1, <3>4, ChargesMove DEF Accounts, Books
  <2>11. LeasesInv'
    BY <1>1, <1>6, LeasesKept DEF Accounts, Elsewhere, TypeOK
  <2> QED BY <2>8, <2>9, <2>10, <2>11 DEF Accounts, Books
<1> QED BY <1>3, <1>4, <1>5, <1>6 DEF Stage

LEMMA CommitAccounts ==
    ASSUME TypeOK, Punctuality, Accounts, NEW r \in Requests, Commit(r)
    PROVE  Accounts'
<1> DEFINE a == requests[r].artifact
           x == artifacts[a]
<1>1. requests[r].pc \in Working /\ UNCHANGED <<authority, charged>> /\ Elsewhere
  BY DEF Commit, Working
<1>2. a \in Artifacts /\ x \in ArtifactRecords /\ Sound(x)
  BY <1>1, WorkingFields, SoundRecord DEF Accounts
<1>3. CASE Keep
  BY <1>1, <1>3, KeepBooks, LeasesKept DEF Accounts, Elsewhere
<1>4. CASE x.state = "uploading" /\ TerminalAbort(a)
  BY <1>1, <1>2, <1>4, AbortBooks, LeasesKept DEF Accounts, Elsewhere
<1>5. CASE /\ x.state = "uploading" /\ Put(a, [Refreshed(x) EXCEPT !.state = "committed"])
           /\ UNCHANGED <<listed, discovered>>
  <2>1. PICK y : y = Refreshed(x)
    OBVIOUS
  <2>2. PICK z : z = [y EXCEPT !.state = "committed"]
    OBVIOUS
  <2>3. y \in ArtifactRecords
    BY <1>2, <2>1, RefreshedMoves
  <2>4. /\ z.state = "committed" /\ z.epoch = x.epoch /\ z.quota = x.quota
        /\ z.fetcher = x.fetcher /\ z.requested = x.requested /\ z.phase = x.phase
    BY <1>2, <2>1, <2>2, <2>3, RefreshedFields DEF ArtifactRecords
  <2>5. Tends(x, z) /\ (Open(x) => Open(z))
    BY <1>2, <1>5, <2>4 DEF Tends, Sound, Open, Void, Active
  <2> QED BY <1>1, <1>2, <1>5, <2>1, <2>2, <2>5, PutBooks, LeasesKept DEF Accounts, Elsewhere
<1> QED BY <1>3, <1>4, <1>5 DEF Commit

LEMMA CleanupAccounts ==
    ASSUME TypeOK, Punctuality, Accounts, NEW r \in Requests,
           CommitManifest(r) \/ AbortUpload(r) \/ ReleaseFetch(r)
    PROVE  Accounts'
<1> DEFINE a == requests[r].artifact
           x == artifacts[a]
<1>1. requests[r].pc \in Working /\ UNCHANGED <<authority, charged>> /\ Elsewhere
  BY DEF CommitManifest, AbortUpload, ReleaseFetch, Working
<1>2. a \in Artifacts /\ x \in ArtifactRecords /\ Sound(x) /\ Tends(x, x)
  BY <1>1, WorkingFields, SoundRecord DEF Accounts
<1>3. CASE Keep
  BY <1>1, <1>3, KeepBooks, LeasesKept DEF Accounts, Elsewhere
<1>4. CASE MarkDeleting({b \in listed : artifacts[b].epoch = requests[r].epoch})
  BY <1>1, <1>4, MarkBooks, LeasesKept DEF Accounts, Elsewhere
<1>5. CASE x.state = "uploading" /\ TerminalAbort(a)
  BY <1>1, <1>2, <1>5, AbortBooks, LeasesKept DEF Accounts, Elsewhere
<1>6. CASE ReleaseFetch(r)
  BY <1>6, <1>2, FetchResetTends, <1>1, PutBooks, LeasesKept DEF ReleaseFetch, Accounts, Elsewhere
<1> QED BY <1>3, <1>4, <1>5, <1>6 DEF CommitManifest, AbortUpload

\* An artifact goes, and gives back what it is charged for.
LEMMA GoneBooks ==
    ASSUME TypeOK, TypeOK', Books, NEW a \in Artifacts, ~Void(artifacts[a]),
           Put(a, [NoArtifact EXCEPT !.state = "gone"]), Unlist({a}), UNCHANGED authority,
           charged'.artifacts = charged.artifacts - 1,
           charged'.objects = charged.objects - GivenBack(artifacts[a])
    PROVE  Books'
<1> DEFINE gone == [NoArtifact EXCEPT !.state = "gone"]
<1>1. artifacts'[a] = gone /\ \A b \in Artifacts : b # a => artifacts'[b] = artifacts[b]
  BY DEF TypeOK, Put
<1>2. Sound(gone) /\ ~Open(gone) /\ Void(gone)
  BY NothingSound
<1>3. SoundInv'
  BY <1>1, <1>2 DEF Books, SoundInv
<1>4. IndexInv'
  BY <1>1, <1>2, IndexShrinks DEF Books
<1>5. ChargesInv'
  <2>1. a \in Charging /\ a \notin Charging'
    BY <1>1, <1>2 DEF Charging, Void
  <2>2. /\ charged.artifacts \in Int /\ charged.objects \in Int /\ artifacts[a].quota \in Int
    BY FieldsTyped, QuotaAssumption DEF TypeOK
  <2>3. /\ charged'.artifacts = charged.artifacts - 1 + 0
        /\ charged'.objects = charged.objects - artifacts[a].quota + 0
    BY <2>2 DEF GivenBack
  <2> QED BY <1>1, <2>1, <2>3, ChargesMove DEF Books
<1> QED BY <1>3, <1>4, <1>5 DEF Books

LEMMA CancelAccounts ==
    ASSUME TypeOK, TypeOK', Punctuality, Accounts, NEW r \in Requests, Cancel(r)
    PROVE  Accounts'
<1> DEFINE a == requests[r].artifact
           x == artifacts[a]
<1>1. requests[r].pc \in Working /\ UNCHANGED authority /\ Elsewhere
  BY DEF Cancel, Working
<1>2. a \in Artifacts
  BY <1>1, WorkingFields
<1>3. CASE /\ Cancelable(r, x) /\ Put(a, [NoArtifact EXCEPT !.state = "gone"]) /\ Unlist({a})
           /\ charged' = [charged EXCEPT !.artifacts = @ - 1, !.objects = @ - GivenBack(x)]
  BY <1>3, <1>1, <1>2, GoneBooks, LeasesKept DEF Cancelable, Void, TypeOK, Accounts, Elsewhere
<1>4. CASE Keep /\ UNCHANGED charged
  BY <1>1, <1>4, KeepBooks, LeasesKept DEF Accounts, Elsewhere
<1> QED BY <1>3, <1>4 DEF Cancel

LEMMA RequestAccounts ==
    ASSUME TypeOK, TypeOK', Punctuality, Accounts, NEW r \in Requests, Request(r)
    PROVE  Accounts'
<1>1. CASE ReadClaim(r) \/ FetchSource(r) \/ ReserveManifest(r) \/ PutObjects(r) \/ Crash(r)
  BY <1>1, SameAccounts DEF ReadClaim, FetchSource, ReserveManifest, PutObjects, Crash, Elsewhere
<1> QED BY <1>1, ReconcileAccounts, ReserveAccounts, BeginFetchAccounts, StageAccounts,
           CommitAccounts, CleanupAccounts, CancelAccounts DEF Request

(* The steps of the others. *)

LEMMA AuthorizeAccounts ==
    ASSUME TypeOK, Accounts, NEW k \in Readers, NEW a \in Artifacts, Authorize(k, a)
    PROVE  Accounts'
<1> DEFINE x == artifacts[a]
           kept == [j \in Readers |-> IF j \in Lapsed THEN "none" ELSE leases[j]]
<1>1. UNCHANGED authority /\ Lapsed \in SUBSET Holders
  BY DEF Authorize, Idle, Lapsed, Holders
<1>2. CASE MarkDeleting({a}) /\ Drop(Lapsed)
  BY <1>1, <1>2, DropBooks, MarkBooks DEF Accounts
<1>3. CASE /\ Put(a, Refreshed(x)) /\ leases' = [kept EXCEPT ![k] = "live"]
           /\ charged' = [charged EXCEPT !.leases = charged.leases - Cardinality(Lapsed) + 1]
           /\ UNCHANGED <<listed, discovered>>
  <2>1. x \in ArtifactRecords /\ Sound(x)
    BY SoundRecord DEF Accounts
  <2>2. /\ charged'.leases = charged.leases - Cardinality(Lapsed) + 1
        /\ charged'.artifacts = charged.artifacts /\ charged'.objects = charged.objects
    BY <1>3 DEF TypeOK
  <2>3. Books'
    BY <1>1, <1>3, <2>1, <2>2, RefreshedTends, PutBooks DEF Accounts
  <2>4. PICK H, L : H = Holders /\ L = Lapsed
    OBVIOUS
  <2>5. /\ IsFiniteSet(H) /\ Cardinality(H) \in Nat /\ L \in SUBSET Readers /\ H \cap L = L
    BY <1>1, <2>4, HoldersFinite DEF Lapsed
  <2>6. IsFiniteSet(H \ L) /\ Cardinality(H \ L) = Cardinality(H) - Cardinality(L)
    BY <2>5, FS_Difference
  <2>7. k \notin H \ L
    BY <1>3, <2>4 DEF Authorize, Holders, Lapsed, TypeOK
  <2>8. Cardinality((H \ L) \cup {k}) = Cardinality(H) - Cardinality(L) + 1
    BY <2>6, <2>7, FS_AddElement
  <2>9. Holders' = (H \ L) \cup {k}
    BY <1>3, <2>4 DEF Holders, Lapsed
  <2> QED BY <2>2, <2>3, <2>4, <2>8, <2>9 DEF Accounts, LeasesInv
<1> QED BY <1>2, <1>3 DEF Authorize

LEMMA RevalidateAccounts ==
    ASSUME TypeOK, Accounts, NEW k \in Readers, Revalidate(k)
    PROVE  Accounts'
<1> DEFINE a == readers[k].artifact
<1>1. UNCHANGED authority /\ a \in Artifacts /\ LapsedOn(a) \in SUBSET Holders
  BY DEF Revalidate, Idle, LapsedOn, Lapsed, Holders, TypeOK
<1>2. CASE Drop(LapsedOn(a)) /\ Keep
  BY <1>1, <1>2, DropBooks, KeepBooks DEF Accounts
<1>3. CASE Put(a, Refreshed(artifacts[a])) /\ Drop(LapsedOn(a)) /\ UNCHANGED <<listed, discovered>>
  BY <1>1, SoundRecord, <1>3, RefreshedTends, DropBooks, PutBooks DEF Accounts
<1>4. CASE leases[k] = "live" /\ Drop(LapsedOn(a) \cup {k}) /\ MarkDeleting({a})
  BY <1>1, <1>4, DropBooks, MarkBooks DEF Holders, Accounts
<1> QED BY <1>2, <1>3, <1>4 DEF Revalidate

LEMMA ReadAccounts ==
    ASSUME TypeOK, Accounts, NEW k \in Readers, Read(k) \/ LapseLease(k)
    PROVE  Accounts'
<1>1. CASE ReleaseLease(k)
  <2> DEFINE S == {k} \ {j \in Readers : leases[j] = "none"}
  <2>1. S \in SUBSET Holders /\ Keep /\ UNCHANGED authority
    BY <1>1 DEF ReleaseLease, Holders, Idle
  <2>2. CASE Drop(S)
    BY <2>1, <2>2, DropBooks, KeepBooks DEF Accounts
  <2>3. CASE UNCHANGED <<leases, charged>>
    BY <2>1, <2>3, KeepBooks, LeasesKept DEF Accounts
  <2> QED BY <1>1, <2>2, <2>3 DEF ReleaseLease
<1>2. CASE LapseLease(k)
  BY <1>2, KeepBooks DEF LapseLease, redis, Keep, Holders, TypeOK, Accounts, LeasesInv
<1> QED BY <1>1, <1>2, AuthorizeAccounts, RevalidateAccounts DEF Read

LEMMA InvalidateAccounts ==
    ASSUME TypeOK, Accounts, InvalidateProfile \/ \E e \in Epochs : InvalidateRelease(e)
    PROVE  Accounts'
BY MarkBooks, LeasesKept DEF InvalidateProfile, InvalidateRelease, Accounts

LEMMA PassingAccounts ==
    ASSUME TypeOK, Accounts, NEW a \in Artifacts, Passing(a)
    PROVE  Accounts'
<1> DEFINE x == artifacts[a]
<1>1. x \in ArtifactRecords /\ Sound(x)
  BY SoundRecord DEF Accounts
<1>2. UNCHANGED <<authority, listed, discovered, charged, leases>>
  BY DEF Passing, PassDeadline, Expire, Settle
<1>3. PICK y : Put(a, y) /\ \/ y = [x EXCEPT !.late = TRUE]
                            \/ \E age, late : y = [x EXCEPT !.age = age, !.late = late]
                            \/ y = [x EXCEPT !.settling = FALSE]
  <2>1. CASE PassDeadline(a) \/ Settle(a)
    BY <2>1 DEF PassDeadline, Settle
  <2>2. ASSUME NEW age \in {"stale", "dead"}, Expire(a, age)
        PROVE  \E late : Put(a, [x EXCEPT !.age = age, !.late = late])
    BY <1>1, <2>2 DEF Expire, ArtifactRecords
  <2> QED BY <2>1, <2>2 DEF Passing
<1>4. /\ y.state = x.state /\ y.epoch = x.epoch /\ y.quota = x.quota /\ y.reserver = x.reserver
      /\ y.fetcher = x.fetcher /\ y.requested = x.requested /\ y.phase = x.phase
  BY <1>1, <1>3 DEF ArtifactRecords
<1>5. Tends(x, y) /\ (Open(x) => Open(y))
  BY <1>1, <1>4 DEF Tends, Sound, Open, Void
<1> QED BY <1>2, <1>3, <1>5, PutBooks, LeasesKept DEF Accounts

LEMMA PruneAccounts ==
    ASSUME TypeOK, Punctuality, Accounts, Prune
    PROVE  Accounts'
<1> DEFINE left == [a \in Artifacts |-> Pruned(artifacts[a])]
           S == {a \in Artifacts : left[a].requested}
<1>1. /\ artifacts' = left /\ Unlist(S) /\ Drop(Lapsed) /\ UNCHANGED authority
      /\ Lapsed \in SUBSET Holders
  BY DEF Prune, Lapsed, Holders
<1>2. ASSUME NEW a \in Artifacts
      PROVE  /\ Tends(artifacts[a], artifacts'[a])
             /\ Open(artifacts[a]) => (a \in S <=> ~Open(artifacts'[a]))
  BY <1>1, RecordsTyped, SoundRecord, PrunedTends DEF Accounts, Open
<1> QED BY <1>1, <1>2, DropBooks, Shrinks DEF Accounts

LEMMA ClaimDeletionAccounts ==
    ASSUME TypeOK, Punctuality, Accounts, NEW w \in Sweepers, NEW a \in Artifacts, ClaimDeletion(w, a)
    PROVE  Accounts'
<1>1. PICK put : put = [b \in Artifacts |-> IF artifacts[b].state = "deletion_claimed"
                                            THEN Overdue(artifacts[b]) ELSE artifacts[b]]
  OBVIOUS
<1>2. /\ Deletable(a) /\ artifacts' = [put EXCEPT ![a].state = "deletion_claimed", ![a].holder = w]
      /\ Drop(Lapsed) /\ UNCHANGED <<authority, listed, discovered>>
      /\ Lapsed \in SUBSET Holders
  BY <1>1 DEF ClaimDeletion, Lapsed, Holders
<1>3. ASSUME NEW b \in Artifacts
      PROVE  put[b] \in ArtifactRecords /\ Tends(artifacts[b], put[b]) /\ (Open(artifacts[b]) => Open(put[b]))
  <2>1. artifacts[b] \in ArtifactRecords /\ Punctual(artifacts[b]) /\ Sound(artifacts[b])
    BY RecordsTyped, SoundRecord DEF Accounts
  <2>2. CASE artifacts[b].state = "deletion_claimed"
    BY <1>1, <2>2, <2>1, OverdueTends, OverdueMoves DEF Open, Active, Moves
  <2>3. CASE artifacts[b].state # "deletion_claimed"
    BY <1>1, <2>1, <2>3, TendsSelf
  <2> QED BY <2>2, <2>3
<1>4. PICK x : x = [put[a] EXCEPT !.state = "deletion_claimed", !.holder = w]
  OBVIOUS
<1>5. x.state = "deletion_claimed" /\ x.quota = put[a].quota
  BY <1>3, <1>4 DEF ArtifactRecords
<1>6. artifacts'[a] = x /\ \A b \in Artifacts : b # a => artifacts'[b] = put[b]
  BY <1>1, <1>2, <1>4
<1>7. ~Open(artifacts[a]) /\ ~Void(artifacts[a])
  BY <1>2 DEF Deletable, Due, Open, Void, Active
<1>8. Tends(artifacts[a], x)
  BY <1>3, <1>5, <1>7 DEF Tends, Sound, Open, Void, Active
<1>9. Unlist({})
  BY <1>2, KeptUnlists
<1>10. \A b \in Artifacts : /\ Tends(artifacts[b], artifacts'[b])
                            /\ Open(artifacts[b]) => (b \in {} <=> ~Open(artifacts'[b]))
  BY <1>3, <1>6, <1>7, <1>8
<1> QED BY <1>2, <1>9, <1>10, DropBooks, Shrinks DEF Accounts

LEMMA SweepAccounts ==
    ASSUME TypeOK, TypeOK', Accounts, NEW w \in Sweepers, Sweep(w)
    PROVE  Accounts'
<1> DEFINE a == sweeping[w]
           x == artifacts[a]
           again == Requeued(x)
<1>1. a \in Artifacts /\ UNCHANGED authority
  BY DEF Sweep, TypeOK
<1>2. x \in ArtifactRecords /\ Sound(x) /\ Tends(x, x)
  BY <1>1, SoundRecord DEF Accounts
<1>3. Holds(w, a) => ~Void(x) /\ ~Open(x)
  BY DEF Holds, Void, Open, Active
<1>4. Holds(w, a) => Tends(x, again) /\ Tends(x, [again EXCEPT !.phase = "second"])
  BY <1>2, <1>3, RequeuedMoves, RequeuedTends
     DEF ArtifactRecords, Tends, Sound, Open, Void, Active
<1>5. CASE Keep /\ UNCHANGED <<leases, charged>>
  BY <1>1, <1>5, KeepBooks, LeasesKept DEF Accounts
<1>6. CASE /\ Holds(w, a) /\ (Put(a, again) \/ Put(a, [again EXCEPT !.phase = "second"]))
           /\ UNCHANGED <<listed, discovered, leases, charged>>
  BY <1>4, <1>6, <1>1, <1>3, PutBooks, LeasesKept DEF Accounts
<1>7. CASE /\ Holds(w, a) /\ Put(a, [NoArtifact EXCEPT !.state = "gone"]) /\ Unlist({a})
           /\ leases' = [k \in Readers |-> IF k \in Held(a) THEN "none" ELSE leases[k]]
           /\ charged' = [artifacts |-> charged.artifacts - 1,
                          objects |-> charged.objects - GivenBack(x),
                          leases |-> charged.leases - Cardinality(Held(a))]
  BY <1>7, Fewer, <1>1, <1>3, GoneBooks DEF Held, Holders, Accounts
<1>8. CASE /\ UNCHANGED <<listed, discovered, leases, charged>>
           /\ \/ Put(a, IF Holds(w, a) THEN again ELSE x)
              \/ UNCHANGED artifacts
  <2>1. CASE UNCHANGED artifacts
    BY <1>1, <1>8, <2>1, KeepBooks, LeasesKept DEF Accounts, Keep
  <2>2. CASE Put(a, IF Holds(w, a) THEN again ELSE x)
    BY <1>2, <1>3, <1>4, <1>1, <1>8, <2>2, PutBooks, LeasesKept DEF Accounts
  <2> QED BY <1>8, <2>1, <2>2
<1> QED BY <1>5, <1>6, <1>7, <1>8 DEF Sweep

LEMMA NextAccounts ==
    ASSUME IInv, Accounts, [Next]_vars
    PROVE  Accounts'
<1>1. TypeOK /\ Punctuality /\ TypeOK'
  BY NextStep, StepTyped DEF IInv
<1>2. CASE UNCHANGED vars \/ InvalidatePlayback \/ ClaimSession \/ EndClaim
  BY <1>1, <1>2, SameAccounts DEF vars, InvalidatePlayback, ClaimSession, EndClaim, redis
<1>3. ASSUME NEW w \in Sweepers, Sweep(w) \/ \E a \in Artifacts : ClaimDeletion(w, a)
      PROVE  Accounts'
  BY <1>1, <1>3, SweepAccounts, ClaimDeletionAccounts
<1> QED BY <1>1, <1>2, <1>3, RequestAccounts, ReadAccounts, InvalidateAccounts, PassingAccounts,
           PruneAccounts DEF Next

LEMMA InitAccounts == Init => Accounts
<1> SUFFICES ASSUME Init PROVE Accounts
  OBVIOUS
<1>1. \A a \in Artifacts : artifacts[a] = NoArtifact
  BY DEF Init
<1>2. SoundInv
  BY <1>1, NothingSound DEF SoundInv
<1>3. IndexInv
  BY <1>1, NothingSound DEF Init, IndexInv
<1>4. Charging = {} /\ Objects({}) = {} /\ Holders = {}
  BY <1>1 DEF Init, Charging, NoArtifact, Objects, Holders
<1> QED BY <1>2, <1>3, <1>4, FS_EmptySet DEF Init, Accounts, Books, ChargesInv, LeasesInv

\* The books are right: what is listed is open, found and of the authority, and the
\* profile is charged for what there is.
THEOREM AccountsCorrect == Spec => []Accounts
BY InitAccounts, NextAccounts, Delivery, PTL DEF Spec

\* Whatever races, the profile is charged for what there is, and its authority can move
\* on: an invalidation leaves nothing listed that the preflight refuses.
THEOREM NothingBlocksCorrect == Spec => []NothingBlocks
<1>1. TypeOK /\ Accounts => NothingBlocks
  <2> SUFFICES ASSUME TypeOK, Accounts PROVE NothingBlocks
    OBVIOUS
  <2>1. QuotasAgree
    BY DEF TypeOK, QuotasAgree, Accounts, Books, ChargesInv, LeasesInv, Holders
  <2>2. ASSUME NEW a \in listed, NEW next
        PROVE  Orderly(a, next)
    BY FieldsTyped, QuotaAssumption
       DEF Accounts, Books, IndexInv, SoundInv, TypeOK, Orderly, Open, Sound
  <2>3. Cardinality(listed) = Cardinality({e \in Epochs : discovered[e] # None})
    <3> DEFINE D == {e \in Epochs : discovered[e] # None}
    <3>1. CASE listed = {}
      BY <3>1 DEF Accounts, Books, IndexInv
    <3>2. CASE listed # {}
      BY <3>2, NamesAssumption, FS_Singleton DEF Accounts, Books, IndexInv
    <3> QED BY <3>1, <3>2
  <2>4. listed \in SUBSET Charging /\ Objects(listed) \in SUBSET Objects(Charging)
    BY DEF Accounts, Books, IndexInv, Open, Active, Charging, Objects
  <2>5. /\ charged.artifacts >= Cardinality(listed)
        /\ charged.objects >= Cardinality(Objects(listed))
    <3>1. IsFiniteSet(Charging) /\ IsFiniteSet(Objects(Charging))
      BY ObjectsAreHeap, HeapFinite DEF Charging, Accounts, Books, ChargesInv
    <3>2. /\ Cardinality(Charging) \in Nat /\ Cardinality(listed) \in Nat
          /\ Cardinality(listed) <= Cardinality(Charging)
      BY <2>4, <3>1, FS_Subset, FS_CardinalityType
    <3>3. /\ Cardinality(Objects(Charging)) \in Nat /\ Cardinality(Objects(listed)) \in Nat
          /\ Cardinality(Objects(listed)) <= Cardinality(Objects(Charging))
      BY <2>4, <3>1, FS_Subset, FS_CardinalityType
    <3> QED BY <3>2, <3>3 DEF Accounts, Books, ChargesInv
  <2> QED BY <2>1, <2>2, <2>3, <2>5 DEF NothingBlocks, AuthorityCanMove, Preflight
<1> QED BY <1>1, TypeCorrect, AccountsCorrect, PTL
=============================================================================
