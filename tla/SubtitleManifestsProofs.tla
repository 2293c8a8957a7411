----------------------- MODULE SubtitleManifestsProofs -----------------------
(***************************************************************************)
(* No file is forgotten, an erased profile has none, what is active is     *)
(* stored, and what is revoked is condemned, for any numbers of artifacts, *)
(* files and workers, any terms and any number of faults.                  *)
(*                                                                         *)
(* NoOrphan is not inductive.  A manifest goes at the end of a second      *)
(* pass, so JobInv says what a worker knows of its artifact: nothing can   *)
(* land any more in a second pass, and what it has verified is absent.     *)
(* For that the second pass must be late enough: RowInv bounds the time in *)
(* which a PUT may land by the time that the row still has to wait.        *)
(***************************************************************************)
EXTENDS SubtitleManifests, TLAPS

Early == {"none", "staged"}

SentHasTime == \A f \in flying : horizon[f[1]] > 0

RowInv(a) ==
    /\ uploads[a] \in Early => manifests[a].state = "none"
    /\ uploads[a] = "reserved" /\ Writable(a) => manifests[a].state # "none"
    /\ manifests[a].state = "first_absent" => horizon[a] <= manifests[a].due
    /\ manifests[a].state = "uploading" /\ uploads[a] \in {"written", "delivered"} =>
          \A k \in Parts : <<a, k>> \in objects

\* What a worker has a right to believe of the artifact a that it works on.
JobInv(w, a) ==
    /\ uploads[a] \notin Early
    /\ horizon[a] <= LateBy
    /\ manifests[a].state \notin Kept
    /\ workers[w].phase = "second" => horizon[a] = 0
    /\ manifests[a].lease = w =>
          /\ manifests[a].state \in Condemned
          /\ workers[w].phase = "second" <=> manifests[a].state = "first_absent"
    /\ workers[w].phase = "second" /\ workers[w].pc = "verifying" =>
          \A k \in Parts \ workers[w].todo : <<a, k>> \notin objects
    /\ workers[w].phase = "second" /\ workers[w].pc = "verified" =>
          \A k \in Parts : <<a, k>> \notin objects

AllRows == \A a \in Artifacts : RowInv(a)

AllJobs == \A w \in Workers : workers[w].pc # "idle" => JobInv(w, workers[w].artifact)

StorageInv ==
    /\ TypeOK /\ SentHasTime /\ AllRows /\ AllJobs
    /\ NoOrphan /\ ErasedIsEmpty /\ ActiveIsStored /\ EndedIsCondemned

-----------------------------------------------------------------------------
(* Types.                                                                    *)

LEMMA CondemnTyped ==
    ASSUME TypeOK, NEW S
    PROVE  /\ Condemn(S) \in [Artifacts -> RowType]
           /\ \A a \in Artifacts : Condemn(S)[a].leaseLeft > 0 => Condemn(S)[a].lease # None
BY TermsAssumption DEF TypeOK, Condemn, RowType, Kept, Condemned, SettleLeft

LEMMA UploadTyped ==
    ASSUME TypeOK, NEW a \in Artifacts, NEW from,
           NEW to \in {"staged", "reserved", "writing", "written", "delivered", "cleaning", "done"},
           Upload(a, from, to)
    PROVE  uploads' \in [Artifacts -> {"none", "staged", "reserved", "writing", "written",
                                       "delivered", "cleaning", "done"}]
BY DEF Upload, TypeOK

LEMMA FaultTyped ==
    ASSUME TypeOK, Fault \/ UNCHANGED faults
    PROVE  faults' \in 0..MaxFaults
BY TermsAssumption DEF Fault, TypeOK

\* One row is written.
LEMMA RowTyped ==
    ASSUME TypeOK, NEW a \in Artifacts, NEW row \in RowType,
           row.leaseLeft > 0 => row.lease # None,
           manifests' = [manifests EXCEPT ![a] = row]
    PROVE  /\ manifests' \in [Artifacts -> RowType]
           /\ \A x \in Artifacts : manifests'[x].leaseLeft > 0 => manifests'[x].lease # None
BY DEF TypeOK

LEMMA RowsTyped ==
    /\ NoRow \in RowType /\ NoRow.leaseLeft = 0
    /\ \A w \in Workers : Recorded(w) \in RowType /\ Recorded(w).leaseLeft = 0
    /\ TypeOK => \A a \in Artifacts : Reserved(a) \in RowType /\ Reserved(a).leaseLeft = 0
BY TermsAssumption DEF NoRow, Recorded, Reserved, RowType, Kept, Condemned, SettleLeft, TypeOK

LEMMA StageUploadTyped ==
    ASSUME TypeOK, NEW a \in Artifacts, StageUpload(a)
    PROVE  TypeOK'
BY TermsAssumption DEF StageUpload, Upload, TypeOK

LEMMA PutsAnsweredTyped ==
    ASSUME TypeOK, NEW a \in Artifacts, PutsAnswered(a)
    PROVE  TypeOK'
BY DEF PutsAnswered, Upload, TypeOK

LEMMA GiveUpTyped ==
    ASSUME TypeOK, NEW a \in Artifacts, GiveUp(a)
    PROVE  TypeOK'
BY TermsAssumption DEF GiveUp, Upload, Fault, TypeOK

LEMMA CleanUpTyped ==
    ASSUME TypeOK, NEW a \in Artifacts, CleanUp(a)
    PROVE  TypeOK'
BY CondemnTyped, TermsAssumption DEF CleanUp, Upload, Fault, TypeOK

LEMMA CrashUploadTyped ==
    ASSUME TypeOK, NEW a \in Artifacts, CrashUpload(a)
    PROVE  TypeOK'
BY TermsAssumption DEF CrashUpload, Fault, TypeOK

LEMMA InvalidateTyped ==
    ASSUME TypeOK, NEW a \in Artifacts, Invalidate(a)
    PROVE  TypeOK'
BY CondemnTyped DEF Invalidate, TypeOK

LEMMA LandTyped ==
    ASSUME TypeOK, NEW f \in flying, Land(f)
    PROVE  TypeOK'
BY DEF Land, TypeOK

LEMMA RevokeProfileTyped ==
    ASSUME TypeOK, NEW p \in Profiles, RevokeProfile(p)
    PROVE  TypeOK'
BY CondemnTyped DEF RevokeProfile, TypeOK

LEMMA BeginErasureTyped ==
    ASSUME TypeOK, NEW p \in Profiles, BeginErasure(p)
    PROVE  TypeOK'
BY CondemnTyped DEF BeginErasure, TypeOK

LEMMA EraseTyped ==
    ASSUME TypeOK, NEW p \in Profiles, Erase(p)
    PROVE  TypeOK'
BY DEF Erase, TypeOK

LEMMA RevokeDeviceTyped ==
    ASSUME TypeOK, NEW d \in Devices, RevokeDevice(d)
    PROVE  TypeOK'
BY CondemnTyped DEF RevokeDevice, TypeOK

LEMMA DeviceExpiresTyped ==
    ASSUME TypeOK, NEW d \in Devices, DeviceExpires(d)
    PROVE  TypeOK'
BY DEF DeviceExpires, TypeOK

LEMMA CrashWorkerTyped ==
    ASSUME TypeOK, NEW w \in Workers, CrashWorker(w)
    PROVE  TypeOK'
BY TermsAssumption DEF CrashWorker, Job, Fault, Idle, JobType, TypeOK

LEMMA ReserveManifestTyped ==
    ASSUME TypeOK, NEW a \in Artifacts, ReserveManifest(a)
    PROVE  TypeOK'
<1>1. uploads' \in [Artifacts -> {"none", "staged", "reserved", "writing", "written",
                                    "delivered", "cleaning", "done"}]
  BY UploadTyped DEF ReserveManifest
<1>2. faults' \in 0..MaxFaults
  BY FaultTyped DEF ReserveManifest
<1>3. /\ manifests' \in [Artifacts -> RowType]
      /\ \A x \in Artifacts : manifests'[x].leaseLeft > 0 => manifests'[x].lease # None
  <2>1. CASE UNCHANGED manifests
    BY <2>1 DEF TypeOK
  <2>2. CASE manifests' = [manifests EXCEPT ![a] = Reserved(a)]
    <3>1. Reserved(a) \in RowType /\ ~(Reserved(a).leaseLeft > 0)
      BY RowsTyped
    <3> QED BY <2>2, <3>1, RowTyped
  <2> QED BY <2>1, <2>2 DEF ReserveManifest
<1> QED BY <1>1, <1>2, <1>3 DEF ReserveManifest, TypeOK

LEMMA StartPutsTyped ==
    ASSUME TypeOK, NEW a \in Artifacts, StartPuts(a)
    PROVE  TypeOK'
BY UploadTyped DEF StartPuts, FilesOf, TypeOK

LEMMA CommitDeliveryTyped ==
    ASSUME TypeOK, NEW a \in Artifacts, CommitDelivery(a)
    PROVE  TypeOK'
BY UploadTyped DEF CommitDelivery, TypeOK

LEMMA CommitManifestTyped ==
    ASSUME TypeOK, NEW a \in Artifacts, CommitManifest(a)
    PROVE  TypeOK'
<1>1. uploads' \in [Artifacts -> {"none", "staged", "reserved", "writing", "written",
                                    "delivered", "cleaning", "done"}]
  BY UploadTyped DEF CommitManifest
<1>2. faults' \in 0..MaxFaults
  BY FaultTyped DEF CommitManifest
<1>3. /\ manifests' \in [Artifacts -> RowType]
      /\ \A x \in Artifacts : manifests'[x].leaseLeft > 0 => manifests'[x].lease # None
  <2>1. CASE UNCHANGED manifests
    BY <2>1 DEF TypeOK
  <2>2. CASE manifests' = [manifests EXCEPT ![a].state = "active"]
    BY <2>2 DEF TypeOK, RowType, Kept
  <2>3. CASE manifests' = Condemn({a})
    BY <2>3, CondemnTyped
  <2> QED BY <2>1, <2>2, <2>3 DEF CommitManifest
<1> QED BY <1>1, <1>2, <1>3 DEF CommitManifest, TypeOK

LEMMA ReviseTyped ==
    ASSUME TypeOK, NEW p \in Profiles, Revise(p)
    PROVE  TypeOK'
BY NamesAssumption DEF Revise, OfProfile, TypeOK

LEMMA TickTyped ==
    ASSUME TypeOK, Tick
    PROVE  TypeOK'
<1>1. faults' \in 0..MaxFaults
  BY FaultTyped DEF Tick
<1>2. horizon' \in [Artifacts -> 0..(UploadTtl + Settlement + LateBy)]
  <2>1. \A n \in 0..(UploadTtl + Settlement + LateBy) :
            Less(n) \in 0..(UploadTtl + Settlement + LateBy)
    BY TermsAssumption DEF Less
  <2>2. horizon' = [a \in Artifacts |-> Less(horizon[a])]
    BY DEF Tick
  <2> QED BY <2>1, <2>2 DEF TypeOK
<1>3. /\ manifests' \in [Artifacts -> RowType]
      /\ \A x \in Artifacts : manifests'[x].leaseLeft > 0 => manifests'[x].lease # None
  <2>1. \A n \in Nat : Less(n) \in Nat
    BY DEF Less
  <2>2. \A n \in 0..LeaseTime : Less(n) \in 0..LeaseTime /\ (Less(n) > 0 => n > 0)
    BY TermsAssumption DEF Less
  <2>3. manifests' = [a \in Artifacts |->
            [manifests[a] EXCEPT !.due = Less(@), !.leaseLeft = Less(@)]]
    BY DEF Tick
  <2>4. ASSUME NEW a \in Artifacts
        PROVE  /\ manifests'[a] \in RowType
               /\ manifests'[a].leaseLeft > 0 => manifests'[a].lease # None
    <3>1. /\ manifests[a] \in RowType
          /\ manifests[a].leaseLeft > 0 => manifests[a].lease # None
      BY DEF TypeOK
    <3>2. manifests'[a] = [manifests[a] EXCEPT !.due = Less(@), !.leaseLeft = Less(@)]
      BY <2>3
    <3> QED BY <2>1, <2>2, <3>1, <3>2 DEF RowType
  <2> QED BY <2>3, <2>4
<1>4. flying' \subseteq Artifacts \X Parts
  BY DEF Tick, TypeOK
<1> QED BY <1>1, <1>2, <1>3, <1>4 DEF Tick, TypeOK

LEMMA ClaimTyped ==
    ASSUME TypeOK, NEW w \in Workers, Claim(w)
    PROVE  TypeOK'
<1> PICK E \in SUBSET {a \in Artifacts : manifests[a].state = "active"} :
        LET rows == Expired(E) IN
        \/ \E a \in Artifacts :
              /\ Claimable(rows, a)
              /\ manifests' = [rows EXCEPT ![a].lease = w, ![a].leaseLeft = LeaseTime]
              /\ Job(w, [pc |-> "deleting", artifact |-> a,
                         phase |-> IF rows[a].state = "first_absent" THEN "second" ELSE "first",
                         todo |-> Parts, broken |-> FALSE])
        \/ /\ \A a \in Artifacts : ~Claimable(rows, a)
           /\ manifests' = rows
           /\ UNCHANGED workers
  BY DEF Claim
<1> DEFINE rows == Expired(E)
<1>1. /\ rows \in [Artifacts -> RowType]
      /\ \A a \in Artifacts : rows[a].leaseLeft > 0 => rows[a].lease # None
  BY CondemnTyped DEF Expired
<1> HIDE DEF rows
<1>2. CASE manifests' = rows /\ UNCHANGED workers
  BY <1>1, <1>2 DEF Claim, TypeOK
<1>3. ASSUME NEW a \in Artifacts,
             manifests' = [rows EXCEPT ![a].lease = w, ![a].leaseLeft = LeaseTime],
             Job(w, [pc |-> "deleting", artifact |-> a,
                     phase |-> IF rows[a].state = "first_absent" THEN "second" ELSE "first",
                     todo |-> Parts, broken |-> FALSE])
      PROVE  TypeOK'
  <2>1. /\ manifests' \in [Artifacts -> RowType]
        /\ \A x \in Artifacts : manifests'[x].leaseLeft > 0 => manifests'[x].lease # None
    <3>1. rows[a] \in RowType /\ w # None
      BY <1>1, NamesAssumption
    <3>2. PICK row : row = [rows[a] EXCEPT !.lease = w, !.leaseLeft = LeaseTime]
      OBVIOUS
    <3>3. row \in RowType /\ row.lease = w
      <4> PICK taken : taken = [rows[a] EXCEPT !.lease = w]
        OBVIOUS
      <4>1. taken \in RowType /\ taken.lease = w
        BY <3>1 DEF RowType
      <4>2. row = [taken EXCEPT !.leaseLeft = LeaseTime]
        BY <3>2
      <4>3. LeaseTime \in 0..LeaseTime
        BY TermsAssumption
      <4> QED BY <4>1, <4>2, <4>3 DEF RowType
    <3>4. manifests' = [rows EXCEPT ![a] = row]
      BY <1>1, <1>3, <3>2
    <3> QED BY <1>1, <3>1, <3>3, <3>4
  <2>2. /\ workers' \in [Workers -> JobType]
        /\ \A v \in Workers : workers'[v].pc # "idle" => workers'[v].artifact \in Artifacts
    BY <1>3 DEF Job, TypeOK, JobType
  <2> QED BY <2>1, <2>2 DEF Claim, TypeOK
<1> QED BY <1>2, <1>3 DEF rows

LEMMA JobTyped ==
    ASSUME TypeOK, NEW w \in Workers, NEW job \in JobType, job.artifact \in Artifacts, Job(w, job)
    PROVE  /\ workers' \in [Workers -> JobType]
           /\ \A v \in Workers : workers'[v].pc # "idle" => workers'[v].artifact \in Artifacts
BY DEF Job, TypeOK

LEMMA IdleTyped ==
    ASSUME TypeOK, NEW w \in Workers, Job(w, Idle)
    PROVE  /\ workers' \in [Workers -> JobType]
           /\ \A v \in Workers : workers'[v].pc # "idle" => workers'[v].artifact \in Artifacts
BY DEF Job, Idle, JobType, TypeOK

LEMMA DeleteTyped ==
    ASSUME TypeOK, NEW w \in Workers, NEW k \in Parts, Delete(w, k)
    PROVE  TypeOK'
<1> DEFINE left == workers[w].todo \ {k}
           job(failed) ==
              IF left # {} THEN [workers[w] EXCEPT !.todo = left, !.broken = failed]
              ELSE IF failed THEN [workers[w] EXCEPT !.pc = "failed", !.todo = {}]
              ELSE [workers[w] EXCEPT !.pc = "verifying", !.todo = Parts]
<1>1. workers[w] \in JobType /\ workers[w].artifact \in Artifacts
  BY DEF Delete, TypeOK
<1>2. \A failed \in BOOLEAN : job(failed) \in JobType /\ job(failed).artifact \in Artifacts
  BY <1>1 DEF JobType
<1>3. workers[w].broken \in BOOLEAN
  BY <1>1 DEF JobType
<1>4. Job(w, job(TRUE)) \/ Job(w, job(workers[w].broken))
  BY DEF Delete
<1> HIDE DEF job
<1>5. /\ workers' \in [Workers -> JobType]
      /\ \A v \in Workers : workers'[v].pc # "idle" => workers'[v].artifact \in Artifacts
  BY <1>2, <1>3, <1>4, JobTyped
<1>6. faults' \in 0..MaxFaults
  BY FaultTyped DEF Delete
<1>7. objects' \subseteq Artifacts \X Parts
  BY DEF Delete, TypeOK
<1> QED BY <1>5, <1>6, <1>7 DEF Delete, TypeOK

LEMMA VerifyTyped ==
    ASSUME TypeOK, NEW w \in Workers, NEW k \in Parts, Verify(w, k)
    PROVE  TypeOK'
<1>1. workers[w] \in JobType /\ workers[w].artifact \in Artifacts
  BY DEF Verify, TypeOK
<1>2. /\ workers' \in [Workers -> JobType]
      /\ \A v \in Workers : workers'[v].pc # "idle" => workers'[v].artifact \in Artifacts
  <2>1. \A pc \in {"verifying", "verified", "failed"}, todo \in SUBSET Parts :
            /\ [workers[w] EXCEPT !.todo = todo, !.pc = pc] \in JobType
            /\ [workers[w] EXCEPT !.pc = pc] \in JobType
            /\ [workers[w] EXCEPT !.todo = todo, !.pc = pc].artifact \in Artifacts
            /\ [workers[w] EXCEPT !.pc = pc].artifact \in Artifacts
    BY <1>1 DEF JobType
  <2>2. CASE Job(w, [workers[w] EXCEPT !.pc = "failed"])
    BY <2>1, <2>2, JobTyped
  <2>3. CASE Job(w, [workers[w] EXCEPT !.todo = workers[w].todo \ {k},
                                       !.pc = IF workers[w].todo \ {k} = {} THEN "verified" ELSE @])
    <3>1. workers[w].pc = "verifying" /\ workers[w].todo \ {k} \in SUBSET Parts
      BY <1>1 DEF Verify, JobType
    <3>2. CASE workers[w].todo \ {k} = {}
      BY <2>1, <2>3, <3>1, <3>2, JobTyped
    <3>3. CASE workers[w].todo \ {k} # {}
      BY <2>1, <2>3, <3>1, <3>3, JobTyped
    <3> QED BY <3>2, <3>3
  <2> QED BY <2>2, <2>3 DEF Verify
<1>3. faults' \in 0..MaxFaults
  BY FaultTyped DEF Verify
<1> QED BY <1>2, <1>3 DEF Verify, TypeOK

LEMMA RecordTyped ==
    ASSUME TypeOK, NEW w \in Workers, Record(w)
    PROVE  TypeOK'
<1>1. workers[w] \in JobType /\ workers[w].artifact \in Artifacts
  BY DEF Record, TypeOK
<1>2. /\ [workers[w] EXCEPT !.pc = "failed"] \in JobType
      /\ [workers[w] EXCEPT !.pc = "failed"].artifact \in Artifacts
  BY <1>1 DEF JobType
<1>3. /\ workers' \in [Workers -> JobType]
      /\ \A v \in Workers : workers'[v].pc # "idle" => workers'[v].artifact \in Artifacts
  BY <1>1, <1>2, IdleTyped, JobTyped DEF Record
<1>4. faults' \in 0..MaxFaults
  BY FaultTyped DEF Record
<1>5. \/ manifests' = [manifests EXCEPT ![workers[w].artifact] = Recorded(w)]
      \/ UNCHANGED manifests
  BY DEF Record
<1>6. /\ manifests' \in [Artifacts -> RowType]
      /\ \A x \in Artifacts : manifests'[x].leaseLeft > 0 => manifests'[x].lease # None
  BY <1>1, <1>5, RowTyped, RowsTyped DEF TypeOK
<1> QED BY <1>3, <1>4, <1>6 DEF Record, TypeOK

LEMMA RetryTyped ==
    ASSUME TypeOK, NEW w \in Workers, Retry(w)
    PROVE  TypeOK'
BY IdleTyped, FaultTyped, TermsAssumption DEF Retry, TypeOK, RowType

-----------------------------------------------------------------------------
(* What the uploads and the owner do to the rows: they ask for deletions.    *)

CondemnsOnly ==
    \A a \in Artifacts :
        \/ manifests'[a] = manifests[a]
        \/ /\ manifests[a].state \in Kept
           /\ manifests'[a].state = "deletion_requested" /\ manifests'[a].lease = None

UploadsGoOn ==
    \A a \in Artifacts :
        \/ uploads'[a] = uploads[a]
        \/ /\ uploads'[a] \notin Early \cup {"reserved"}
           /\ uploads'[a] \in {"written", "delivered"} =>
                 \/ uploads[a] = "written"
                 \/ \A k \in Parts : <<a, k>> \in objects

LEMMA CondemnCondemns ==
    ASSUME TypeOK, NEW S, manifests' = Condemn(S)
    PROVE  CondemnsOnly
BY DEF Condemn, CondemnsOnly

LEMMA UploadGoesOn ==
    ASSUME TypeOK, NEW a \in Artifacts, NEW from, NEW to, Upload(a, from, to),
           to \notin Early \cup {"reserved"},
           to \in {"written", "delivered"} => from = "written" \/ FilesOf(a) \subseteq objects
    PROVE  UploadsGoOn
BY DEF FilesOf, Upload, UploadsGoOn, TypeOK

LEMMA CondemnsKeep ==
    ASSUME StorageInv, CondemnsOnly, UploadsGoOn, UNCHANGED <<horizon, objects, flying, workers>>
    PROVE  SentHasTime' /\ AllRows' /\ AllJobs' /\ NoOrphan' /\ ActiveIsStored'
<1>1. SentHasTime'
  BY DEF StorageInv, SentHasTime
<1>2. AllRows'
  BY DEF StorageInv, AllRows, RowInv, CondemnsOnly, UploadsGoOn, Kept, Writable, Early
<1>3. AllJobs'
  BY DEF StorageInv, AllJobs, TypeOK, JobInv, CondemnsOnly, UploadsGoOn
<1>4. NoOrphan'
  BY DEF StorageInv, NoOrphan, CondemnsOnly, TypeOK, Kept
<1>5. ActiveIsStored'
  BY DEF StorageInv, ActiveIsStored, CondemnsOnly, FilesOf
<1> QED BY <1>1, <1>2, <1>3, <1>4, <1>5

LEMMA OwnersKeep ==
    ASSUME StorageInv, CondemnsOnly, UNCHANGED <<profiles, devices, objects, flying>>
    PROVE  ErasedIsEmpty' /\ EndedIsCondemned'
BY DEF StorageInv, ErasedIsEmpty, EndedIsCondemned, CondemnsOnly, ProfileOf, FilesOf, Kept

LEMMA UnchangedCondemns ==
    ASSUME UNCHANGED manifests
    PROVE  CondemnsOnly
BY DEF CondemnsOnly

LEMMA UnchangedGoesOn ==
    ASSUME UNCHANGED uploads
    PROVE  UploadsGoOn
BY DEF UploadsGoOn

\* What an upload does that neither stages, nor writes a row anew, nor sends.
LEMMA UploadKeeps ==
    ASSUME StorageInv, TypeOK', CondemnsOnly, UploadsGoOn,
           UNCHANGED <<profiles, devices, horizon, objects, flying, workers>>
    PROVE  StorageInv'
BY CondemnsKeep, OwnersKeep DEF StorageInv

LEMMA PutsAnsweredKeeps ==
    ASSUME StorageInv, NEW a \in Artifacts, PutsAnswered(a)
    PROVE  StorageInv'
BY PutsAnsweredTyped, UnchangedCondemns, UploadGoesOn, UploadKeeps
   DEF StorageInv, PutsAnswered, Early

LEMMA GiveUpKeeps ==
    ASSUME StorageInv, NEW a \in Artifacts, GiveUp(a)
    PROVE  StorageInv'
BY GiveUpTyped, UnchangedCondemns, UploadGoesOn, UploadKeeps DEF StorageInv, GiveUp, Early

LEMMA CommitDeliveryKeeps ==
    ASSUME StorageInv, NEW a \in Artifacts, CommitDelivery(a)
    PROVE  StorageInv'
BY CommitDeliveryTyped, UnchangedCondemns, UploadGoesOn, UploadKeeps
   DEF StorageInv, CommitDelivery, Early

LEMMA CleanUpKeeps ==
    ASSUME StorageInv, NEW a \in Artifacts, CleanUp(a)
    PROVE  StorageInv'
BY CleanUpTyped, UnchangedCondemns, CondemnCondemns, UploadGoesOn, UploadKeeps
   DEF StorageInv, CleanUp, Early

LEMMA CrashUploadKeeps ==
    ASSUME StorageInv, NEW a \in Artifacts, CrashUpload(a)
    PROVE  StorageInv'
BY CrashUploadTyped, UnchangedCondemns, UploadKeeps
   DEF StorageInv, CrashUpload, UploadsGoOn, Early, TypeOK

LEMMA InvalidateKeeps ==
    ASSUME StorageInv, NEW a \in Artifacts, Invalidate(a)
    PROVE  StorageInv'
BY InvalidateTyped, CondemnCondemns, UnchangedGoesOn, UploadKeeps DEF StorageInv, Invalidate

LEMMA ReviseKeeps ==
    ASSUME StorageInv, NEW p \in Profiles, Revise(p)
    PROVE  StorageInv'
BY ReviseTyped, UnchangedCondemns, UnchangedGoesOn, UploadKeeps DEF StorageInv, Revise

-----------------------------------------------------------------------------
(* The owner.                                                                *)

LEMMA ProfileEndKeeps ==
    ASSUME StorageInv, NEW p \in Profiles, NEW s \in {"revoked", "pending"},
           profiles[p] = "active", profiles' = [profiles EXCEPT ![p] = s],
           manifests' = Condemn(OfProfile(p)),
           UNCHANGED <<devices, objects, flying>>
    PROVE  ErasedIsEmpty' /\ EndedIsCondemned'
BY DEF OfProfile, StorageInv, TypeOK, ErasedIsEmpty, Condemn, ProfileOf, FilesOf, Kept,
       EndedIsCondemned

LEMMA RevokeProfileKeeps ==
    ASSUME StorageInv, NEW p \in Profiles, RevokeProfile(p)
    PROVE  StorageInv'
BY RevokeProfileTyped, CondemnCondemns, UnchangedGoesOn, ProfileEndKeeps, CondemnsKeep
   DEF StorageInv, RevokeProfile

LEMMA BeginErasureKeeps ==
    ASSUME StorageInv, NEW p \in Profiles, BeginErasure(p)
    PROVE  StorageInv'
BY BeginErasureTyped, CondemnCondemns, UnchangedGoesOn, ProfileEndKeeps, CondemnsKeep
   DEF StorageInv, BeginErasure

LEMMA EraseKeeps ==
    ASSUME StorageInv, NEW p \in Profiles, Erase(p)
    PROVE  StorageInv'
<1>1. TypeOK /\ TypeOK'
  BY EraseTyped DEF StorageInv
<1>2. CondemnsOnly /\ UploadsGoOn
  BY UnchangedCondemns, UnchangedGoesOn DEF Erase
<1>3. ErasedIsEmpty'
  BY DEF Erase, Unreferenced, OfProfile, StorageInv, NoOrphan, FilesOf, ErasedIsEmpty, TypeOK,
         ProfileOf
<1>4. EndedIsCondemned'
  BY DEF Erase, StorageInv, EndedIsCondemned, TypeOK, ProfileOf
<1> QED BY <1>1, <1>2, <1>3, <1>4, CondemnsKeep DEF Erase, StorageInv

LEMMA RevokeDeviceKeeps ==
    ASSUME StorageInv, NEW d \in Devices, RevokeDevice(d)
    PROVE  StorageInv'
<1>1. TypeOK /\ TypeOK'
  BY RevokeDeviceTyped DEF StorageInv
<1>2. CondemnsOnly /\ UploadsGoOn
  BY <1>1, CondemnCondemns, UnchangedGoesOn DEF RevokeDevice
<1>3. ErasedIsEmpty'
  BY <1>2 DEF RevokeDevice, StorageInv, ErasedIsEmpty, CondemnsOnly, ProfileOf, FilesOf, Kept
<1>4. EndedIsCondemned'
  BY <1>2
     DEF RevokeDevice, Condemn, OfDevice, Kept, StorageInv, EndedIsCondemned, CondemnsOnly, TypeOK,
         ProfileOf
<1> QED BY <1>1, <1>2, <1>3, <1>4, CondemnsKeep DEF RevokeDevice, StorageInv

LEMMA DeviceExpiresKeeps ==
    ASSUME StorageInv, NEW d \in Devices, DeviceExpires(d)
    PROVE  StorageInv'
BY DeviceExpiresTyped, UnchangedCondemns, UnchangedGoesOn, CondemnsKeep
   DEF StorageInv, DeviceExpires, ErasedIsEmpty, EndedIsCondemned, TypeOK, ProfileOf, FilesOf

-----------------------------------------------------------------------------
(* The steps of an upload that stage, write a row, or send.                  *)

\* Nobody works on, and nothing is stored for, what has not been reserved.
LEMMA NothingEarly ==
    ASSUME StorageInv, NEW a \in Artifacts, uploads[a] \in Early
    PROVE  /\ manifests[a].state = "none"
           /\ \A f \in objects \cup flying : f[1] # a
           /\ \A w \in Workers : workers[w].pc # "idle" => workers[w].artifact # a
BY DEF StorageInv, AllRows, RowInv, NoOrphan, AllJobs, JobInv

\* A step that leaves the artifact of a worker alone leaves what it believes.
LEMMA OtherJobs ==
    ASSUME StorageInv, NEW a \in Artifacts,
           \A w \in Workers : workers[w].pc # "idle" => workers[w].artifact # a,
           \A x \in Artifacts \ {a} :
               manifests'[x] = manifests[x] /\ horizon'[x] = horizon[x] /\ uploads'[x] = uploads[x],
           UNCHANGED <<objects, workers>>
    PROVE  AllJobs'
BY DEF StorageInv, AllJobs, TypeOK, JobInv

LEMMA StageUploadKeeps ==
    ASSUME StorageInv, NEW a \in Artifacts, StageUpload(a)
    PROVE  StorageInv'
<1>1. TypeOK /\ TypeOK'
  BY StageUploadTyped DEF StorageInv
<1>2. uploads[a] = "none" /\ uploads' = [uploads EXCEPT ![a] = "staged"]
  BY DEF StageUpload, Upload
<1>3. /\ manifests[a].state = "none"
      /\ \A f \in objects \cup flying : f[1] # a
      /\ \A w \in Workers : workers[w].pc # "idle" => workers[w].artifact # a
  BY <1>2, NothingEarly DEF Early
<1>4. \A x \in Artifacts \ {a} : horizon'[x] = horizon[x] /\ uploads'[x] = uploads[x]
  BY <1>1, <1>2 DEF StageUpload, TypeOK
<1>5. SentHasTime'
  BY <1>1, <1>3, <1>4 DEF StageUpload, StorageInv, SentHasTime, TypeOK
<1>6. AllRows'
  BY <1>1, <1>2, <1>3, <1>4 DEF StageUpload, StorageInv, AllRows, RowInv, Writable, Early, TypeOK
<1>7. AllJobs'
  BY <1>3, <1>4, OtherJobs DEF StageUpload
<1>8. NoOrphan' /\ ErasedIsEmpty' /\ ActiveIsStored' /\ EndedIsCondemned'
  BY DEF StageUpload, StorageInv, NoOrphan, ErasedIsEmpty, ActiveIsStored, EndedIsCondemned,
         ProfileOf, FilesOf
<1> QED BY <1>1, <1>5, <1>6, <1>7, <1>8 DEF StorageInv

LEMMA ReserveManifestKeeps ==
    ASSUME StorageInv, NEW a \in Artifacts, ReserveManifest(a)
    PROVE  StorageInv'
<1>1. TypeOK /\ TypeOK'
  BY ReserveManifestTyped DEF StorageInv
<1>2. /\ uploads[a] = "staged"
      /\ \/ uploads' = [uploads EXCEPT ![a] = "reserved"] /\ ~UNCHANGED manifests
         \/ uploads' = [uploads EXCEPT ![a] = "cleaning"]
      /\ \/ UNCHANGED manifests
         \/ BindingHeld(a) /\ manifests' = [manifests EXCEPT ![a] = Reserved(a)]
  BY NothingEarly, <1>1 DEF ReserveManifest, Upload, Early, Reserved, TypeOK
<1>3. /\ manifests[a].state = "none"
      /\ \A f \in objects \cup flying : f[1] # a
      /\ \A w \in Workers : workers[w].pc # "idle" => workers[w].artifact # a
  BY <1>2, NothingEarly DEF Early
<1>4. \A x \in Artifacts \ {a} : manifests'[x] = manifests[x] /\ uploads'[x] = uploads[x]
  BY <1>1, <1>2 DEF TypeOK
<1>5. \/ manifests'[a] = manifests[a] /\ uploads'[a] = "cleaning"
      \/ manifests'[a].state = "uploading" /\ BindingHeld(a) /\ uploads'[a] \in {"reserved", "cleaning"}
  BY <1>1, <1>2 DEF Reserved, TypeOK
<1>6. UNCHANGED <<profiles, devices, stale, horizon, objects, flying, workers>>
  BY DEF ReserveManifest
<1>7. SentHasTime'
  BY <1>6 DEF StorageInv, SentHasTime
<1>8. AllRows'
  BY <1>3, <1>4, <1>5, <1>6 DEF StorageInv, AllRows, RowInv, Writable, Early
<1>9. AllJobs'
  BY <1>3, <1>4, <1>6, OtherJobs
<1>10. NoOrphan' /\ ActiveIsStored'
  BY <1>1, <1>3, <1>4, <1>5, <1>6 DEF StorageInv, NoOrphan, ActiveIsStored, FilesOf, TypeOK
<1>11. ErasedIsEmpty' /\ EndedIsCondemned'
  BY <1>3, <1>4, <1>5, <1>6 DEF StorageInv, ErasedIsEmpty, EndedIsCondemned, BindingHeld, ProfileOf,
                                FilesOf, Kept
<1> QED BY <1>1, <1>7, <1>8, <1>9, <1>10, <1>11 DEF StorageInv

LEMMA StartPutsKeeps ==
    ASSUME StorageInv, NEW a \in Artifacts, StartPuts(a)
    PROVE  StorageInv'
<1>1. TypeOK /\ TypeOK'
  BY StartPutsTyped DEF StorageInv
<1>2. CondemnsOnly /\ UploadsGoOn
  BY <1>1, UnchangedCondemns DEF StartPuts, Upload, UploadsGoOn, TypeOK, Early
<1>3. UNCHANGED <<profiles, devices, horizon, manifests, objects, workers>>
  BY DEF StartPuts
<1>4. CASE UNCHANGED flying
  BY <1>1, <1>2, <1>3, <1>4, UploadKeeps
<1>5. CASE Writable(a) /\ uploads[a] = "reserved" /\ flying' = flying \cup FilesOf(a)
  <2>1. manifests[a].state # "none" /\ horizon[a] > 0
    BY <1>1, <1>5, TermsAssumption DEF StorageInv, AllRows, RowInv, Writable, TypeOK
  <2>2. SentHasTime' /\ NoOrphan'
    BY <1>3, <1>5, <2>1 DEF StorageInv, SentHasTime, NoOrphan, FilesOf
  <2>3. AllRows'
    BY <1>2, <1>3 DEF StorageInv, AllRows, RowInv, UploadsGoOn, Writable, Early
  <2>4. AllJobs'
    BY <1>2, <1>3 DEF StorageInv, AllJobs, TypeOK, JobInv, UploadsGoOn
  <2>5. ActiveIsStored' /\ EndedIsCondemned'
    BY <1>3 DEF StorageInv, ActiveIsStored, EndedIsCondemned, FilesOf, ProfileOf
  <2>6. ErasedIsEmpty'
    BY <1>3, <1>5, <2>1 DEF StorageInv, ErasedIsEmpty, FilesOf, ProfileOf
  <2> QED BY <1>1, <2>2, <2>3, <2>4, <2>5, <2>6 DEF StorageInv
<1> QED BY <1>4, <1>5 DEF StartPuts, Upload

LEMMA LandKeeps ==
    ASSUME StorageInv, NEW f \in flying, Land(f)
    PROVE  StorageInv'
<1>1. TypeOK /\ TypeOK'
  BY LandTyped DEF StorageInv
<1>2. horizon[f[1]] > 0 /\ f \in Artifacts \X Parts
  BY DEF StorageInv, SentHasTime, TypeOK
<1>3. SentHasTime' /\ NoOrphan'
  BY DEF Land, StorageInv, SentHasTime, NoOrphan
<1>4. AllRows'
  BY DEF Land, StorageInv, AllRows, RowInv, Writable
<1>5. AllJobs'
  BY <1>2 DEF StorageInv, AllJobs, JobInv, Land
<1>6. ActiveIsStored' /\ EndedIsCondemned'
  BY DEF Land, StorageInv, ActiveIsStored, EndedIsCondemned, FilesOf, ProfileOf
<1>7. ErasedIsEmpty'
  BY DEF Land, StorageInv, ErasedIsEmpty, FilesOf, ProfileOf
<1> QED BY <1>1, <1>3, <1>4, <1>5, <1>6, <1>7 DEF StorageInv

LEMMA CommitManifestKeeps ==
    ASSUME StorageInv, NEW a \in Artifacts, CommitManifest(a)
    PROVE  StorageInv'
<1>1. TypeOK /\ TypeOK'
  BY CommitManifestTyped DEF StorageInv
<1>2. UploadsGoOn
  BY <1>1, UploadGoesOn DEF CommitManifest, Early
<1>3. UNCHANGED <<profiles, devices, horizon, objects, flying, workers>>
  BY DEF CommitManifest
<1>4. CASE UNCHANGED manifests \/ manifests' = Condemn({a})
  BY <1>1, <1>2, <1>3, <1>4, UnchangedCondemns, CondemnCondemns, UploadKeeps
<1>5. CASE /\ Committable(a) /\ BindingHeld(a) /\ Upload(a, "delivered", "done")
           /\ manifests' = [manifests EXCEPT ![a].state = "active"]
  <2>1. /\ manifests[a].state = "uploading" /\ manifests'[a].state = "active"
        /\ uploads[a] = "delivered" /\ uploads'[a] = "done"
        /\ \A x \in Artifacts \ {a} : manifests'[x] = manifests[x] /\ uploads'[x] = uploads[x]
    BY <1>1, <1>5 DEF Committable, Upload, TypeOK, RowType
  <2>2. \A k \in Parts : <<a, k>> \in objects
    BY <2>1 DEF StorageInv, AllRows, RowInv
  <2>3. \A w \in Workers : workers[w].pc # "idle" => workers[w].artifact # a
    BY <2>1 DEF StorageInv, AllJobs, JobInv, Kept
  <2>4. SentHasTime' /\ NoOrphan'
    BY <1>1, <1>3, <2>1 DEF StorageInv, SentHasTime, NoOrphan, TypeOK
  <2>5. AllRows'
    BY <1>3, <2>1 DEF StorageInv, AllRows, RowInv, Writable, Early
  <2>6. AllJobs'
    BY <1>3, <2>1, <2>3, OtherJobs
  <2>7. ActiveIsStored'
    BY <1>3, <2>1, <2>2 DEF StorageInv, ActiveIsStored, FilesOf
  <2>8. ErasedIsEmpty' /\ EndedIsCondemned'
    BY <1>3, <1>5, <2>1 DEF StorageInv, ErasedIsEmpty, EndedIsCondemned, BindingHeld, ProfileOf,
                            FilesOf, Kept
  <2> QED BY <1>1, <2>4, <2>5, <2>6, <2>7, <2>8 DEF StorageInv
<1> QED BY <1>4, <1>5 DEF CommitManifest

-----------------------------------------------------------------------------
(* The clock and the deletion workers.                                       *)

LEMMA TickKeeps ==
    ASSUME StorageInv, Tick
    PROVE  StorageInv'
<1>1. TypeOK /\ TypeOK'
  BY TickTyped DEF StorageInv
<1>2. /\ UNCHANGED <<profiles, devices, stale, uploads, objects, workers>>
      /\ flying' = {f \in flying : horizon[f[1]] > 1}
      /\ \A a \in Artifacts : horizon'[a] = Less(horizon[a])
  BY DEF Tick
<1>3. ASSUME NEW a \in Artifacts
      PROVE  /\ manifests'[a].state = manifests[a].state /\ manifests'[a].lease = manifests[a].lease
             /\ manifests'[a].due = Less(manifests[a].due)
  <2>1. manifests[a] \in RowType
    BY <1>1 DEF TypeOK
  <2>2. manifests'[a] = [manifests[a] EXCEPT !.due = Less(@), !.leaseLeft = Less(@)]
    BY DEF Tick
  <2> QED BY <2>1, <2>2 DEF RowType
<1>4. \A a \in Artifacts : horizon[a] \in Nat /\ manifests[a].due \in Nat
  BY <1>1, TermsAssumption DEF TypeOK, RowType
<1>5. SentHasTime' /\ NoOrphan'
  BY <1>1, <1>2, <1>3, <1>4 DEF StorageInv, SentHasTime, NoOrphan, Less, TypeOK
<1>6. AllRows'
  BY <1>2, <1>4, TermsAssumption, <1>3 DEF StorageInv, AllRows, Writable, Less, RowInv
<1>7. AllJobs'
  BY <1>2, <1>4, TermsAssumption, <1>3 DEF StorageInv, AllJobs, TypeOK, JobInv, Less
<1>8. ActiveIsStored' /\ EndedIsCondemned' /\ ErasedIsEmpty'
  BY <1>2, <1>3 DEF StorageInv, ActiveIsStored, EndedIsCondemned, ErasedIsEmpty, FilesOf, ProfileOf
<1> QED BY <1>1, <1>5, <1>6, <1>7, <1>8 DEF StorageInv

\* A claim sweeps, and leases one row if there is one.
LEMMA ClaimRows ==
    ASSUME StorageInv, NEW w \in Workers, Claim(w)
    PROVE  \/ CondemnsOnly /\ UNCHANGED workers
           \/ \E a \in Artifacts :
                 /\ manifests'[a].state \in Condemned /\ manifests'[a].lease = w
                 /\ manifests'[a].due = 0 /\ Settled(a)
                 /\ workers' = [workers EXCEPT ![w] =
                       [pc |-> "deleting", artifact |-> a,
                        phase |-> IF manifests'[a].state = "first_absent" THEN "second" ELSE "first",
                        todo |-> Parts, broken |-> FALSE]]
                 /\ \/ /\ manifests'[a].state = manifests[a].state
                       /\ manifests'[a].due = manifests[a].due
                    \/ manifests[a].state \in Kept /\ manifests'[a].state = "deletion_requested"
                 /\ \A x \in Artifacts \ {a} :
                       \/ manifests'[x] = manifests[x]
                       \/ /\ manifests[x].state \in Kept
                          /\ manifests'[x].state = "deletion_requested"
                          /\ manifests'[x].lease = None
<1> PICK E \in SUBSET {a \in Artifacts : manifests[a].state = "active"} :
        LET rows == Expired(E) IN
        \/ \E a \in Artifacts :
              /\ Claimable(rows, a)
              /\ manifests' = [rows EXCEPT ![a].lease = w, ![a].leaseLeft = LeaseTime]
              /\ Job(w, [pc |-> "deleting", artifact |-> a,
                         phase |-> IF rows[a].state = "first_absent" THEN "second" ELSE "first",
                         todo |-> Parts, broken |-> FALSE])
        \/ /\ \A a \in Artifacts : ~Claimable(rows, a)
           /\ manifests' = rows
           /\ UNCHANGED workers
  BY DEF Claim
<1> DEFINE rows == Expired(E)
<1>1. rows \in [Artifacts -> RowType]
  BY CondemnTyped DEF StorageInv, Expired
<1>2. \A x \in Artifacts :
          \/ rows[x] = manifests[x]
          \/ /\ manifests[x].state \in Kept
             /\ rows[x].state = "deletion_requested" /\ rows[x].lease = None
  BY DEF Expired, Condemn
<1> HIDE DEF rows
<1>3. CASE manifests' = rows /\ UNCHANGED workers
  BY <1>2, <1>3 DEF CondemnsOnly
<1>4. ASSUME NEW a \in Artifacts, Claimable(rows, a),
             manifests' = [rows EXCEPT ![a].lease = w, ![a].leaseLeft = LeaseTime],
             Job(w, [pc |-> "deleting", artifact |-> a,
                     phase |-> IF rows[a].state = "first_absent" THEN "second" ELSE "first",
                     todo |-> Parts, broken |-> FALSE])
      PROVE  \E y \in Artifacts :
                 /\ manifests'[y].state \in Condemned /\ manifests'[y].lease = w
                 /\ manifests'[y].due = 0 /\ Settled(y)
                 /\ workers' = [workers EXCEPT ![w] =
                       [pc |-> "deleting", artifact |-> y,
                        phase |-> IF manifests'[y].state = "first_absent" THEN "second" ELSE "first",
                        todo |-> Parts, broken |-> FALSE]]
                 /\ \/ /\ manifests'[y].state = manifests[y].state
                       /\ manifests'[y].due = manifests[y].due
                    \/ manifests[y].state \in Kept /\ manifests'[y].state = "deletion_requested"
                 /\ \A x \in Artifacts \ {y} :
                       \/ manifests'[x] = manifests[x]
                       \/ /\ manifests[x].state \in Kept
                          /\ manifests'[x].state = "deletion_requested"
                          /\ manifests'[x].lease = None
  <2>1. /\ manifests'[a].state = rows[a].state /\ manifests'[a].due = rows[a].due
        /\ manifests'[a].lease = w
        /\ \A x \in Artifacts \ {a} : manifests'[x] = rows[x]
    BY <1>1, <1>4 DEF RowType
  <2>2. rows[a].state \in Condemned /\ rows[a].due = 0 /\ Settled(a)
    BY <1>4 DEF Claimable
  <2>3. workers' = [workers EXCEPT ![w] =
           [pc |-> "deleting", artifact |-> a,
            phase |-> IF manifests'[a].state = "first_absent" THEN "second" ELSE "first",
            todo |-> Parts, broken |-> FALSE]]
    BY <1>4, <2>1 DEF Job
  <2>4. \/ manifests'[a].state = manifests[a].state /\ manifests'[a].due = manifests[a].due
        \/ manifests[a].state \in Kept /\ manifests'[a].state = "deletion_requested"
    BY <1>2, <2>1
  <2>5. \A x \in Artifacts \ {a} :
            \/ manifests'[x] = manifests[x]
            \/ /\ manifests[x].state \in Kept
               /\ manifests'[x].state = "deletion_requested" /\ manifests'[x].lease = None
    BY <1>2, <2>1
  <2> QED BY <2>1, <2>2, <2>3, <2>4, <2>5
<1> QED BY <1>3, <1>4 DEF rows

LEMMA ClaimKeeps ==
    ASSUME StorageInv, NEW w \in Workers, Claim(w)
    PROVE  StorageInv'
<1>1. TypeOK /\ TypeOK'
  BY ClaimTyped DEF StorageInv
<1>2. UNCHANGED <<profiles, devices, stale, uploads, horizon, objects, flying, faults>>
  BY DEF Claim
<1>3. CASE CondemnsOnly /\ UNCHANGED workers
  BY <1>1, <1>2, <1>3, UnchangedGoesOn, UploadKeeps
<1>4. ASSUME NEW a \in Artifacts,
             manifests'[a].state \in Condemned, manifests'[a].lease = w,
             manifests'[a].due = 0, Settled(a),
             workers' = [workers EXCEPT ![w] =
                [pc |-> "deleting", artifact |-> a,
                 phase |-> IF manifests'[a].state = "first_absent" THEN "second" ELSE "first",
                 todo |-> Parts, broken |-> FALSE]],
             \/ manifests'[a].state = manifests[a].state /\ manifests'[a].due = manifests[a].due
             \/ manifests[a].state \in Kept /\ manifests'[a].state = "deletion_requested",
             \A x \in Artifacts \ {a} :
                \/ manifests'[x] = manifests[x]
                \/ /\ manifests[x].state \in Kept
                   /\ manifests'[x].state = "deletion_requested" /\ manifests'[x].lease = None
      PROVE  StorageInv'
  <2>1. \A x \in Artifacts :
            \/ manifests'[x].state = manifests[x].state /\ manifests'[x].due = manifests[x].due
            \/ manifests[x].state \in Kept /\ manifests'[x].state = "deletion_requested"
    BY <1>4
  <2>2. horizon[a] <= LateBy /\ horizon[a] \in Nat
    BY <1>1, <1>4, TermsAssumption DEF Settled, SettleLeft, TypeOK
  <2>3. uploads[a] \notin Early
    BY <1>4, NothingEarly DEF Kept, Condemned
  <2>4. manifests'[a].state = "first_absent" => horizon[a] = 0
    BY <1>4, <2>2 DEF StorageInv, AllRows, RowInv
  <2>5. SentHasTime'
    BY <1>2 DEF StorageInv, SentHasTime
  <2>6. NoOrphan'
    BY <1>1, <1>2, <2>1 DEF StorageInv, NoOrphan, Kept, TypeOK
  <2>7. AllRows'
    BY <1>2, <2>1 DEF StorageInv, AllRows, RowInv, Writable, Kept, Early
  <2>8. ActiveIsStored' /\ EndedIsCondemned' /\ ErasedIsEmpty'
    BY <1>2, <2>1 DEF StorageInv, ActiveIsStored, EndedIsCondemned, ErasedIsEmpty, FilesOf,
                      ProfileOf, Kept
  <2>9. JobInv(w, a)'
    BY <1>1, <1>4, <1>2, <2>2, <2>3, <2>4 DEF TypeOK, JobInv, Kept, Condemned
  <2>10. ASSUME NEW v \in Workers \ {w}, workers[v].pc # "idle"
         PROVE  JobInv(v, workers[v].artifact)'
    BY <2>10, <1>1, <1>4, <1>2, <2>1 DEF StorageInv, AllJobs, TypeOK, JobInv
  <2>11. AllJobs'
    BY <1>1, <1>4, <2>9, <2>10 DEF TypeOK, AllJobs
  <2> QED BY <1>1, <2>5, <2>6, <2>7, <2>8, <2>11 DEF StorageInv
<1> QED BY <1>3, <1>4, ClaimRows

\* A step that only moves a worker leaves the store and the rows alone.
LEMMA JobKeeps ==
    ASSUME StorageInv, TypeOK', NEW w \in Workers,
           \A v \in Workers \ {w} : workers'[v] = workers[v],
           (workers[w].pc # "idle" => JobInv(w, workers[w].artifact))',
           UNCHANGED <<profiles, devices, uploads, horizon, manifests, objects, flying>>
    PROVE  StorageInv'
<1>1. SentHasTime' /\ NoOrphan'
  BY DEF StorageInv, SentHasTime, NoOrphan
<1>2. AllRows'
  BY DEF StorageInv, AllRows, RowInv, Writable
<1>3. ActiveIsStored' /\ EndedIsCondemned' /\ ErasedIsEmpty'
  BY DEF StorageInv, ActiveIsStored, EndedIsCondemned, ErasedIsEmpty, FilesOf, ProfileOf
<1>4. ASSUME NEW v \in Workers \ {w}, workers[v].pc # "idle"
      PROVE  JobInv(v, workers[v].artifact)'
  BY <1>4 DEF StorageInv, AllJobs, JobInv
<1>5. AllJobs'
  BY <1>4 DEF AllJobs
<1> QED BY <1>1, <1>2, <1>3, <1>5 DEF StorageInv

LEMMA IdleKeeps ==
    ASSUME StorageInv, TypeOK', NEW w \in Workers, Job(w, Idle),
           UNCHANGED <<profiles, devices, uploads, horizon, manifests, objects, flying>>
    PROVE  StorageInv'
BY JobKeeps DEF Job, Idle, StorageInv, TypeOK

LEMMA CrashWorkerKeeps ==
    ASSUME StorageInv, NEW w \in Workers, CrashWorker(w)
    PROVE  StorageInv'
BY CrashWorkerTyped, IdleKeeps DEF StorageInv, CrashWorker

LEMMA VerifyKeeps ==
    ASSUME StorageInv, NEW w \in Workers, NEW k \in Parts, Verify(w, k)
    PROVE  StorageInv'
<1>1. TypeOK /\ TypeOK'
  BY VerifyTyped DEF StorageInv
<1> DEFINE a == workers[w].artifact
           left == workers[w].todo \ {k}
           failed == [workers[w] EXCEPT !.pc = "failed"]
           further == [workers[w] EXCEPT !.todo = left, !.pc = IF left = {} THEN "verified" ELSE @]
<1>2. /\ JobInv(w, a) /\ workers[w] \in JobType /\ workers[w].pc = "verifying"
      /\ workers[w].todo \subseteq Parts
  BY DEF Verify, StorageInv, AllJobs, TypeOK, JobType
<1>3. UNCHANGED <<profiles, devices, stale, uploads, horizon, manifests, objects, flying>>
  BY DEF Verify
<1>4. CASE Job(w, failed)
  BY <1>2, <1>1, <1>4, <1>3, JobKeeps DEF JobType, Job, TypeOK, JobInv
<1>5. CASE <<a, k>> \notin objects /\ Job(w, further)
  <2>1. /\ further.artifact = a /\ further.phase = workers[w].phase /\ further.todo = left
        /\ further.pc = IF left = {} THEN "verified" ELSE "verifying"
    BY <1>2 DEF JobType
  <2>2. workers'[w] = further /\ \A v \in Workers \ {w} : workers'[v] = workers[v]
    BY <1>1, <1>5 DEF Job, TypeOK
  <2>3. workers[w].phase = "second" => \A j \in Parts \ left : <<a, j>> \notin objects
    BY <1>2, <1>5 DEF JobInv
  <2>4. (workers[w].pc # "idle" => JobInv(w, workers[w].artifact))'
    BY <1>2, <1>3, <2>1, <2>2, <2>3 DEF JobInv
  <2> QED BY <1>1, <1>3, <2>2, <2>4, JobKeeps
<1> QED BY <1>4, <1>5 DEF Verify

LEMMA DeleteKeeps ==
    ASSUME StorageInv, NEW w \in Workers, NEW k \in Parts, Delete(w, k)
    PROVE  StorageInv'
<1>1. TypeOK /\ TypeOK'
  BY DeleteTyped DEF StorageInv
<1> DEFINE a == workers[w].artifact
<1>2. /\ JobInv(w, a) /\ a \in Artifacts /\ workers[w] \in JobType
      /\ workers[w].pc = "deleting"
  BY DEF Delete, StorageInv, AllJobs, TypeOK
<1>3. /\ UNCHANGED <<profiles, devices, stale, uploads, horizon, manifests, flying>>
      /\ objects' = objects \/ objects' = objects \ {<<a, k>>}
  BY DEF Delete
<1>4. /\ workers'[w].artifact = a /\ workers'[w].phase = workers[w].phase
      /\ workers'[w].pc = "verifying" => workers'[w].todo = Parts
      /\ workers'[w].pc # "verified"
      /\ \A v \in Workers \ {w} : workers'[v] = workers[v]
  <2> DEFINE left == workers[w].todo \ {k}
             job(failed) ==
                IF left # {} THEN [workers[w] EXCEPT !.todo = left, !.broken = failed]
                ELSE IF failed THEN [workers[w] EXCEPT !.pc = "failed", !.todo = {}]
                ELSE [workers[w] EXCEPT !.pc = "verifying", !.todo = Parts]
  <2>1. \A failed \in BOOLEAN :
            /\ job(failed).artifact = a /\ job(failed).phase = workers[w].phase
            /\ job(failed).pc = "verifying" => job(failed).todo = Parts
            /\ job(failed).pc # "verified"
    BY <1>2 DEF JobType
  <2>2. workers[w].broken \in BOOLEAN
    BY <1>2 DEF JobType
  <2>3. Job(w, job(TRUE)) \/ Job(w, job(workers[w].broken))
    BY DEF Delete
  <2> HIDE DEF job
  <2> QED BY <1>1, <2>1, <2>2, <2>3 DEF Job, TypeOK
<1>5. SentHasTime' /\ NoOrphan'
  BY <1>3 DEF StorageInv, SentHasTime, NoOrphan
<1>6. AllRows'
  BY <1>2, <1>3 DEF StorageInv, AllRows, JobInv, Kept, RowInv, Writable
<1>7. AllJobs'
  BY <1>3, <1>4, <1>2 DEF StorageInv, AllJobs, JobInv
<1>8. ActiveIsStored'
  BY <1>2, <1>3 DEF JobInv, Kept, StorageInv, ActiveIsStored, FilesOf
<1>9. EndedIsCondemned' /\ ErasedIsEmpty'
  BY <1>3 DEF StorageInv, EndedIsCondemned, ErasedIsEmpty, FilesOf, ProfileOf
<1> QED BY <1>1, <1>5, <1>6, <1>7, <1>8, <1>9 DEF StorageInv

\* The holder of a row writes it: its term of a second pass is long enough,
\* and it goes only when nothing is stored and nothing can land.
LEMMA RowGoes ==
    ASSUME StorageInv, TypeOK', NEW w \in Workers, NEW a \in Artifacts,
           workers[w].pc # "idle", workers[w].artifact = a, manifests[a].lease = w,
           manifests'[a].lease = None, manifests'[a].state \notin Kept,
           manifests'[a].state = "first_absent" => horizon[a] <= manifests'[a].due,
           manifests'[a].state = "none" =>
              horizon[a] = 0 /\ \A k \in Parts : <<a, k>> \notin objects,
           \A x \in Artifacts \ {a} : manifests'[x] = manifests[x],
           \E job : Job(w, job) /\ (job.pc \in {"idle", "failed"}) /\
                    (job.pc = "failed" => job.artifact = a /\ job.phase = workers[w].phase),
           UNCHANGED <<profiles, devices, uploads, horizon, objects, flying>>
    PROVE  StorageInv'
<1>1. TypeOK /\ JobInv(w, a)
  BY DEF StorageInv, AllJobs
<1>2. manifests[a].state \in Condemned /\ uploads[a] \notin Early
  BY <1>1 DEF JobInv
<1>3. SentHasTime'
  BY DEF StorageInv, SentHasTime
<1>4. \A f \in objects \cup flying : f[1] = a => manifests'[a].state # "none"
  BY <1>1 DEF StorageInv, SentHasTime, TypeOK
<1>5. NoOrphan'
  BY <1>1, <1>4 DEF StorageInv, NoOrphan, TypeOK
<1>6. AllRows'
  BY TermsAssumption, <1>2 DEF StorageInv, AllRows, Writable, RowInv, Kept
<1>7. AllJobs'
  BY <1>1, NamesAssumption DEF StorageInv, AllJobs, TypeOK, Job, JobInv
<1>8. ActiveIsStored'
  BY DEF StorageInv, ActiveIsStored, FilesOf, Kept
<1>9. EndedIsCondemned'
  BY DEF StorageInv, EndedIsCondemned, ProfileOf, Kept
<1>10. ErasedIsEmpty'
  BY <1>2 DEF StorageInv, ErasedIsEmpty, FilesOf, ProfileOf, Condemned
<1> QED BY <1>3, <1>5, <1>6, <1>7, <1>8, <1>9, <1>10 DEF StorageInv

LEMMA RecordKeeps ==
    ASSUME StorageInv, NEW w \in Workers, Record(w)
    PROVE  StorageInv'
<1>1. TypeOK /\ TypeOK'
  BY RecordTyped DEF StorageInv
<1> DEFINE a == workers[w].artifact
           failed == [workers[w] EXCEPT !.pc = "failed"]
<1>2. /\ JobInv(w, a) /\ a \in Artifacts /\ workers[w] \in JobType
      /\ workers[w].pc = "verified"
  BY DEF Record, StorageInv, AllJobs, TypeOK
<1>3. UNCHANGED <<profiles, devices, stale, uploads, horizon, objects, flying>>
  BY DEF Record
<1>4. Job(w, Idle) \/ Job(w, failed)
  BY DEF Record
<1>5. failed.artifact = a /\ failed.phase = workers[w].phase /\ failed.pc = "failed"
  BY <1>2 DEF JobType
<1>6. Idle.pc = "idle"
  BY DEF Idle
<1>7. CASE UNCHANGED manifests
  <2>1. CASE Job(w, Idle)
    BY <1>1, <1>3, <1>7, <2>1, IdleKeeps
  <2>2. CASE Job(w, failed)
    BY <1>1, <2>2, <1>2, <1>3, <1>5, <1>7, JobKeeps DEF Job, TypeOK, JobInv
  <2> QED BY <1>4, <2>1, <2>2
<1>8. CASE /\ Holds(w) /\ manifests[a].state = Expects(w)
           /\ manifests' = [manifests EXCEPT ![a] = Recorded(w)]
  <2>1. manifests'[a] = Recorded(w) /\ \A x \in Artifacts \ {a} : manifests'[x] = manifests[x]
    BY <1>1, <1>2, <1>8 DEF TypeOK
  <2>2. manifests[a].lease = w
    BY <1>8 DEF Holds
  <2>3. manifests'[a].lease = None /\ manifests'[a].state \notin Kept
    BY <2>1 DEF Recorded, NoRow, Kept
  <2>4. manifests'[a].state = "first_absent" => horizon[a] <= manifests'[a].due
    BY <2>1, <1>1, <1>2, TermsAssumption DEF Recorded, NoRow, JobInv, TypeOK
  <2>5. manifests'[a].state = "none" =>
           horizon[a] = 0 /\ \A k \in Parts : <<a, k>> \notin objects
    BY <1>2, <2>1 DEF Recorded, JobType, JobInv
  <2>6. \E job : Job(w, job) /\ (job.pc \in {"idle", "failed"}) /\
                 (job.pc = "failed" => job.artifact = a /\ job.phase = workers[w].phase)
    BY <1>4, <1>5, <1>6
  <2> HIDE DEF a, failed
  <2> QED BY <1>1, <1>2, <1>3, <2>1, <2>2, <2>3, <2>4, <2>5, <2>6, RowGoes DEF a
<1> QED BY <1>7, <1>8 DEF Record

LEMMA RetryKeeps ==
    ASSUME StorageInv, NEW w \in Workers, Retry(w)
    PROVE  StorageInv'
<1>1. TypeOK /\ TypeOK'
  BY RetryTyped DEF StorageInv
<1> DEFINE a == workers[w].artifact
<1>2. JobInv(w, a) /\ a \in Artifacts /\ workers[w].pc = "failed"
  BY DEF Retry, StorageInv, AllJobs, TypeOK
<1>3. /\ UNCHANGED <<profiles, devices, stale, uploads, horizon, objects, flying>>
      /\ Job(w, Idle)
  BY DEF Retry
<1>4. Idle.pc = "idle"
  BY DEF Idle
<1>5. CASE UNCHANGED manifests
  BY <1>1, <1>3, <1>5, IdleKeeps
<1>6. CASE /\ Holds(w) /\ manifests[a].state \in Condemned
           /\ manifests' = [manifests EXCEPT ![a].due = RetryDelay, ![a].lease = None,
                                            ![a].leaseLeft = 0]
  <2>1. /\ manifests'[a].state = manifests[a].state /\ manifests'[a].due = RetryDelay
        /\ manifests'[a].lease = None
        /\ \A x \in Artifacts \ {a} : manifests'[x] = manifests[x]
    BY <1>1, <1>2, <1>6 DEF TypeOK, RowType
  <2>2. manifests[a].lease = w
    BY <1>6 DEF Holds
  <2>3. manifests[a].state = "first_absent" => horizon[a] <= RetryDelay
    BY <1>2, <2>2, TermsAssumption DEF JobInv
  <2>4. manifests[a].state \notin Kept \cup {"none"}
    BY <1>6 DEF Kept, Condemned
  <2>5. \E job : Job(w, job) /\ (job.pc \in {"idle", "failed"}) /\
                 (job.pc = "failed" => job.artifact = a /\ job.phase = workers[w].phase)
    BY <1>3, <1>4
  <2> HIDE DEF a
  <2> QED BY <1>1, <1>2, <1>3, <2>1, <2>2, <2>3, <2>4, <2>5, RowGoes DEF a
<1> QED BY <1>5, <1>6 DEF Retry

-----------------------------------------------------------------------------

LEMMA InitStorage ==
    ASSUME Init
    PROVE  StorageInv
<1>1. TypeOK
  BY TermsAssumption DEF Init, TypeOK, RowType, JobType, NoRow, Idle
<1>2. SentHasTime /\ NoOrphan /\ AllJobs
  BY DEF Init, SentHasTime, NoOrphan, AllJobs, Idle
<1>3. AllRows
  BY DEF Init, AllRows, RowInv, NoRow
<1>4. ErasedIsEmpty /\ ActiveIsStored /\ EndedIsCondemned
  BY NamesAssumption DEF Init, ErasedIsEmpty, ActiveIsStored, EndedIsCondemned, NoRow, Kept, ProfileOf
<1> QED BY <1>1, <1>2, <1>3, <1>4 DEF StorageInv

LEMMA NextStorage ==
    ASSUME StorageInv, [Next]_vars
    PROVE  StorageInv'
<1>1. CASE UNCHANGED vars
  BY <1>1, UnchangedCondemns, UnchangedGoesOn, UploadKeeps DEF StorageInv, TypeOK, vars
<1>2. ASSUME NEW a \in Artifacts, UploadStep(a)
      PROVE  StorageInv'
  BY <1>2, StageUploadKeeps, ReserveManifestKeeps, StartPutsKeeps, PutsAnsweredKeeps, GiveUpKeeps,
     CommitDeliveryKeeps, CommitManifestKeeps, CleanUpKeeps, CrashUploadKeeps, InvalidateKeeps
     DEF UploadStep
<1>3. ASSUME NEW f \in flying, Land(f)
      PROVE  StorageInv'
  BY <1>3, LandKeeps
<1>4. ASSUME NEW p \in Profiles, Revise(p) \/ RevokeProfile(p) \/ BeginErasure(p) \/ Erase(p)
      PROVE  StorageInv'
  BY <1>4, ReviseKeeps, RevokeProfileKeeps, BeginErasureKeeps, EraseKeeps
<1>5. ASSUME NEW d \in Devices, RevokeDevice(d) \/ DeviceExpires(d)
      PROVE  StorageInv'
  BY <1>5, RevokeDeviceKeeps, DeviceExpiresKeeps
<1>6. ASSUME NEW w \in Workers, WorkerStep(w)
      PROVE  StorageInv'
  BY <1>6, ClaimKeeps, RecordKeeps, RetryKeeps, CrashWorkerKeeps, DeleteKeeps, VerifyKeeps
     DEF WorkerStep
<1>7. CASE Tick
  BY <1>7, TickKeeps
<1> QED BY <1>1, <1>2, <1>3, <1>4, <1>5, <1>6, <1>7 DEF Next

\* The inductive invariant.
THEOREM Storage == Spec => []StorageInv
<1> QED BY InitStorage, NextStorage, PTL DEF Spec

\* Type correctness, for any constants.
THEOREM TypeCorrect == Spec => []TypeOK
<1>1. StorageInv => TypeOK
  BY DEF StorageInv
<1> QED BY <1>1, Storage, PTL

\* No file is left in the object store, and none can still come, without the
\* manifest by which a deletion worker finds it, as long as no PUT lands more
\* than the delay of the second pass after its settlement deadline.
THEOREM NoOrphanCorrect == Spec => []NoOrphan
<1>1. StorageInv => NoOrphan
  BY DEF StorageInv
<1> QED BY <1>1, Storage, PTL

\* The files of an active manifest are stored.
THEOREM ActiveIsStoredCorrect == Spec => []ActiveIsStored
<1>1. StorageInv => ActiveIsStored
  BY DEF StorageInv
<1> QED BY <1>1, Storage, PTL

\* An erased profile has no file and no manifest, and nothing of a revoked
\* profile or device is kept.
THEOREM EndedIsErasedCorrect == Spec => []EndedIsErased
<1>1. StorageInv => EndedIsErased
  BY DEF StorageInv, EndedIsErased
<1> QED BY <1>1, Storage, PTL
=============================================================================
