-------------------------- MODULE OperationsProofs --------------------------
(***************************************************************************)
(* What the operations on the state of a deployment and of a profile       *)
(* promise, for any servers, releases, devices and bounds.  Each part has  *)
(* an inductive invariant of its own, a property of the state of that part *)
(* alone; a behaviour is of one part and the others rest.                  *)
(***************************************************************************)
EXTENDS MCOperations, Sequences, FiniteSetTheorems, SequenceTheorems, TLAPS

(***************************************************************************)
(* The release runs that raise the protocols.                              *)
(*                                                                         *)
(* What has been reported stays so because a run comes to its last steps   *)
(* only over an activated database, which never goes back.  No late write  *)
(* is accepted because the floor of the activation is over every fence     *)
(* that had been given out before it.                                      *)
(***************************************************************************)
EarlySteps == {"preflight", "migrate", "pause", "activate"}
LateSteps == {"attest", "redis", "status", "initialize", "advance", "final"}
RunType == [pc : EarlySteps \cup LateSteps, kind : Release!Kinds]
DatabaseType ==
    [migrated : BOOLEAN, active : BOOLEAN, paused : BOOLEAN, floor : Nat, allocator : Nat]
ServerType == [up : BOOLEAN, write : {"none", "fenced"}, fence : Nat, early : BOOLEAN]

ReleaseTypeOK ==
    /\ database \in DatabaseType
    /\ collection \in [fence : Nat, late : BOOLEAN]
    /\ claimKey \in {"missing", "5", "6"}
    /\ runs \in [Releases -> {Release!NotRunning} \cup RunType]
    /\ servers \in [Release!Servers -> ServerType]
    /\ done \subseteq Release!Kinds

\* A run past the activation, and an active database, have what came before.
RunsFollow ==
    /\ \A r \in Releases : runs[r].pc \in LateSteps => database.active
    /\ database.active \/ database.paused => database.migrated

\* A fence in use was given out, and one of before the activation is not over
\* the floor.
FencesFollow ==
    \A s \in Release!Servers :
        servers[s].write = "fenced" =>
            /\ servers[s].fence <= database.allocator
            /\ servers[s].early /\ database.active => servers[s].fence <= database.floor

ReleaseInv ==
    /\ ReleaseTypeOK
    /\ RunsFollow
    /\ FencesFollow
    /\ Release!ReleaseHolds
    /\ Release!NoLateWrite

LEMMA ReleaseInit == Release!Init => ReleaseInv
  BY DEF Release!Init, ReleaseInv, ReleaseTypeOK, RunsFollow, FencesFollow, DatabaseType,
         RunType, ServerType, LateSteps, EarlySteps, Release!ReleaseHolds,
         Release!NoLateWrite, Release!NotRunning, Release!Down, Release!Kinds

\* A step of a run that touches neither the database nor what it reports.
LEMMA RunMoves ==
    ASSUME ReleaseInv, NEW r \in Releases,
           UNCHANGED <<database, claimKey, done>>, Release!UnchangedByRun,
           runs' = [runs EXCEPT ![r] = Release!NotRunning]
           \/ \E pc \in EarlySteps \cup LateSteps :
                 /\ runs[r] # Release!NotRunning
                 /\ runs' = [runs EXCEPT ![r].pc = pc]
                 /\ pc \in LateSteps => database.active
    PROVE  ReleaseInv'
  BY DEF ReleaseInv, ReleaseTypeOK, RunsFollow, FencesFollow, RunType, LateSteps, EarlySteps,
         Release!ReleaseHolds, Release!NoLateWrite, Release!NotRunning, Release!UnchangedByRun

LEMMA StartOrStop ==
    ASSUME ReleaseInv, NEW r \in Releases,
           (\E kind \in Release!Kinds : Release!StartRelease(r, kind)) \/ Release!StopRelease(r)
    PROVE  ReleaseInv'
  BY DEF ReleaseInv, ReleaseTypeOK, RunsFollow, FencesFollow, RunType, LateSteps, EarlySteps,
         Release!ReleaseHolds, Release!NoLateWrite, Release!NotRunning, Release!UnchangedByRun,
         Release!StartRelease, Release!StopRelease, Release!RunEnds

\* The steps of a run that only look.
LEMMA LookSteps ==
    ASSUME ReleaseInv, NEW r \in Releases,
           Release!Preflight(r) \/ Release!AttestRelease(r) \/ Release!ReadKey(r)
    PROVE  ReleaseInv'
<1>1. runs[r] # Release!NotRunning /\ UNCHANGED <<database, claimKey, done>>
      /\ Release!UnchangedByRun
  BY DEF Release!Preflight, Release!AttestRelease, Release!ReadKey, Release!RunAt,
         Release!NotRunning
<1>2. CASE Release!Preflight(r)
  BY <1>1, <1>2, RunMoves
     DEF Release!Preflight, Release!To, Release!RunEnds, EarlySteps, LateSteps
<1>3. CASE Release!AttestRelease(r)
  BY <1>1, <1>3, RunMoves
     DEF Release!AttestRelease, Release!To, Release!RunEnds, EarlySteps, LateSteps
<1>4. CASE Release!ReadKey(r)
  BY <1>4, <1>1, RunMoves
     DEF Release!ReadKey, Release!RunAt, ReleaseInv, RunsFollow, LateSteps, Release!To
<1> QED BY <1>2, <1>3, <1>4

\* The database goes on: what it enforces stays, and a floor is over every
\* fence that was given out.
Forward ==
    /\ database' \in DatabaseType
    /\ database.active => database'.active
    /\ database'.active \/ database'.paused => database'.migrated
    /\ database.allocator <= database'.allocator
    /\ \/ database'.active = database.active /\ database'.floor = database.floor
       \/ database.allocator <= database'.floor

LEMMA DatabaseMoves ==
    ASSUME ReleaseInv, Forward, UNCHANGED <<collection, claimKey, servers, done, refusals>>,
           runs' \in [Releases -> {Release!NotRunning} \cup RunType],
           \A r \in Releases : runs'[r].pc \in LateSteps => database'.active
    PROVE  ReleaseInv'
BY DEF ReleaseInv, ReleaseTypeOK, Forward, RunsFollow, FencesFollow, ServerType, DatabaseType,
       Release!ReleaseHolds, Release!NoLateWrite

\* Migrating, pausing, resuming and activating go forward.
LEMMA MigratedForward ==
    ASSUME ReleaseInv, database' = Release!Migrated PROVE Forward
<1>1. database \in DatabaseType
  BY DEF ReleaseInv, ReleaseTypeOK
<1>2. database' = [database EXCEPT !.migrated = TRUE]
  BY DEF Release!Migrated
<1>3. /\ database' \in DatabaseType /\ database'.migrated
      /\ database'.active = database.active /\ database'.floor = database.floor
      /\ database'.allocator = database.allocator /\ database.allocator \in Nat
  BY <1>1, <1>2 DEF DatabaseType
<1> QED BY <1>3 DEF Forward

LEMMA PausedForward ==
    ASSUME ReleaseInv, NEW paused \in BOOLEAN, database.migrated,
           database' = [database EXCEPT !.paused = paused]
    PROVE  Forward
BY DEF ReleaseInv, ReleaseTypeOK, DatabaseType, Forward

LEMMA ActivatedForward ==
    ASSUME ReleaseInv, database' = Release!Activated, database.migrated
    PROVE  Forward /\ database'.active
<1> DEFINE top == IF database.allocator < collection.fence THEN collection.fence
                  ELSE database.allocator
<1>1. database \in DatabaseType /\ collection.fence \in Nat
  BY DEF ReleaseInv, ReleaseTypeOK
<1>2. top \in Nat /\ database.allocator <= top
  BY <1>1 DEF DatabaseType
<1>3. database' = [database EXCEPT !.active = TRUE, !.paused = FALSE, !.allocator = top,
                                   !.floor = top]
  BY DEF Release!Activated
<1> HIDE DEF top
<1> QED BY <1>1, <1>2, <1>3 DEF Forward, DatabaseType

LEMMA SameForward ==
    ASSUME ReleaseInv, UNCHANGED database PROVE Forward
  BY DEF ReleaseInv, ReleaseTypeOK, RunsFollow, Forward, DatabaseType

\* A run ends, or takes one step of its own.
LEMMA RunStops ==
    ASSUME ReleaseInv, NEW r \in Releases, database.active => database'.active,
           runs' = [runs EXCEPT ![r] = Release!NotRunning]
    PROVE  /\ runs' \in [Releases -> {Release!NotRunning} \cup RunType]
           /\ \A i \in Releases : runs'[i].pc \in LateSteps => database'.active
  BY DEF ReleaseInv, ReleaseTypeOK, RunsFollow, LateSteps, Release!NotRunning

LEMMA RunGoesOn ==
    ASSUME ReleaseInv, NEW r \in Releases, database.active => database'.active,
           NEW pc \in EarlySteps \cup LateSteps, runs[r] # Release!NotRunning,
           runs' = [runs EXCEPT ![r].pc = pc], pc \in LateSteps => database'.active
    PROVE  /\ runs' \in [Releases -> {Release!NotRunning} \cup RunType]
           /\ \A i \in Releases : runs'[i].pc \in LateSteps => database'.active
  BY DEF ReleaseInv, ReleaseTypeOK, RunsFollow, RunType, LateSteps, EarlySteps

\* The steps of a run on the database.
LEMMA DatabaseSteps ==
    ASSUME ReleaseInv, NEW r \in Releases,
           Release!MigrateRelease(r) \/ Release!PauseRelease(r) \/ Release!ActivateRelease(r)
    PROVE  ReleaseInv'
<1>1. UNCHANGED <<collection, claimKey, servers, done, refusals>>
  BY DEF Release!MigrateRelease, Release!PauseRelease, Release!ActivateRelease,
         Release!UnchangedByRun
<1>2. runs[r].pc \in {"migrate", "pause", "activate"}
  BY DEF Release!MigrateRelease, Release!PauseRelease, Release!ActivateRelease, Release!RunAt
<1>3. runs[r] # Release!NotRunning
  BY <1>2 DEF Release!NotRunning
<1>4. "pause" \in EarlySteps /\ "activate" \in EarlySteps /\ "attest" \in LateSteps
      /\ "pause" \notin LateSteps /\ "activate" \notin LateSteps
  BY DEF EarlySteps, LateSteps
<1>5. CASE Release!MigrateRelease(r)
  BY <1>5, MigratedForward, <1>1, <1>3, <1>4, RunGoesOn, DatabaseMoves
     DEF Release!MigrateRelease, Release!To, Forward
<1>6. CASE Release!PauseRelease(r)
  <2>1. Forward
    BY <1>6, PausedForward, SameForward
       DEF Release!PauseRelease, Release!Paused, Release!Pausable
  <2>2. runs' = [runs EXCEPT ![r].pc = "activate"]
    BY <1>6 DEF Release!PauseRelease, Release!To
  <2>3. database.active => database'.active
    BY <2>1 DEF Forward
  <2> QED BY <1>1, <1>3, <1>4, <2>1, <2>2, <2>3, RunGoesOn, DatabaseMoves
<1>7. CASE Release!ActivateRelease(r)
  <2>1. \/ database.active /\ UNCHANGED database /\ Release!To(r, "attest")
        \/ database.paused /\ database' = Release!Activated /\ Release!To(r, "attest")
        \/ UNCHANGED database /\ Release!RunEnds(r)
    BY <1>7 DEF Release!ActivateRelease
  <2>2. database.active \/ database.paused => database.migrated
    BY DEF ReleaseInv, RunsFollow
  <2>3. Forward /\ (database'.active \/ Release!RunEnds(r))
    BY <2>1, <2>2, ActivatedForward, SameForward
  <2>4. database.active => database'.active
    BY <2>3 DEF Forward
  <2>5. CASE Release!RunEnds(r)
    BY <1>1, <2>3, <2>4, <2>5, RunStops, DatabaseMoves DEF Release!RunEnds
  <2>6. CASE database'.active /\ Release!To(r, "attest")
    BY <1>1, <1>3, <1>4, <2>3, <2>4, <2>6, RunGoesOn, DatabaseMoves DEF Release!To
  <2> QED BY <2>1, <2>3, <2>5, <2>6
<1> QED BY <1>5, <1>6, <1>7

\* The steps of a run on the key of the claim writers, and its report.
LEMMA KeySteps ==
    ASSUME ReleaseInv, NEW r \in Releases,
           \/ Release!ApplyRedis(r) \/ Release!InitializeKey(r) \/ Release!AdvanceKey(r)
           \/ Release!FinalStatus(r)
    PROVE  ReleaseInv'
  BY DEF ReleaseInv, ReleaseTypeOK, RunsFollow, FencesFollow, RunType, LateSteps, EarlySteps,
         Release!ReleaseHolds, Release!NoLateWrite, Release!NotRunning, Release!UnchangedByRun,
         Release!RunAt, Release!To, Release!RunEnds, Release!ApplyRedis, Release!InitializeKey,
         Release!AdvanceKey, Release!FinalStatus, Release!Report, Release!Initialized,
         Release!Advanced, Release!Kind, Release!Kinds

LEMMA OrderSteps ==
    ASSUME ReleaseInv,
           Release!PauseByHand \/ Release!ResumeByHand \/ Release!ActivateByHand
    PROVE  ReleaseInv'
<1>1. Forward
  BY PausedForward, ActivatedForward
     DEF Release!PauseByHand, Release!ResumeByHand, Release!ActivateByHand, Release!Order,
         Release!Paused, Release!Pausable, ReleaseInv, RunsFollow
<1>2. UNCHANGED <<collection, claimKey, runs, servers, done, refusals>>
  BY DEF Release!PauseByHand, Release!ResumeByHand, Release!ActivateByHand, Release!Order
<1>3. /\ runs' \in [Releases -> {Release!NotRunning} \cup RunType]
      /\ \A r \in Releases : runs'[r].pc \in LateSteps => database'.active
  BY <1>1, <1>2 DEF ReleaseInv, ReleaseTypeOK, RunsFollow, Forward
<1> QED BY <1>1, <1>2, <1>3, DatabaseMoves

\* A server of the release is fit for a database that is active.
LEMMA BootStep ==
    ASSUME ReleaseInv, NEW s \in Release!Servers, Release!Boot(s)
    PROVE  ReleaseInv'
<1>1. CASE ~database.migrated
  BY <1>1, MigratedForward, DatabaseMoves
     DEF Release!Boot, Release!UnchangedByServer, ReleaseInv, ReleaseTypeOK, RunsFollow, Forward
<1>2. CASE database.migrated
  <2>1. UNCHANGED <<database, collection, claimKey, runs, done>>
    BY <1>2 DEF Release!Boot, Release!UnchangedByServer
  <2>2. UNCHANGED refusals
    BY <1>2, ReleaseAssumption
       DEF ReleaseInv, Release!ReleaseHolds, Release!Attested, Release!ModeOf, Release!Boot
  <2>3. servers' = [servers EXCEPT ![s].up = Release!Attested(Release!ModeOf(s))]
    BY <1>2 DEF Release!Boot
  <2>4. Release!Attested(Release!ModeOf(s)) \in BOOLEAN
    BY DEF Release!Attested, Release!ModeOf, ReleaseInv, ReleaseTypeOK, DatabaseType
  <2> QED
    BY <2>1, <2>2, <2>3, <2>4
    DEF ReleaseInv, ReleaseTypeOK, RunsFollow, FencesFollow, ServerType, Release!ReleaseHolds,
        Release!NoLateWrite
<1> QED BY <1>1, <1>2 DEF ReleaseInv, ReleaseTypeOK, DatabaseType

LEMMA ServerSteps ==
    ASSUME ReleaseInv, NEW s \in Release!Servers,
           \/ Release!Shut(s) \/ Release!Allocate(s) \/ Release!WriteFenced(s)
           \/ Release!WriteLegacy(s)
    PROVE  ReleaseInv'
<1>0. /\ UNCHANGED <<claimKey, runs, done, refusals>>
      /\ servers \in [Release!Servers -> ServerType] /\ database \in DatabaseType
      /\ collection \in [fence : Nat, late : BOOLEAN]
      /\ FencesFollow /\ RunsFollow
  BY DEF ReleaseInv, ReleaseTypeOK, Release!Shut, Release!Allocate, Release!WriteFenced,
         Release!WriteLegacy, Release!UnchangedByServer
<1>1. CASE Release!Shut(s)
  BY <1>1
  DEF Release!Shut, Release!Down, Release!UnchangedByServer, ReleaseInv, ReleaseTypeOK,
      RunsFollow, FencesFollow, ServerType, Release!ReleaseHolds, Release!NoLateWrite
<1>2. CASE Release!Allocate(s)
  <2>1. /\ database' \in DatabaseType
        /\ database'.allocator = database.allocator + 1
        /\ database'.active = database.active /\ database'.migrated = database.migrated
        /\ database'.paused = database.paused
        /\ database'.floor = database.floor
    BY <1>0, <1>2 DEF Release!Allocate, DatabaseType
  <2>2. /\ servers' \in [Release!Servers -> ServerType]
        /\ servers'[s].write = "fenced" /\ servers'[s].fence = database.allocator + 1
        /\ servers'[s].early = ~database.active
        /\ \A i \in Release!Servers : i # s => servers'[i] = servers[i]
    <3>1. servers' = [servers EXCEPT ![s] = [servers[s] EXCEPT !.write = "fenced",
                        !.fence = database.allocator + 1, !.early = ~database.active]]
      BY <1>0, <1>2 DEF Release!Allocate
    <3>2. database.allocator + 1 \in Nat /\ (~database.active) \in BOOLEAN
      BY <1>0 DEF DatabaseType
    <3> QED BY <1>0, <3>1, <3>2 DEF ServerType
  <2>3. UNCHANGED collection
    BY <1>2 DEF Release!Allocate
  <2>4. FencesFollow'
    <3> SUFFICES ASSUME NEW i \in Release!Servers, servers'[i].write = "fenced"
                 PROVE  /\ servers'[i].fence <= database'.allocator
                        /\ servers'[i].early /\ database'.active
                              => servers'[i].fence <= database'.floor
      BY DEF FencesFollow
    <3>1. database.allocator \in Nat
      BY <1>0 DEF DatabaseType
    <3>2. CASE i = s
      <4>1. servers'[i].fence = database'.allocator /\ database'.allocator \in Nat
        BY <2>1, <2>2, <3>2 DEF DatabaseType
      <4>2. ~(servers'[i].early /\ database'.active)
        BY <2>1, <2>2, <3>2
      <4> QED BY <4>1, <4>2
    <3>3. CASE i # s
      BY <1>0, <2>1, <2>2, <3>1, <3>3 DEF ServerType, FencesFollow
    <3> QED BY <3>2, <3>3
  <2> QED
    BY <1>0, <2>1, <2>2, <2>3, <2>4
    DEF ReleaseInv, ReleaseTypeOK, RunsFollow, Release!ReleaseHolds, Release!NoLateWrite
<1>3. CASE Release!WriteFenced(s)
  <2>1. /\ servers' \in [Release!Servers -> ServerType]
        /\ \A i \in Release!Servers : i # s => servers'[i] = servers[i]
        /\ servers'[s].write # "fenced" /\ servers[s].write = "fenced"
        /\ UNCHANGED database
    BY <1>0, <1>3 DEF Release!WriteFenced, ServerType
  <2>2. collection' \in [fence : Nat, late : BOOLEAN] /\ ~collection'.late
    <3>1. /\ servers[s].fence \in Nat /\ servers[s].early \in BOOLEAN
          /\ database.floor \in Nat /\ database.active \in BOOLEAN
      BY <1>0 DEF ServerType, DatabaseType
    <3>2. CASE Release!Accepted(servers[s].fence) /\ servers[s].fence >= collection.fence
      BY <1>3, <3>2, <1>0, <2>1, <3>1
         DEF Release!WriteFenced, Release!Write, FencesFollow, Release!Accepted
    <3>3. CASE UNCHANGED collection
      BY <1>0, <3>3 DEF ReleaseInv, Release!NoLateWrite
    <3> QED BY <1>3, <3>2, <3>3 DEF Release!WriteFenced
  <2> QED
    BY <1>0, <2>1, <2>2
    DEF ReleaseInv, ReleaseTypeOK, RunsFollow, FencesFollow, Release!ReleaseHolds,
        Release!NoLateWrite
<1>4. CASE Release!WriteLegacy(s)
  <2>1. UNCHANGED <<database, servers>>
    BY <1>4 DEF Release!WriteLegacy
  <2>2. collection' \in [fence : Nat, late : BOOLEAN] /\ ~collection'.late
    BY <1>0, <1>4
       DEF DatabaseType, Release!WriteLegacy, Release!Write, Release!Accepted, ReleaseInv,
           Release!NoLateWrite
  <2> QED
    BY <1>0, <2>1, <2>2
    DEF ReleaseInv, ReleaseTypeOK, RunsFollow, FencesFollow, Release!ReleaseHolds,
        Release!NoLateWrite
<1> QED BY <1>1, <1>2, <1>3, <1>4

LEMMA ReleaseNext == ReleaseInv /\ Release!Next => ReleaseInv'
BY StartOrStop, LookSteps, DatabaseSteps, KeySteps, BootStep, ServerSteps, OrderSteps
   DEF Release!Release, Release!Server, Release!Next

LEMMA ReleaseRest == ReleaseInv /\ UNCHANGED ReleaseVars => ReleaseInv'
  BY DEF ReleaseVars, ReleaseInv, ReleaseTypeOK, RunsFollow, FencesFollow,
         Release!ReleaseHolds, Release!NoLateWrite

-----------------------------------------------------------------------------
(***************************************************************************)
(* The end of a profile and of its devices.                                *)
(*                                                                         *)
(* The row of a revocation goes last, and only the runner that has cleared *)
(* the claims deletes it.  What is cleared stays so: a claim that was      *)
(* admitted before carries a generation that Redis has left behind, and no *)
(* claim is admitted after the revocation.                                 *)
(***************************************************************************)
RowKind ==
    [kind : {"device", "profile"}, device : Devices \cup {Life!Whole}, gen : Nat,
     attempts : Nat, due : BOOLEAN]
RunnerType ==
    [job : {"row", "request", "erase"}, items : SUBSET RowKind,
     pc : {"sessions", "row", "clear", "sweep", "complete", "sessionsAgain", "erase"}]
ClaimingType ==
    [pc : {"generation", "admit", "claim", "validate"}, gen : Nat,
     playback : {"unread", "current", "left"}]

LifeTypeOK ==
    /\ profile \in [status : {"active", "revoked"}, deletion : {"none", "pending", "deleted"},
                    due : BOOLEAN]
    /\ devices \in [Devices -> [gen : Nat, revoked : BOOLEAN]]
    /\ rows \subseteq RowKind
    /\ manifests \in [Devices -> {"none", "active", "condemned"}]
    /\ redis \in [gens : [Devices -> Nat], claims : SUBSET Devices]
    /\ runners \in [Runners -> {Life!Resting} \cup RunnerType]
    /\ claiming \in [Devices -> {Life!NotClaiming} \cup ClaimingType]

\* A row is of something that was revoked.
RowStands(r) ==
    /\ r.kind = "device" => /\ r.device \in Devices /\ devices[r.device].revoked
                            /\ r.gen = devices[r.device].gen
    /\ r.kind = "profile" => profile.status = "revoked" /\ r.device = Life!Whole /\ r.gen = 1

Waits(kind, d) == \E r \in rows : r.kind = kind /\ r.device = d

\* Nothing of the device, or of the profile, comes back.
DeviceCleared(d) ==
    profile.status = "active" => d \notin redis.claims /\ devices[d].gen <= redis.gens[d]

ProfileCleared ==
    /\ redis.claims = {}
    /\ \A d \in Devices : claiming[d].pc = "claim" => claiming[d].playback # "current"

RunnerStands(w) ==
    runners[w] # Life!Resting =>
        /\ \A i \in runners[w].items : RowStands(i)
        /\ \A i, j \in runners[w].items : i.kind = "device" => i = j
        /\ runners[w].job = "row" =>
              runners[w].items # {} /\ runners[w].pc \in {"clear", "sweep", "complete"}
        /\ runners[w].job # "row" =>
              profile.status = "revoked" /\ \A i \in runners[w].items : i.kind = "profile"
        /\ runners[w].pc \in {"sweep", "complete"} =>
              /\ \A i \in runners[w].items : i.kind = "device" => DeviceCleared(i.device)
              /\ (\A i \in runners[w].items : i.kind = "profile") => ProfileCleared
        /\ runners[w].pc \in {"clear", "sweep", "complete"} /\ runners[w].items = {} =>
              ~Waits("profile", Life!Whole)
        /\ runners[w].pc \in {"sessionsAgain", "erase"} => ~Waits("profile", Life!Whole)

ClaimStands(d) ==
    claiming[d] # Life!NotClaiming =>
        /\ claiming[d].gen <= devices[d].gen
        /\ devices[d].revoked /\ profile.status = "active" => claiming[d].gen < devices[d].gen

RevocationStands ==
    /\ \A d \in Devices : devices[d].revoked /\ ~Waits("device", d) => DeviceCleared(d)
    /\ profile.status = "revoked" /\ ~Waits("profile", Life!Whole) => ProfileCleared

ObjectsStand ==
    /\ \A d \in Devices : manifests[d] = "active" =>
          profile.status = "active" /\ ~devices[d].revoked
    /\ profile.deletion # "none" => profile.status = "revoked"
    /\ profile.deletion = "deleted" =>
          ~Waits("profile", Life!Whole) /\ \A d \in Devices : manifests[d] = "none"

LifeInv ==
    /\ LifeTypeOK
    /\ \A r \in rows : RowStands(r)
    /\ \A w \in Runners : RunnerStands(w)
    /\ \A d \in Devices : ClaimStands(d)
    /\ RevocationStands
    /\ ObjectsStand

LEMMA LifeInit == Life!Init => LifeInv
  BY DEF Life!Init, LifeInv, LifeTypeOK, RowStands, RunnerStands, ClaimStands, RevocationStands,
         ObjectsStand, Life!Resting, Life!NotClaiming

\* What a step leaves as it was: a revocation stands, and what was cleared and
\* whose row is gone stays so.
Onward ==
    /\ \A d \in Devices :
          devices[d].revoked => devices'[d].revoked /\ devices'[d].gen = devices[d].gen
    /\ profile.status = "revoked" => profile'.status = "revoked"
    /\ \A d \in Devices : devices[d].revoked /\ DeviceCleared(d) => DeviceCleared(d)'
    /\ profile.status = "revoked" /\ ProfileCleared => ProfileCleared'
    /\ profile.status = "revoked" /\ ~Waits("profile", Life!Whole) =>
          ~Waits("profile", Life!Whole)'

LEMMA RowStays ==
    ASSUME Onward, NEW r \in RowKind, RowStands(r)
    PROVE  RowStands(r)'
  BY DEF Onward, RowStands

\* Whatever others do, a runner can rely on what it has done.
LEMMA RunnerStays ==
    ASSUME LifeInv, Onward, NEW w \in Runners, runners'[w] = runners[w]
    PROVE  RunnerStands(w)'
<1> SUFFICES ASSUME runners[w] # Life!Resting PROVE RunnerStands(w)'
  BY DEF RunnerStands
<1>1. RunnerStands(w) /\ runners[w] \in RunnerType
  BY DEF LifeInv, LifeTypeOK
<1>2. \A i \in runners[w].items : i \in RowKind /\ RowStands(i) /\ RowStands(i)'
  BY <1>1, RowStays DEF RunnerStands, RunnerType
<1>3. profile.status = "revoked" \/ \E i \in runners[w].items : i.kind = "device"
  BY <1>1, <1>2 DEF RunnerStands, RowStands, RowKind
<1>4. runners[w].pc \in {"sweep", "complete"} =>
         \A i \in runners[w].items : i.kind = "device" => DeviceCleared(i.device)'
  BY <1>1, <1>2 DEF RunnerStands, RowStands, Onward
<1>5. (\A i \in runners[w].items : i.kind = "profile") => profile.status = "revoked"
  BY <1>3
<1>6. runners[w].items = {} => profile.status = "revoked"
  BY <1>3
<1>7. runners[w].job # "row" => profile.status = "revoked" /\ profile'.status = "revoked"
  BY <1>1 DEF RunnerStands, Onward
<1>8. runners[w].pc \in {"sessionsAgain", "erase"} => profile.status = "revoked"
  BY <1>1 DEF RunnerStands
<1> QED BY <1>1, <1>2, <1>4, <1>5, <1>6, <1>7, <1>8 DEF RunnerStands, Onward

\* The same revocations have a row.
SameWaits ==
    \A kind \in {"device", "profile"} : \A d \in Devices \cup {Life!Whole} :
        Waits(kind, d)' <=> Waits(kind, d)

RowsMove ==
    rows' \subseteq RowKind /\ (\A r \in rows' : RowStands(r)) /\ SameWaits

\* A runner takes up or does work of its own; at most an object is condemned,
\* or a row or an erasure put off.
LEMMA RunnerMoves ==
    ASSUME LifeInv, NEW w \in Runners,
           NEW x \in {Life!Resting} \cup RunnerType, runners' = [runners EXCEPT ![w] = x],
           RunnerStands(w)',
           UNCHANGED <<devices, redis, claiming>>, RowsMove,
           profile' \in [status : {"active", "revoked"}, deletion : {"none", "pending", "deleted"},
                         due : BOOLEAN],
           profile'.status = profile.status, profile'.deletion = profile.deletion,
           manifests' \in [Devices -> {"none", "active", "condemned"}],
           \A d \in Devices : /\ manifests'[d] = "active" => manifests[d] = "active"
                              /\ manifests[d] = "none" => manifests'[d] = "none"
    PROVE  LifeInv'
<1>1. Onward
  BY DEF Onward, RowsMove, SameWaits, DeviceCleared, ProfileCleared
<1>2. LifeTypeOK'
  BY DEF LifeInv, LifeTypeOK, RowsMove
<1>3. \A r \in rows' : RowStands(r)'
  BY <1>1, RowStays DEF RowsMove
<1>4. \A v \in Runners : RunnerStands(v)'
  BY <1>1, RunnerStays DEF LifeInv, LifeTypeOK
<1>5. \A d \in Devices : ClaimStands(d)'
  BY DEF LifeInv, ClaimStands
<1>6. RevocationStands'
  BY DEF LifeInv, RevocationStands, RowsMove, SameWaits, DeviceCleared, ProfileCleared
<1>7. ObjectsStand'
  BY DEF LifeInv, ObjectsStand, RowsMove, SameWaits
<1> QED BY <1>2, <1>3, <1>4, <1>5, <1>6, <1>7 DEF LifeInv

LEMMA RowsRest ==
    ASSUME LifeInv, UNCHANGED rows PROVE RowsMove
  BY DEF LifeInv, LifeTypeOK, RowsMove, SameWaits, Waits

LEMMA CondemnedObjects ==
    ASSUME LifeInv, NEW set, manifests' = Life!Condemned(set)
    PROVE  /\ manifests' \in [Devices -> {"none", "active", "condemned"}]
           /\ \A d \in Devices : /\ manifests'[d] = "active" => manifests[d] = "active" /\ d \notin set
                                 /\ manifests[d] = "none" => manifests'[d] = "none"
  BY DEF LifeInv, LifeTypeOK, Life!Condemned

\* What happens to a row only touches when it is due and its attempts.
LEMMA PutOffRow ==
    ASSUME NEW r \in RowKind
    PROVE  LET late == [r EXCEPT !.attempts = @ + 1, !.due = FALSE] IN
           late \in RowKind /\ late.kind = r.kind /\ late.device = r.device /\ late.gen = r.gen
<1> DEFINE a == r.attempts + 1
<1>1. a \in Nat
  BY DEF RowKind
<1> HIDE DEF a
<1>2. [r EXCEPT !.attempts = a, !.due = FALSE] \in RowKind
  BY <1>1 DEF RowKind
<1>3. /\ [r EXCEPT !.attempts = a, !.due = FALSE].kind = r.kind
      /\ [r EXCEPT !.attempts = a, !.due = FALSE].device = r.device
      /\ [r EXCEPT !.attempts = a, !.due = FALSE].gen = r.gen
  BY DEF RowKind
<1> QED BY <1>2, <1>3 DEF a

LEMMA RowsPutOff ==
    ASSUME LifeInv, NEW items, Life!PutOff(items) PROVE RowsMove
<1> DEFINE Late(r) == [r EXCEPT !.attempts = @ + 1, !.due = FALSE]
           mine == {r \in rows : \E i \in items : r = [i EXCEPT !.due = r.due]}
<1>1. rows' = (rows \ mine) \cup {Late(r) : r \in mine} /\ rows \subseteq RowKind
  BY DEF Life!PutOff, LifeInv, LifeTypeOK
<1>2. \A r \in rows : /\ Late(r) \in RowKind /\ Late(r).kind = r.kind /\ Late(r).device = r.device
                      /\ Late(r).gen = r.gen
  BY <1>1, PutOffRow
<1>3. mine \subseteq rows
  OBVIOUS
<1> HIDE DEF mine, Late
<1>4. \A r \in rows' : r \in RowKind /\ RowStands(r)
  BY <1>1, <1>2, <1>3 DEF LifeInv, RowStands
<1>5. SameWaits
  BY <1>1, <1>2, <1>3 DEF SameWaits, Waits
<1> QED BY <1>4, <1>5 DEF RowsMove

LEMMA RowComesDue ==
    ASSUME LifeInv, NEW old \in rows, rows' = (rows \ {old}) \cup {[old EXCEPT !.due = TRUE]}
    PROVE  RowsMove
<1>1. rows \subseteq RowKind /\ old \in RowKind /\ RowStands(old)
  BY DEF LifeInv, LifeTypeOK
<1> DEFINE next == [old EXCEPT !.due = TRUE]
<1>2. /\ next \in RowKind /\ next.kind = old.kind /\ next.device = old.device
      /\ next.gen = old.gen
  BY <1>1 DEF RowKind
<1>3. rows' = (rows \ {old}) \cup {next}
  OBVIOUS
<1> HIDE DEF next
<1>4. \A r \in rows' : r \in RowKind /\ RowStands(r)
  BY <1>1, <1>2, <1>3 DEF LifeInv, RowStands
<1>5. SameWaits
  BY <1>2, <1>3 DEF SameWaits, Waits
<1> QED BY <1>4, <1>5 DEF RowsMove

-----------------------------------------------------------------------------
(* The steps that only a runner and its job are about *)

LEMMA LifeTypes ==
    ASSUME LifeInv
    PROVE  /\ LifeTypeOK
           /\ profile.status \in {"active", "revoked"}
           /\ \A r \in rows : r \in RowKind /\ RowStands(r)
           /\ \A w \in Runners : /\ runners[w] # Life!Resting => runners[w] \in RunnerType
                                 /\ RunnerStands(w)
                                 /\ runners[w].job # "rest" => runners[w] # Life!Resting
           /\ \A d \in Devices : profile.status = "active" \/ manifests[d] # "active"
           /\ profile.deletion # "none" => profile.status = "revoked"
           /\ ObjectsStand
  BY DEF LifeInv, LifeTypeOK, ObjectsStand, Life!Resting

\* A job on a row begins with what was to be cleared.
LEMMA RowJobStarts ==
    ASSUME LifeInv, NEW w \in Runners, NEW r \in RowKind, RowStands(r), Onward,
           runners'[w] = [job |-> "row", items |-> {r}, pc |-> "clear"]
    PROVE  RunnerStands(w)'
BY RowStays DEF RunnerStands

LEMMA TakingSteps ==
    ASSUME LifeInv, NEW w \in Runners, Life!TakeRow(w) \/ Life!TakeErasure(w)
    PROVE  LifeInv'
<1>1. /\ runners[w] = Life!Resting
      /\ UNCHANGED <<profile, devices, rows, manifests, redis, claiming>>
  BY DEF Life!TakeRow, Life!TakeErasure
<1>2. Onward
  BY <1>1 DEF Onward, DeviceCleared, ProfileCleared, Waits
<1>3. CASE Life!TakeRow(w)
  <2>1. PICK r \in rows : Life!Job(w, "row", {r}, "clear")
    BY <1>3 DEF Life!TakeRow
  <2>2. r \in RowKind /\ RowStands(r)
    BY LifeTypes
  <2> DEFINE x == [job |-> "row", items |-> {r}, pc |-> "clear"]
  <2>3. runners' = [runners EXCEPT ![w] = x] /\ x \in RunnerType
    BY <2>1, <2>2 DEF Life!Job, RunnerType
  <2>4. runners'[w] = x
    BY <2>3 DEF LifeInv, LifeTypeOK
  <2>5. RunnerStands(w)'
    BY <1>2, <2>2, <2>4, RowJobStarts
  <2> HIDE DEF x
  <2> QED BY <1>1, <2>3, <2>5, RunnerMoves, RowsRest DEF LifeInv, LifeTypeOK
<1>4. CASE Life!TakeErasure(w)
  <2> DEFINE x == [job |-> "erase", items |-> {}, pc |-> "sessions"]
  <2>1. runners' = [runners EXCEPT ![w] = x] /\ x \in RunnerType
    BY <1>4 DEF Life!TakeErasure, Life!Job, RunnerType
  <2>2. runners'[w] = x /\ profile'.status = "revoked"
    BY <1>1, <1>4, <2>1, LifeTypes DEF LifeTypeOK, Life!TakeErasure
  <2>3. RunnerStands(w)'
    BY <2>2 DEF RunnerStands
  <2> HIDE DEF x
  <2> QED BY <1>1, <2>1, <2>3, RunnerMoves, RowsRest DEF LifeInv, LifeTypeOK
<1> QED BY <1>3, <1>4

\* A runner goes on to another step of its job.
LEMMA RunnerSteps ==
    ASSUME LifeInv, NEW w \in Runners, runners[w] # Life!Resting,
           NEW pc \in {"sessions", "row", "clear", "sweep", "complete", "sessionsAgain", "erase"},
           Life!Step(w, pc)
    PROVE  /\ runners' = [runners EXCEPT ![w] = [runners[w] EXCEPT !.pc = pc]]
           /\ [runners[w] EXCEPT !.pc = pc] \in RunnerType
           /\ runners'[w] \in RunnerType /\ runners'[w] # Life!Resting
           /\ runners'[w].pc = pc /\ runners'[w].job = runners[w].job
           /\ runners'[w].items = runners[w].items
           /\ runners' \in [Runners -> {Life!Resting} \cup RunnerType]
           /\ \A v \in Runners : v # w => runners'[v] = runners[v]
<1>1. runners[w] \in RunnerType /\ runners \in [Runners -> {Life!Resting} \cup RunnerType]
  BY DEF LifeInv, LifeTypeOK
<1>2. [runners[w] EXCEPT !.pc = pc] \in RunnerType
  BY <1>1 DEF RunnerType
<1>3. runners' = [runners EXCEPT ![w] = [runners[w] EXCEPT !.pc = pc]]
  BY <1>1 DEF Life!Step
<1>4. runners'[w] = [runners[w] EXCEPT !.pc = pc]
  BY <1>1, <1>3
<1>5. /\ [runners[w] EXCEPT !.pc = pc].pc = pc
      /\ [runners[w] EXCEPT !.pc = pc].job = runners[w].job
      /\ [runners[w] EXCEPT !.pc = pc].items = runners[w].items
      /\ [runners[w] EXCEPT !.pc = pc] # Life!Resting
  BY <1>1 DEF RunnerType, Life!Resting
<1> DEFINE x == [runners[w] EXCEPT !.pc = pc]
<1>6. x \in RunnerType /\ runners' = [runners EXCEPT ![w] = x]
  BY <1>2, <1>3
<1> HIDE DEF x
<1>7. /\ runners' \in [Runners -> {Life!Resting} \cup RunnerType]
      /\ \A v \in Runners : v # w => runners'[v] = runners[v]
  BY <1>1, <1>6
<1> QED BY <1>2, <1>3, <1>4, <1>5, <1>7

LEMMA RunnerRests ==
    ASSUME LifeInv, NEW w \in Runners, Life!Rest(w)
    PROVE  /\ runners' = [runners EXCEPT ![w] = Life!Resting]
           /\ Life!Resting \in {Life!Resting} \cup RunnerType
           /\ RunnerStands(w)'
  BY DEF Life!Rest, LifeInv, LifeTypeOK, RunnerStands

LEMMA SessionsStep ==
    ASSUME LifeInv, NEW w \in Runners, Life!RevokeSessions(w)
    PROVE  LifeInv'
<1>1. UNCHANGED <<profile, devices, rows, manifests, redis, claiming>>
  BY DEF Life!RevokeSessions
<1>2. runners[w] # Life!Resting /\ runners[w].pc \in {"sessions", "sessionsAgain"}
  BY LifeTypes DEF Life!RevokeSessions, Life!On
<1>3. Onward
  BY <1>1 DEF Onward, DeviceCleared, ProfileCleared, Waits
<1>4. CASE Life!Rest(w)
  BY <1>1, <1>4, RunnerRests, RunnerMoves, RowsRest DEF LifeInv, LifeTypeOK
<1>5. ASSUME NEW pc \in {"row", "erase"}, Life!Step(w, pc),
             pc = "erase" => runners[w].pc = "sessionsAgain"
      PROVE  LifeInv'
  <2>1. /\ runners'[w].pc = pc /\ runners'[w].job = runners[w].job
        /\ runners'[w].items = runners[w].items
        /\ runners' = [runners EXCEPT ![w] = [runners[w] EXCEPT !.pc = pc]]
        /\ [runners[w] EXCEPT !.pc = pc] \in RunnerType
    BY <1>2, <1>5, RunnerSteps
  <2>2. RunnerStands(w) /\ runners[w] \in RunnerType
    BY <1>2, LifeTypes
  <2>3. \A i \in runners[w].items : RowStands(i)'
    BY <1>3, <2>2, <1>2, RowStays DEF RunnerStands, RunnerType
  <2>4. runners[w].job # "row"
    BY <1>2, <2>2 DEF RunnerStands
  <2>5. RunnerStands(w)'
    BY <1>1, <1>2, <1>5, <2>1, <2>2, <2>3, <2>4 DEF RunnerStands, Waits
  <2> DEFINE x == [runners[w] EXCEPT !.pc = pc]
  <2>6. runners' = [runners EXCEPT ![w] = x] /\ x \in RunnerType
    BY <2>1
  <2> HIDE DEF x
  <2> QED BY <1>1, <2>5, <2>6, RunnerMoves, RowsRest DEF LifeInv, LifeTypeOK
<1>6. Life!Rest(w) \/ Life!Step(w, "row") \/ (Life!Step(w, "erase") /\ runners[w].pc = "sessionsAgain")
  BY DEF Life!RevokeSessions, Life!On
<1> QED BY <1>4, <1>5, <1>6

LEMMA FindRowStep ==
    ASSUME LifeInv, NEW w \in Runners, Life!FindRow(w)
    PROVE  LifeInv'
<1>1. UNCHANGED <<profile, devices, rows, manifests, redis, claiming>>
  BY DEF Life!FindRow
<1>2. runners[w] # Life!Resting /\ runners[w].pc = "row" /\ runners[w] \in RunnerType
      /\ RunnerStands(w)
  BY LifeTypes DEF Life!FindRow, Life!On
<1>3. Onward
  BY <1>1 DEF Onward, DeviceCleared, ProfileCleared, Waits
<1> DEFINE items == Life!RowsOf("profile", Life!Whole)
           x == [runners[w] EXCEPT !.items = items, !.pc = "clear"]
<1>4. /\ items \subseteq rows /\ (\A i \in items : i.kind = "profile")
      /\ items = {} => ~Waits("profile", Life!Whole)
  BY DEF Life!RowsOf, Waits
<1>5. items \subseteq RowKind /\ \A i \in items : RowStands(i)'
  BY <1>3, <1>4, RowStays, LifeTypes
<1>6. runners' = [runners EXCEPT ![w] = x]
  BY DEF Life!FindRow, LifeInv, LifeTypeOK
<1> HIDE DEF items
<1>7. x \in RunnerType /\ x.job = runners[w].job /\ x.items = items /\ x.pc = "clear"
  BY <1>2, <1>5 DEF RunnerType
<1>8. runners'[w] = x
  BY <1>6 DEF LifeInv, LifeTypeOK
<1> HIDE DEF x
<1>9. runners[w].job # "row" /\ profile'.status = "revoked"
  BY <1>1, <1>2 DEF RunnerStands
<1>10. RunnerStands(w)'
  BY <1>1, <1>4, <1>5, <1>7, <1>8, <1>9 DEF RunnerStands, Waits
<1> QED BY <1>1, <1>6, <1>7, <1>10, RunnerMoves, RowsRest DEF LifeInv, LifeTypeOK

LEMMA SweepStep ==
    ASSUME LifeInv, NEW w \in Runners, Life!Sweep(w)
    PROVE  LifeInv'
<1>1. UNCHANGED <<profile, devices, rows, redis, claiming>>
  BY DEF Life!Sweep
<1>2. runners[w] # Life!Resting /\ runners[w].pc = "sweep" /\ runners[w] \in RunnerType
      /\ RunnerStands(w)
  BY LifeTypes DEF Life!Sweep, Life!On
<1>3. Onward
  BY <1>1 DEF Onward, DeviceCleared, ProfileCleared, Waits
<1> DEFINE x == [runners[w] EXCEPT !.pc = "complete"]
<1>4. /\ runners' = [runners EXCEPT ![w] = x] /\ x \in RunnerType
      /\ runners'[w].pc = "complete" /\ runners'[w].job = runners[w].job
      /\ runners'[w].items = runners[w].items
  BY <1>2, RunnerSteps DEF Life!Sweep
<1> HIDE DEF x
<1>5. \A i \in runners[w].items : RowStands(i)'
  BY <1>2, <1>3, RowStays DEF RunnerStands, RunnerType
<1>6. RunnerStands(w)'
  BY <1>1, <1>2, <1>4, <1>5 DEF RunnerStands, Waits, DeviceCleared, ProfileCleared
<1>7. /\ manifests' \in [Devices -> {"none", "active", "condemned"}]
      /\ \A d \in Devices : /\ manifests'[d] = "active" => manifests[d] = "active"
                            /\ manifests[d] = "none" => manifests'[d] = "none"
  BY CondemnedObjects DEF Life!Sweep
<1> QED BY <1>1, <1>4, <1>6, <1>7, RunnerMoves, RowsRest DEF LifeInv, LifeTypeOK

LEMMA FailingJob ==
    ASSUME LifeInv, NEW w \in Runners, Life!FailJob(w)
    PROVE  /\ RowsMove
           /\ runners' = [runners EXCEPT ![w] = Life!Resting]
           /\ RunnerStands(w)'
           /\ profile' \in [status : {"active", "revoked"}, due : BOOLEAN,
                            deletion : {"none", "pending", "deleted"}]
           /\ profile'.status = profile.status /\ profile'.deletion = profile.deletion
BY RowsPutOff, RowsRest, RunnerRests DEF Life!FailJob, LifeInv, LifeTypeOK

LEMMA FaultStep ==
    ASSUME LifeInv, NEW w \in Runners, Life!Fault(w)
    PROVE  LifeInv'
BY FailingJob, RunnerMoves, RunnerRests, RowsRest DEF Life!Fault, LifeInv, LifeTypeOK

-----------------------------------------------------------------------------
(* Rows that come due, objects that are deleted *)

LEMMA OutsideSteps ==
    ASSUME LifeInv,
           \/ \E r \in rows : Life!RowDue(r)
           \/ Life!ErasureDue
           \/ \E d \in Devices : Life!DeleteObject(d)
           \/ UNCHANGED LifeVars
    PROVE  LifeInv'
<1>1. UNCHANGED <<devices, redis, claiming, runners>> /\ RowsMove
  BY RowComesDue, RowsRest DEF Life!RowDue, Life!ErasureDue, Life!DeleteObject, LifeVars
<1>2. /\ profile' \in [status : {"active", "revoked"}, deletion : {"none", "pending", "deleted"},
                       due : BOOLEAN]
      /\ profile'.status = profile.status /\ profile'.deletion = profile.deletion
      /\ manifests' \in [Devices -> {"none", "active", "condemned"}]
      /\ \A d \in Devices : /\ manifests'[d] = "active" => manifests[d] = "active"
                            /\ manifests[d] = "none" => manifests'[d] = "none"
  BY DEF Life!RowDue, Life!ErasureDue, Life!DeleteObject, LifeVars, LifeInv, LifeTypeOK
<1>3. Onward
  BY <1>1, <1>2 DEF Onward, RowsMove, SameWaits, DeviceCleared, ProfileCleared
<1>4. LifeTypeOK'
  BY <1>1, <1>2 DEF LifeInv, LifeTypeOK, RowsMove
<1>5. \A r \in rows' : RowStands(r)'
  BY <1>1, <1>3, RowStays DEF RowsMove
<1>6. \A v \in Runners : RunnerStands(v)'
  BY <1>1, <1>3, RunnerStays
<1>7. (\A d \in Devices : ClaimStands(d)') /\ RevocationStands' /\ ObjectsStand'
  BY <1>1, <1>2 DEF LifeInv, ClaimStands, RevocationStands, ObjectsStand, RowsMove, SameWaits,
                    DeviceCleared, ProfileCleared
<1> QED BY <1>4, <1>5, <1>6, <1>7 DEF LifeInv

-----------------------------------------------------------------------------
(* The revocations *)

LEMMA NewRow ==
    ASSUME NEW kind \in {"device", "profile"}, NEW d \in Devices \cup {Life!Whole}, NEW gen \in Nat
    PROVE  Life!Of(kind, d, gen) \in RowKind
  BY DEF Life!Of, RowKind

LEMMA RevokeDeviceStep ==
    ASSUME LifeInv, NEW w \in Runners, NEW d \in Devices, Life!RevokeDevice(w, d)
    PROVE  LifeInv'
<1>1. /\ UNCHANGED <<profile, redis, claiming>> /\ runners[w] = Life!Resting
      /\ profile.status = "active"
  BY DEF Life!RevokeDevice
<1>2. /\ manifests' \in [Devices -> {"none", "active", "condemned"}]
      /\ \A e \in Devices : /\ manifests'[e] = "active" => manifests[e] = "active" /\ e # d
                            /\ manifests[e] = "none" => manifests'[e] = "none"
  BY CondemnedObjects DEF Life!RevokeDevice
<1>3. CASE devices[d].revoked
  <2>1. UNCHANGED <<devices, rows>>
    BY <1>3 DEF Life!RevokeDevice
  <2>2. PICK r \in rows : Life!Job(w, "row", {r}, "clear")
    BY <1>3 DEF Life!RevokeDevice, Life!RowsOf
  <2>3. r \in RowKind /\ RowStands(r)
    BY LifeTypes
  <2>4. Onward
    BY <1>1, <2>1 DEF Onward, DeviceCleared
  <2> DEFINE x == [job |-> "row", items |-> {r}, pc |-> "clear"]
  <2>5. runners' = [runners EXCEPT ![w] = x] /\ x \in RunnerType
    BY <2>2, <2>3 DEF Life!Job, RunnerType
  <2>6. runners'[w] = x
    BY <2>5 DEF LifeInv, LifeTypeOK
  <2>7. RunnerStands(w)'
    BY <2>3, <2>4, <2>6, RowJobStarts
  <2> HIDE DEF x
  <2> QED BY <1>1, <1>2, <2>1, <2>5, <2>7, RunnerMoves, RowsRest DEF LifeInv, LifeTypeOK
<1>4. CASE ~devices[d].revoked
  <2>1. PICK g \in Nat : g = devices[d].gen + 1
    BY DEF LifeInv, LifeTypeOK
  <2>2. devices[d].gen \in Nat /\ devices[d].gen < g
    BY <2>1 DEF LifeInv, LifeTypeOK
  <2>3. PICK r \in RowKind : r = Life!Of("device", d, g)
    BY NewRow
  <2> DEFINE x == [job |-> "row", items |-> {r}, pc |-> "clear"]
  <2>17. r.kind = "device" /\ r.device = d /\ r.gen = g
    BY <2>3 DEF Life!Of
  <2>16. /\ devices' = [devices EXCEPT ![d] = [gen |-> g, revoked |-> TRUE]]
        /\ rows' = rows \cup {r} /\ runners' = [runners EXCEPT ![w] = x]
    BY <1>4, <2>1, <2>3 DEF Life!RevokeDevice, Life!Job
  <2>4. /\ devices' \in [Devices -> [gen : Nat, revoked : BOOLEAN]]
        /\ devices'[d].gen = g /\ devices'[d].revoked
        /\ \A e \in Devices : e # d => devices'[e] = devices[e]
    BY <2>16, <2>2 DEF LifeInv, LifeTypeOK
  <2>5. Onward
    BY <1>1, <1>4, <2>4 DEF Onward, DeviceCleared
  <2>6. RowStands(r)'
    BY <2>4, <2>17 DEF RowStands
  <2>7. x \in RunnerType
    BY <2>3 DEF RunnerType
  <2>8. runners'[w] = x
    BY <2>16 DEF LifeInv, LifeTypeOK
  <2>9. RunnerStands(w)'
    BY <2>6, <2>8 DEF RunnerStands
  <2> HIDE DEF x
  <2>10. LifeTypeOK'
    BY <1>1, <1>2, <2>16, <2>3, <2>4, <2>7 DEF LifeInv, LifeTypeOK
  <2>11. \A i \in rows' : RowStands(i)'
    BY <2>16, <2>5, <2>6, RowStays, LifeTypes
  <2>12. \A v \in Runners : RunnerStands(v)'
    BY <2>16, <2>5, <2>9, RunnerStays DEF LifeInv, LifeTypeOK
  <2>13. ASSUME NEW e \in Devices PROVE ClaimStands(e)'
    BY <1>1, <2>4, <2>2 DEF LifeInv, ClaimStands, LifeTypeOK, ClaimingType
  <2>14. RevocationStands'
    BY <2>16, <2>17, <1>1, <2>4 DEF Waits, LifeInv, RevocationStands, DeviceCleared
  <2>15. ObjectsStand'
    BY <1>1, <1>2, <2>4, LifeTypes DEF ObjectsStand
  <2> QED BY <2>10, <2>11, <2>12, <2>13, <2>14, <2>15 DEF LifeInv
<1> QED BY <1>3, <1>4 DEF LifeInv, LifeTypeOK

\* The profile is revoked: its row comes with it.
LEMMA ProfileEnds ==
    ASSUME LifeInv, UNCHANGED <<devices, redis, claiming>>,
           profile.status = "active",
           profile' \in [status : {"revoked"}, deletion : {"none", "pending"}, due : BOOLEAN],
           rows' = rows \cup {Life!Of("profile", Life!Whole, 1)},
           manifests' = Life!Condemned(Devices),
           runners' \in [Runners -> {Life!Resting} \cup RunnerType],
           \A v \in Runners : runners'[v] = runners[v] \/ RunnerStands(v)'
    PROVE  LifeInv'
<1>1. /\ manifests' \in [Devices -> {"none", "active", "condemned"}]
      /\ \A d \in Devices : manifests'[d] # "active"
  BY CondemnedObjects
<1>2. Onward
  BY DEF Onward, DeviceCleared
<1>3. PICK r \in RowKind : r = Life!Of("profile", Life!Whole, 1)
  BY NewRow
<1>4. r.kind = "profile" /\ r.device = Life!Whole /\ r.gen = 1 /\ r \in rows'
  BY <1>3 DEF Life!Of
<1>5. LifeTypeOK'
  BY <1>1, <1>3 DEF LifeInv, LifeTypeOK
<1>6. \A i \in rows' : RowStands(i)'
  BY <1>4, <1>2, <1>3, RowStays, LifeTypes DEF RowStands
<1>7. \A v \in Runners : RunnerStands(v)'
  BY <1>2, RunnerStays
<1>8. \A d \in Devices : ClaimStands(d)'
  BY DEF LifeInv, ClaimStands
<1>9. RevocationStands'
  BY <1>4 DEF Waits, RevocationStands, DeviceCleared
<1>10. ObjectsStand'
  BY <1>1 DEF ObjectsStand
<1> QED BY <1>5, <1>6, <1>7, <1>8, <1>9, <1>10 DEF LifeInv

LEMMA EndingSteps ==
    ASSUME LifeInv, Life!RevokeProfile \/ \E w \in Runners : Life!RequestErasure(w)
    PROVE  LifeInv'
<1>1. CASE Life!RevokeProfile
  BY <1>1, ProfileEnds DEF Life!RevokeProfile, LifeInv, LifeTypeOK, ObjectsStand
<1>2. ASSUME NEW w \in Runners, Life!RequestErasure(w) PROVE LifeInv'
  <2> DEFINE x == [job |-> "request", items |-> {}, pc |-> "sessions"]
  <2>1. /\ runners[w] = Life!Resting /\ runners' = [runners EXCEPT ![w] = x]
        /\ manifests' = Life!Condemned(Devices)
        /\ UNCHANGED <<devices, redis, claiming>>
    BY <1>2 DEF Life!RequestErasure, Life!Job
  <2>2. x \in RunnerType
    BY DEF RunnerType
  <2>3. runners'[w] = x
    BY <2>1 DEF LifeInv, LifeTypeOK
  <2>4. profile'.status = "revoked" => RunnerStands(w)'
    BY <2>3 DEF RunnerStands
  <2> HIDE DEF x
  <2>5. CASE profile.status = "active"
    <3>1. /\ profile' \in [status : {"revoked"}, deletion : {"none", "pending"}, due : BOOLEAN]
          /\ rows' = rows \cup {Life!Of("profile", Life!Whole, 1)}
      <4>1. profile.deletion # "pending"
        BY <2>5, LifeTypes
      <4>2. /\ profile' = [status |-> "revoked", deletion |-> "pending", due |-> TRUE]
            /\ rows' = rows \cup {Life!Of("profile", Life!Whole, 1)}
        BY <1>2, <4>1 DEF Life!RequestErasure
      <4> QED BY <4>2
    <3>2. runners' \in [Runners -> {Life!Resting} \cup RunnerType]
          /\ \A v \in Runners : runners'[v] = runners[v] \/ RunnerStands(v)'
      BY <2>1, <2>2, <2>4, <3>1 DEF LifeInv, LifeTypeOK
    <3> QED BY <2>1, <2>5, <3>1, <3>2, ProfileEnds
  <2>6. CASE profile.status # "active"
    <3>1. UNCHANGED <<profile, rows>> /\ profile.status = "revoked"
      BY <1>2, <2>6, LifeTypes DEF Life!RequestErasure
    <3>2. /\ manifests' \in [Devices -> {"none", "active", "condemned"}]
          /\ \A d \in Devices : /\ manifests'[d] = "active" => manifests[d] = "active"
                                /\ manifests[d] = "none" => manifests'[d] = "none"
      BY <2>1, CondemnedObjects
    <3> QED BY <2>1, <2>2, <2>4, <3>1, <3>2, RunnerMoves, RowsRest DEF LifeInv, LifeTypeOK
  <2> QED BY <2>5, <2>6
<1> QED BY <1>1, <1>2

-----------------------------------------------------------------------------
(* The work of a runner *)

\* Clearing leaves every claim that is under way where it was, or behind.
LEMMA ClearProfileStep ==
    ASSUME LifeInv, NEW w \in Runners, Life!ClearProfile(w)
    PROVE  LifeInv'
<1>1. /\ UNCHANGED <<profile, devices, rows, manifests>>
      /\ Life!Step(w, "sweep") /\ \A i \in runners[w].items : i.kind = "profile"
  BY DEF Life!ClearProfile
<1>2. runners[w] # Life!Resting /\ runners[w].pc = "clear" /\ runners[w] \in RunnerType
      /\ RunnerStands(w)
  BY LifeTypes DEF Life!ClearProfile, Life!On
<1>3. redis' \in [gens : [Devices -> Nat], claims : SUBSET Devices]
      /\ redis'.claims = {} /\ redis'.gens = redis.gens
  BY DEF Life!ClearProfile, LifeInv, LifeTypeOK
<1>4. /\ claiming' \in [Devices -> {Life!NotClaiming} \cup ClaimingType]
      /\ \A d \in Devices : claiming[d] = Life!NotClaiming => claiming'[d] = Life!NotClaiming
      /\ \A d \in Devices : claiming[d] # Life!NotClaiming =>
            /\ claiming[d] \in ClaimingType /\ claiming'[d] # Life!NotClaiming
            /\ claiming'[d].pc = claiming[d].pc /\ claiming'[d].gen = claiming[d].gen
            /\ claiming'[d].playback # "current"
  <2>1. claiming \in [Devices -> {Life!NotClaiming} \cup ClaimingType]
    BY DEF LifeInv, LifeTypeOK
  <2>2. claiming' = [d \in Devices |-> IF claiming[d] = Life!NotClaiming THEN Life!NotClaiming
            ELSE [claiming[d] EXCEPT !.playback = IF claiming[d].playback = "unread"
                                                  THEN claiming[d].playback ELSE "left"]]
    BY DEF Life!ClearProfile
  <2>4. ASSUME NEW d \in Devices, claiming[d] # Life!NotClaiming
        PROVE  /\ claiming[d] \in ClaimingType /\ claiming'[d] # Life!NotClaiming
               /\ claiming'[d] \in ClaimingType
               /\ claiming'[d].pc = claiming[d].pc /\ claiming'[d].gen = claiming[d].gen
               /\ claiming'[d].playback # "current"
    <3> DEFINE p == IF claiming[d].playback = "unread" THEN claiming[d].playback ELSE "left"
    <3>1. p \in {"unread", "left"} /\ claiming'[d] = [claiming[d] EXCEPT !.playback = p]
      BY <2>2, <2>4
    <3> HIDE DEF p
    <3>2. claiming[d] \in ClaimingType
      BY <2>1, <2>4
    <3>3. PICK c \in ClaimingType : c = claiming[d]
      BY <3>2
    <3>4. PICK q \in {"unread", "left"} : q = p
      BY <3>1
    <3>5. claiming'[d] = [c EXCEPT !.playback = q]
      BY <3>1, <3>3, <3>4
    <3>6. /\ [c EXCEPT !.playback = q] \in ClaimingType
          /\ [c EXCEPT !.playback = q].pc = c.pc /\ [c EXCEPT !.playback = q].gen = c.gen
          /\ [c EXCEPT !.playback = q].playback = q
          /\ [c EXCEPT !.playback = q] # Life!NotClaiming
      BY DEF ClaimingType, Life!NotClaiming
    <3>7. q # "current"
      OBVIOUS
    <3> QED BY <3>3, <3>5, <3>6, <3>7
  <2>5. \A d \in Devices : claiming[d] = Life!NotClaiming => claiming'[d] = Life!NotClaiming
    BY <2>2
  <2>6. DOMAIN claiming' = Devices /\ claiming' = [d \in Devices |-> claiming'[d]]
    BY <2>2
  <2> QED BY <2>4, <2>5, <2>6
<1>5. ProfileCleared' /\ \A d \in Devices : DeviceCleared(d) => DeviceCleared(d)'
  BY <1>1, <1>3, <1>4 DEF ProfileCleared, DeviceCleared, Life!NotClaiming
<1>6. Onward
  BY <1>1, <1>5 DEF Onward, Waits
<1>7. /\ runners' \in [Runners -> {Life!Resting} \cup RunnerType]
      /\ runners'[w] \in RunnerType /\ runners'[w].pc = "sweep"
      /\ runners'[w].job = runners[w].job /\ runners'[w].items = runners[w].items
      /\ \A v \in Runners : v # w => runners'[v] = runners[v]
  BY <1>1, <1>2, RunnerSteps DEF LifeInv, LifeTypeOK
<1>8. RunnerStands(w)'
  BY <1>2, <1>6, RowStays, <1>1, <1>5, <1>7 DEF RunnerStands, RunnerType, Waits
<1>9. LifeTypeOK'
  BY <1>1, <1>3, <1>4, <1>7 DEF LifeInv, LifeTypeOK
<1>10. \A r \in rows' : RowStands(r)'
  BY <1>1, <1>6, RowStays, LifeTypes
<1>11. \A v \in Runners : RunnerStands(v)'
  BY <1>6, <1>7, <1>8, RunnerStays
<1>12. \A d \in Devices : ClaimStands(d)'
  BY <1>1, <1>4 DEF LifeInv, ClaimStands
<1>13. RevocationStands' /\ ObjectsStand'
  BY <1>1, <1>5 DEF LifeInv, RevocationStands, ObjectsStand, Waits
<1> QED BY <1>9, <1>10, <1>11, <1>12, <1>13 DEF LifeInv

LEMMA InvalidateStep ==
    ASSUME LifeInv, NEW w \in Runners, Life!InvalidateDevice(w)
    PROVE  LifeInv'
<1>1. /\ UNCHANGED <<profile, devices, rows, manifests, claiming>> /\ Life!Step(w, "sweep")
  BY DEF Life!InvalidateDevice
<1>2. runners[w] # Life!Resting /\ runners[w].pc = "clear" /\ runners[w] \in RunnerType
      /\ RunnerStands(w)
  BY LifeTypes DEF Life!InvalidateDevice, Life!On
<1>3. PICK i \in runners[w].items :
         /\ i.kind = "device"
         /\ redis' = [redis EXCEPT !.gens[i.device] = IF @ < i.gen THEN i.gen ELSE @,
                                   !.claims = @ \ {i.device}]
  BY DEF Life!InvalidateDevice
<1>4. i \in RowKind /\ i.device \in Devices /\ i.gen = devices[i.device].gen /\ i.gen \in Nat
      /\ \A j \in runners[w].items : j = i
  BY <1>2, <1>3 DEF RunnerStands, RowStands, RunnerType, RowKind
<1> DEFINE g == IF redis.gens[i.device] < i.gen THEN i.gen ELSE redis.gens[i.device]
<1>5. /\ g \in Nat /\ i.gen <= g /\ redis.gens[i.device] <= g
      /\ redis \in [gens : [Devices -> Nat], claims : SUBSET Devices]
  BY <1>4 DEF LifeInv, LifeTypeOK
<1>6. redis' = [redis EXCEPT !.gens = [redis.gens EXCEPT ![i.device] = g],
                             !.claims = redis.claims \ {i.device}]
  BY <1>3, <1>4, <1>5
<1> HIDE DEF g
<1>7. /\ redis' \in [gens : [Devices -> Nat], claims : SUBSET Devices]
      /\ redis'.gens[i.device] = g /\ redis'.claims = redis.claims \ {i.device}
      /\ \A d \in Devices : d # i.device => redis'.gens[d] = redis.gens[d]
  BY <1>4, <1>5, <1>6
<1>8. DeviceCleared(i.device)' /\ \A d \in Devices : DeviceCleared(d) => DeviceCleared(d)'
  BY <1>1, <1>4, <1>5, <1>7 DEF DeviceCleared
<1>9. ProfileCleared => ProfileCleared'
  BY <1>1, <1>7 DEF ProfileCleared
<1>10. Onward
  BY <1>1, <1>8, <1>9 DEF Onward, Waits
<1>11. /\ runners' \in [Runners -> {Life!Resting} \cup RunnerType]
      /\ runners'[w] \in RunnerType /\ runners'[w].pc = "sweep"
      /\ runners'[w].job = runners[w].job /\ runners'[w].items = runners[w].items
      /\ \A v \in Runners : v # w => runners'[v] = runners[v]
  BY <1>1, <1>2, RunnerSteps DEF LifeInv, LifeTypeOK
<1>12. RunnerStands(w)'
  BY <1>2, <1>10, RowStays, <1>3, <1>1, <1>4, <1>8, <1>11 DEF RunnerStands, RunnerType
<1>13. LifeTypeOK'
  BY <1>1, <1>7, <1>11 DEF LifeInv, LifeTypeOK
<1>14. \A r \in rows' : RowStands(r)'
  BY <1>1, <1>10, RowStays, LifeTypes
<1>15. \A v \in Runners : RunnerStands(v)'
  BY <1>10, <1>11, <1>12, RunnerStays
<1>16. \A d \in Devices : ClaimStands(d)'
  BY <1>1 DEF LifeInv, ClaimStands
<1>17. RevocationStands' /\ ObjectsStand'
  BY <1>1, <1>8, <1>9 DEF LifeInv, RevocationStands, ObjectsStand, Waits
<1> QED BY <1>13, <1>14, <1>15, <1>16, <1>17 DEF LifeInv

\* The row that a job deletes is of what it was on, and of a profile there is
\* only one.
LEMMA RowsOfJob ==
    ASSUME LifeInv, NEW w \in Runners, runners[w] # Life!Resting
    PROVE  /\ \A r \in rows : r \in Life!Same(runners[w].items) =>
                 \E i \in runners[w].items : i.kind = r.kind /\ i.device = r.device
           /\ \A r \in rows, i \in runners[w].items :
                 r.kind = "profile" /\ i.kind = "profile" => r \in Life!Same(runners[w].items)
<1>1. \A i \in runners[w].items : i \in RowKind /\ RowStands(i)
  BY LifeTypes DEF RunnerStands, RunnerType
<1>2. \A r \in rows : r \in RowKind /\ RowStands(r)
  BY LifeTypes
<1>3. ASSUME NEW r \in rows, r \in Life!Same(runners[w].items)
      PROVE  \E i \in runners[w].items : i.kind = r.kind /\ i.device = r.device
  BY <1>3, <1>1 DEF Life!Same, RowKind
<1>4. ASSUME NEW r \in rows, NEW i \in runners[w].items, r.kind = "profile", i.kind = "profile"
      PROVE  r \in Life!Same(runners[w].items)
  <2>1. /\ r \in RowKind /\ i \in RowKind
        /\ r.device = i.device /\ r.gen = i.gen /\ r.kind = i.kind
    BY <1>1, <1>2, <1>4 DEF RowStands
  <2>2. r = [i EXCEPT !.due = r.due, !.attempts = r.attempts]
    BY <2>1 DEF RowKind
  <2> QED BY <2>2 DEF Life!Same
<1> QED BY <1>3, <1>4

LEMMA CompleteStep ==
    ASSUME LifeInv, NEW w \in Runners, Life!Complete(w)
    PROVE  LifeInv'
<1>1. /\ UNCHANGED <<profile, devices, manifests, redis, claiming>>
      /\ rows' = rows \ Life!Same(runners[w].items)
  BY DEF Life!Complete
<1>2. runners[w] # Life!Resting /\ runners[w].pc = "complete" /\ runners[w] \in RunnerType
      /\ RunnerStands(w)
  BY LifeTypes DEF Life!Complete, Life!On
<1>3. Onward
  BY <1>1 DEF Onward, DeviceCleared, ProfileCleared, Waits
<1>4. \A r \in rows' : r \in rows /\ r \in RowKind /\ RowStands(r)'
  BY <1>1, <1>3, RowStays, LifeTypes
<1>5. /\ runners' \in [Runners -> {Life!Resting} \cup RunnerType]
      /\ RunnerStands(w)' /\ \A v \in Runners : v # w => runners'[v] = runners[v]
  <2>1. CASE runners[w].job = "row"
    BY <2>1, RunnerRests DEF Life!Complete, LifeInv, LifeTypeOK
  <2>2. CASE runners[w].job # "row"
    <3>1. Life!Step(w, "sessionsAgain")
      BY <2>2 DEF Life!Complete
    <3>2. /\ runners' \in [Runners -> {Life!Resting} \cup RunnerType]
          /\ runners'[w].pc = "sessionsAgain"
          /\ runners'[w].job = runners[w].job /\ runners'[w].items = runners[w].items
          /\ \A v \in Runners : v # w => runners'[v] = runners[v]
      BY <1>2, <3>1, RunnerSteps
    <3>3. \A i \in runners[w].items : RowStands(i)' /\ i.kind = "profile"
      BY <1>2, <1>3, <2>2, RowStays DEF RunnerStands, RunnerType
    <3>4. ~Waits("profile", Life!Whole)'
      BY <1>2, <1>4, <1>1, <3>3, RowsOfJob DEF RunnerStands, Waits
    <3> QED BY <1>1, <1>2, <2>2, <3>2, <3>3, <3>4 DEF RunnerStands
  <2> QED BY <2>1, <2>2
<1>6. LifeTypeOK'
  BY <1>1, <1>4, <1>5 DEF LifeInv, LifeTypeOK
<1>7. \A v \in Runners : RunnerStands(v)'
  BY <1>3, <1>5, RunnerStays
<1>8. \A d \in Devices : ClaimStands(d)'
  BY <1>1 DEF LifeInv, ClaimStands
<1>9. RevocationStands'
  <2>1. ASSUME NEW d \in Devices, devices[d].revoked, ~Waits("device", d)'
        PROVE  DeviceCleared(d)
    BY <2>1, <1>1, <1>2, RowsOfJob DEF LifeInv, RevocationStands, Waits, RunnerStands
  <2>2. ASSUME profile.status = "revoked", ~Waits("profile", Life!Whole)'
        PROVE  ProfileCleared
    <3>1. CASE ~Waits("profile", Life!Whole)
      BY <2>2, <3>1 DEF LifeInv, RevocationStands
    <3>2. CASE Waits("profile", Life!Whole)
      BY <3>2, <1>1, <2>2, <1>2, RowsOfJob DEF Waits, RunnerType, RowKind, RunnerStands
    <3> QED BY <3>1, <3>2
  <2> QED BY <1>1, <2>1, <2>2 DEF RevocationStands, DeviceCleared, ProfileCleared
<1>10. ObjectsStand'
  BY <1>4, <1>1 DEF Waits, LifeInv, ObjectsStand
<1> QED BY <1>4, <1>6, <1>7, <1>8, <1>9, <1>10 DEF LifeInv

LEMMA EraseStep ==
    ASSUME LifeInv, NEW w \in Runners, Life!Erase(w)
    PROVE  LifeInv'
<1>1. UNCHANGED <<manifests, redis, claiming>>
  BY DEF Life!Erase
<1>2. runners[w] # Life!Resting /\ runners[w].pc = "erase" /\ runners[w] \in RunnerType
      /\ RunnerStands(w)
  BY LifeTypes DEF Life!Erase, Life!On
<1>3. CASE Life!FailJob(w) /\ UNCHANGED devices
  BY <1>1, <1>3, FailingJob, RunnerMoves DEF LifeInv, LifeTypeOK
<1>4. CASE Life!Rest(w) /\ UNCHANGED <<profile, devices, rows>>
  BY <1>1, <1>4, RunnerRests, RunnerMoves, RowsRest DEF LifeInv, LifeTypeOK
<1>5. CASE /\ profile.deletion = "pending" /\ \A d \in Devices : manifests[d] = "none"
           /\ profile' = [profile EXCEPT !.deletion = "deleted"]
           /\ devices' = [d \in Devices |-> [devices[d] EXCEPT !.revoked = TRUE]]
           /\ Life!Rest(w) /\ UNCHANGED rows
  <2>1. /\ profile' \in [status : {"active", "revoked"}, deletion : {"none", "pending", "deleted"},
                         due : BOOLEAN]
        /\ profile'.status = "revoked" /\ profile.status = "revoked"
        /\ profile'.deletion = "deleted"
    BY <1>5, LifeTypes DEF LifeTypeOK
  <2>2. /\ devices' \in [Devices -> [gen : Nat, revoked : BOOLEAN]]
        /\ \A d \in Devices : devices'[d].revoked /\ devices'[d].gen = devices[d].gen
    <3>1. devices \in [Devices -> [gen : Nat, revoked : BOOLEAN]]
      BY DEF LifeInv, LifeTypeOK
    <3>2. devices' = [d \in Devices |-> [devices[d] EXCEPT !.revoked = TRUE]]
      BY <1>5
    <3> QED BY <3>1, <3>2
  <2>3. Onward
    BY <1>1, <1>5, <2>1, <2>2 DEF Onward, DeviceCleared, ProfileCleared, Waits
  <2>4. LifeTypeOK'
    <3>1. runners' \in [Runners -> {Life!Resting} \cup RunnerType]
      BY <1>5, RunnerRests DEF LifeInv, LifeTypeOK
    <3>2. UNCHANGED <<rows, manifests, redis, claiming>>
      BY <1>1, <1>5
    <3> QED BY <2>1, <2>2, <3>1, <3>2 DEF LifeInv, LifeTypeOK
  <2>5. \A r \in rows' : RowStands(r)'
    BY <1>5, <2>3, RowStays, LifeTypes
  <2>6. \A v \in Runners : RunnerStands(v)'
    BY <1>5, <2>3, RunnerRests, RunnerStays DEF LifeInv, LifeTypeOK
  <2>7. \A d \in Devices : ClaimStands(d)'
    BY <1>1, <2>1, <2>2 DEF LifeInv, ClaimStands
  <2>8. RevocationStands'
    BY <1>1, <1>5, <2>1, <2>3 DEF LifeInv, RevocationStands, DeviceCleared, ProfileCleared, Waits
  <2>9. ObjectsStand'
    BY <1>1, <1>2, <1>5, <2>1 DEF LifeInv, ObjectsStand, RunnerStands, Waits
  <2> QED BY <2>4, <2>5, <2>6, <2>7, <2>8, <2>9 DEF LifeInv
<1> QED BY <1>3, <1>4, <1>5 DEF Life!Erase

-----------------------------------------------------------------------------
(* What a device does *)

\* A claim gets ahead, and nothing is claimed.
LEMMA ClaimingMoves ==
    ASSUME LifeInv, NEW d \in Devices,
           UNCHANGED <<profile, devices, rows, manifests, runners>>,
           redis' = redis \/ redis' = [redis EXCEPT !.claims = @ \ {d}],
           claiming' \in [Devices -> {Life!NotClaiming} \cup ClaimingType],
           \A e \in Devices : e # d => claiming'[e] = claiming[e],
           ClaimStands(d)',
           claiming'[d].pc = "claim" =>
               claiming[d].playback = claiming'[d].playback /\ profile.status = "active"
    PROVE  LifeInv'
<1>1. redis' \in [gens : [Devices -> Nat], claims : SUBSET Devices]
      /\ redis'.gens = redis.gens /\ redis'.claims \subseteq redis.claims
  BY DEF LifeInv, LifeTypeOK
<1>2. Onward
  BY <1>1 DEF Onward, DeviceCleared, ProfileCleared, Waits
<1>3. LifeTypeOK'
  BY <1>1 DEF LifeInv, LifeTypeOK
<1>4. \A r \in rows' : RowStands(r)'
  BY <1>2, RowStays, LifeTypes
<1>5. \A v \in Runners : RunnerStands(v)'
  BY <1>2, RunnerStays
<1>6. \A e \in Devices : ClaimStands(e)'
  BY DEF LifeInv, ClaimStands
<1>7. RevocationStands'
  BY <1>1, <1>2 DEF LifeInv, RevocationStands, Onward, DeviceCleared, ProfileCleared, Waits
<1>8. ObjectsStand'
  BY DEF LifeInv, ObjectsStand, Waits
<1> QED BY <1>3, <1>4, <1>5, <1>6, <1>7, <1>8 DEF LifeInv

\* A claim in the hands of a request, and how one of its steps changes it.
LEMMA ClaimType ==
    ASSUME LifeInv, NEW d \in Devices, claiming[d].pc # "idle"
    PROVE  claiming[d] \in ClaimingType /\ claiming[d] # Life!NotClaiming /\ ClaimStands(d)
  BY DEF LifeInv, LifeTypeOK, Life!NotClaiming

LEMMA ClaimingSteps ==
    ASSUME LifeInv, NEW d \in Devices,
           \/ Life!Authenticate(d) \/ Life!ReadGeneration(d) \/ Life!Admit(d) \/ Life!Validate(d)
    PROVE  LifeInv'
<1>1. /\ UNCHANGED <<profile, devices, rows, manifests, runners>>
      /\ redis' = redis \/ redis' = [redis EXCEPT !.claims = @ \ {d}]
  BY DEF Life!Authenticate, Life!ReadGeneration, Life!Admit, Life!Validate, Life!Rested
<1>2. ASSUME NEW c \in {Life!NotClaiming} \cup ClaimingType,
             claiming' = [claiming EXCEPT ![d] = c],
             c # Life!NotClaiming =>
                 /\ c.gen <= devices[d].gen
                 /\ devices[d].revoked /\ profile.status = "active" => c.gen < devices[d].gen,
             c.pc = "claim" => claiming[d].playback = c.playback /\ profile.status = "active"
      PROVE  LifeInv'
  BY <1>2, <1>1, ClaimingMoves DEF LifeInv, LifeTypeOK, ClaimStands
<1>3. CASE claiming' = [claiming EXCEPT ![d] = Life!NotClaiming]
  BY <1>2, <1>3 DEF Life!NotClaiming
<1>4. CASE Life!Authenticate(d)
  <2> DEFINE c == [pc |-> "generation", gen |-> devices[d].gen, playback |-> "unread"]
  <2>1. devices[d].gen \in Nat /\ ~devices[d].revoked
    BY <1>4 DEF LifeInv, LifeTypeOK, Life!Authenticate, Life!Valid
  <2>2. c \in ClaimingType /\ c.gen <= devices[d].gen /\ c.pc # "claim"
    BY <2>1 DEF ClaimingType
  <2>3. claiming' = [claiming EXCEPT ![d] = c]
    BY <1>4 DEF Life!Authenticate
  <2> HIDE DEF c
  <2> QED BY <1>2, <2>1, <2>2, <2>3
<1>5. CASE Life!ReadGeneration(d)
  <2> DEFINE c == [claiming[d] EXCEPT !.playback = "current", !.pc = "admit"]
  <2>1. claiming[d] \in ClaimingType /\ claiming[d] # Life!NotClaiming /\ ClaimStands(d)
    BY <1>5, ClaimType DEF Life!ReadGeneration
  <2>2. claiming' = [claiming EXCEPT ![d] = c]
    BY <1>5 DEF Life!ReadGeneration, LifeInv, LifeTypeOK
  <2>3. c \in ClaimingType /\ c.gen = claiming[d].gen /\ c.pc # "claim"
    BY <2>1 DEF ClaimingType
  <2> HIDE DEF c
  <2> QED BY <1>2, <2>1, <2>2, <2>3 DEF ClaimStands
<1>6. CASE Life!Admit(d)
  <2> DEFINE c == [claiming[d] EXCEPT !.pc = "claim"]
  <2>1. claiming[d] \in ClaimingType /\ claiming[d] # Life!NotClaiming /\ ClaimStands(d)
    BY <1>6, ClaimType DEF Life!Admit
  <2>2. \/ claiming' = [claiming EXCEPT ![d] = Life!NotClaiming]
        \/ profile.status = "active" /\ claiming' = [claiming EXCEPT ![d] = c]
    BY <1>6 DEF Life!Admit, Life!Valid
  <2>3. c \in ClaimingType /\ c.gen = claiming[d].gen /\ c.playback = claiming[d].playback
    BY <2>1 DEF ClaimingType
  <2> HIDE DEF c
  <2>4. CASE profile.status = "active" /\ claiming' = [claiming EXCEPT ![d] = c]
    BY <1>2, <2>1, <2>3, <2>4 DEF ClaimStands
  <2> QED BY <1>3, <2>2, <2>4
<1>7. CASE Life!Validate(d)
  BY <1>3, <1>7 DEF Life!Validate
<1> QED BY <1>4, <1>5, <1>6, <1>7

\* The script admits a claim only with the generation of the device in Redis,
\* and with the playback generation of the profile.
LEMMA ClaimedStep ==
    ASSUME LifeInv, NEW d \in Devices, Life!Claim(d)
    PROVE  LifeInv'
<1>1. UNCHANGED <<profile, devices, rows, manifests, runners>>
  BY DEF Life!Claim, Life!Rested
<1>2. claiming[d] \in ClaimingType /\ claiming[d] # Life!NotClaiming /\ ClaimStands(d)
      /\ claiming[d].pc = "claim"
  BY ClaimType DEF Life!Claim
<1>3. CASE ~Life!Admissible(d)
  <2>1. /\ UNCHANGED redis /\ claiming' \in [Devices -> {Life!NotClaiming} \cup ClaimingType]
        /\ claiming'[d] = Life!NotClaiming
        /\ \A e \in Devices : e # d => claiming'[e] = claiming[e]
    BY <1>3 DEF Life!Claim, LifeInv, LifeTypeOK
  <2>2. ClaimStands(d)' /\ claiming'[d].pc # "claim"
    BY <2>1 DEF ClaimStands, Life!NotClaiming
  <2> QED BY <1>1, <2>1, <2>2, ClaimingMoves
<1>4. CASE Life!Admissible(d)
  <2>1. /\ redis' \in [gens : [Devices -> Nat], claims : SUBSET Devices]
        /\ redis'.gens = redis.gens /\ redis'.claims = redis.claims \cup {d}
    BY <1>4 DEF Life!Claim, LifeInv, LifeTypeOK
  <2>2. /\ claiming' \in [Devices -> {Life!NotClaiming} \cup ClaimingType]
        /\ claiming'[d].pc = "validate" /\ claiming'[d].gen = claiming[d].gen
        /\ \A e \in Devices : e # d => claiming'[e] = claiming[e]
    <3> DEFINE c == [claiming[d] EXCEPT !.pc = "validate"]
    <3>1. c \in ClaimingType /\ c.gen = claiming[d].gen /\ c.pc = "validate"
      BY <1>2 DEF ClaimingType
    <3>2. claiming' = [claiming EXCEPT ![d] = c]
      BY <1>4 DEF Life!Claim, LifeInv, LifeTypeOK
    <3> HIDE DEF c
    <3> QED BY <3>1, <3>2 DEF LifeInv, LifeTypeOK
  <2>3. claiming[d].playback = "current" /\ redis.gens[d] <= claiming[d].gen
    BY <1>4 DEF Life!Admissible
  <2>4. ~ProfileCleared
    BY <1>2, <2>3 DEF ProfileCleared
  <2>5. ~(profile.status = "active" /\ devices[d].revoked /\ DeviceCleared(d))
    BY <1>2, <2>3 DEF LifeInv, LifeTypeOK, ClaimingType, DeviceCleared, ClaimStands
  <2>6. Onward
    BY <1>1, <2>1, <2>4, <2>5 DEF Onward, DeviceCleared, Waits
  <2>7. LifeTypeOK'
    BY <1>1, <2>1, <2>2 DEF LifeInv, LifeTypeOK
  <2>8. \A r \in rows' : RowStands(r)'
    BY <1>1, <2>6, RowStays, LifeTypes
  <2>9. \A v \in Runners : RunnerStands(v)'
    BY <1>1, <2>6, RunnerStays
  <2>10. \A e \in Devices : ClaimStands(e)'
    BY <1>1, <1>2, <2>2 DEF LifeInv, ClaimStands
  <2>11. RevocationStands'
    BY <1>1, <2>4, <2>6 DEF LifeInv, RevocationStands, Onward, Waits
  <2>12. ObjectsStand'
    BY <1>1 DEF LifeInv, ObjectsStand, Waits
  <2> QED BY <2>7, <2>8, <2>9, <2>10, <2>11, <2>12 DEF LifeInv
<1> QED BY <1>3, <1>4

LEMMA StoreStep ==
    ASSUME LifeInv, NEW d \in Devices, Life!Store(d)
    PROVE  LifeInv'
<1>1. UNCHANGED <<profile, devices, rows, redis, runners, claiming>>
      /\ profile.status = "active" /\ ~devices[d].revoked
  BY DEF Life!Store, Life!Valid
<1>2. /\ manifests' \in [Devices -> {"none", "active", "condemned"}]
      /\ \A e \in Devices : e # d => manifests'[e] = manifests[e]
  BY DEF Life!Store, LifeInv, LifeTypeOK
<1>3. Onward
  BY <1>1 DEF Onward, DeviceCleared, ProfileCleared, Waits
<1>4. LifeTypeOK'
  BY <1>1, <1>2 DEF LifeInv, LifeTypeOK
<1>5. \A r \in rows' : RowStands(r)'
  BY <1>1, <1>3, RowStays, LifeTypes
<1>6. \A v \in Runners : RunnerStands(v)'
  BY <1>1, <1>3, RunnerStays
<1>7. (\A e \in Devices : ClaimStands(e)') /\ RevocationStands'
  BY <1>1 DEF LifeInv, ClaimStands, RevocationStands, DeviceCleared, ProfileCleared, Waits
<1>8. ObjectsStand'
  BY <1>1, <1>2 DEF LifeInv, ObjectsStand, Waits
<1> QED BY <1>4, <1>5, <1>6, <1>7, <1>8 DEF LifeInv

LEMMA LifeNext == LifeInv /\ Life!Next => LifeInv'
<1> SUFFICES ASSUME LifeInv, Life!Next PROVE LifeInv'
  OBVIOUS
<1>1. ASSUME NEW w \in Runners, Life!Work(w) PROVE LifeInv'
  BY <1>1, TakingSteps, ClearProfileStep, InvalidateStep, SweepStep, CompleteStep, SessionsStep,
     FindRowStep, EraseStep
  DEF Life!Work
<1>2. ASSUME NEW w \in Runners, Life!Ask(w) \/ Life!Fault(w) PROVE LifeInv'
  BY <1>2, EndingSteps, RevokeDeviceStep, FaultStep DEF Life!Ask
<1>3. ASSUME NEW d \in Devices, Life!Device(d) PROVE LifeInv'
  BY <1>3, ClaimingSteps, ClaimedStep, StoreStep DEF Life!Device
<1> QED BY <1>1, <1>2, <1>3, OutsideSteps, EndingSteps DEF Life!Next

\* What was cleared is gone, and an object is only of what still stands.
LEMMA LifeGone == LifeInv => Life!GoneForGood
BY DEF Life!RowsOf, Waits, LifeInv, RevocationStands, ObjectsStand, DeviceCleared, ProfileCleared,
       Life!GoneForGood

-----------------------------------------------------------------------------
(***************************************************************************)
(* The account at Trakt.                                                   *)
(***************************************************************************)
FlowSteps == {"issue", "consume", "fence", "exchange", "write"}
CodeHolders == {"issue", "fence", "exchange"}
TokenHolders == {"write", "refresh", "persist"}

TokenType == [id : Nat, since : Nat]
FlowType == [id : Nat, gen : Nat, rev : Nat, since : Nat]
JobType ==
    [pc : FlowSteps \cup TokenHolders \cup {"idle", "wait", "fail"},
     flow : FlowType, token : TokenType, rev : Nat, attempt : Nat]
RowType ==
    [rev : Nat, gen : Nat,
     state : {"none", "ready", "disconnected", "refreshing", "reauthorization_required"},
     token : TokenType, fresh : BOOLEAN, attempt : Nat]
GrantType == {"code", "token"} \X Nat

TraktTypeOK ==
    /\ row \in RowType
    /\ states \subseteq FlowType
    /\ jobs \in [Bridges -> JobType]
    /\ grants \in [tokens : Nat, sent : SUBSET GrantType, twice : SUBSET GrantType]
    /\ launched \in Nat /\ disconnects \in Nat

CodeSent(n) == <<"code", n>> \in grants.sent
TokenSent(n) == <<"token", n>> \in grants.sent

\* An authorization is in the hands of one server, or in its OAuth state.
CodesOnce ==
    /\ \A s \in Bridges : jobs[s].pc \in CodeHolders =>
          /\ ~CodeSent(jobs[s].flow.id) /\ jobs[s].flow.id <= launched
          /\ \A st \in states : st.id # jobs[s].flow.id
    /\ \A s, t \in Bridges :
          s # t /\ jobs[s].pc \in CodeHolders /\ jobs[t].pc \in CodeHolders =>
             jobs[s].flow.id # jobs[t].flow.id
    /\ \A st \in states : ~CodeSent(st.id) /\ st.id <= launched
    /\ \A st, su \in states : st.id = su.id => st = su
    /\ \A n \in Nat : CodeSent(n) => n <= launched

\* A token that was not sent is in the row, or in the hands of one server.
TokensOnce ==
    /\ \A s \in Bridges : jobs[s].pc \in TokenHolders =>
          /\ ~TokenSent(jobs[s].token.id)
          /\ 0 < jobs[s].token.id /\ jobs[s].token.id <= grants.tokens
          /\ row.state = "ready" => row.token.id # jobs[s].token.id
    /\ \A s, t \in Bridges :
          s # t /\ jobs[s].pc \in TokenHolders /\ jobs[t].pc \in TokenHolders =>
             jobs[s].token.id # jobs[t].token.id
    /\ row.state = "ready" =>
          ~TokenSent(row.token.id) /\ 0 < row.token.id /\ row.token.id <= grants.tokens
    /\ \A n \in Nat : TokenSent(n) => n <= grants.tokens

\* Who would write to the row as it is has asked after the last disconnection.
KnowsLast(flow) == flow.rev <= row.rev /\ (flow.rev = row.rev => flow.since = disconnects)

ConsentFollows ==
    /\ \A s \in Bridges : jobs[s].pc \in FlowSteps => KnowsLast(jobs[s].flow)
    /\ \A s \in Bridges : jobs[s].pc = "write" => jobs[s].token.since = jobs[s].flow.since
    /\ \A s \in Bridges : jobs[s].pc \in {"refresh", "persist"} =>
          jobs[s].rev <= row.rev /\ (jobs[s].rev = row.rev => jobs[s].token.since = disconnects)
    /\ \A st \in states : KnowsLast(st)
    /\ row.rev = 0 => disconnects = 0 /\ row.state # "ready"

TraktInv ==
    /\ TraktTypeOK
    /\ CodesOnce
    /\ TokensOnce
    /\ ConsentFollows
    /\ Trakt!GrantsUsedOnce
    /\ Trakt!ConsentStands

LEMMA TraktInit == Trakt!Init => TraktInv
  BY DEF Trakt!Init, TraktInv, CodesOnce, TokensOnce, ConsentFollows, CodeSent, TokenSent,
         KnowsLast, Trakt!GrantsUsedOnce, Trakt!ConsentStands, TraktTypeOK, RowType, JobType,
         FlowType, TokenType, GrantType, FlowSteps, CodeHolders, TokenHolders, Trakt!NoToken,
         Trakt!NoFlow, Trakt!Idle

LEMMA TraktTypes ==
    ASSUME TraktTypeOK
    PROVE  /\ row.rev \in Nat /\ row.gen \in Nat /\ row.token \in TokenType
           /\ row.token.id \in Nat /\ row.token.since \in Nat
           /\ row.attempt \in Nat
           /\ \A st \in states : st \in FlowType
           /\ \A st \in FlowType : st.id \in Nat /\ st.gen \in Nat /\ st.rev \in Nat /\ st.since \in Nat
           /\ \A s \in Bridges :
                 /\ jobs[s] \in JobType /\ jobs[s].flow \in FlowType
                 /\ jobs[s].token \in TokenType /\ jobs[s].rev \in Nat
                 /\ jobs[s].token.id \in Nat /\ jobs[s].token.since \in Nat
           /\ grants.tokens \in Nat
           /\ launched \in Nat /\ disconnects \in Nat
  BY DEF TraktTypeOK, RowType, JobType, FlowType, TokenType

\* The rows that are written.
LEMMA TokenFreeRow ==
    ASSUME TraktTypeOK, NEW state \in {"disconnected", "refreshing", "reauthorization_required"}
    PROVE  /\ Trakt!TokenFree(state) \in RowType
           /\ Trakt!TokenFree(state).rev = row.rev + 1 /\ Trakt!TokenFree(state).state = state
           /\ \A gen \in Nat :
                 LET new == [Trakt!TokenFree(state) EXCEPT !.gen = gen] IN
                 new \in RowType /\ new.rev = row.rev + 1 /\ new.state = state
           /\ \A attempt \in Nat :
                 LET new == [Trakt!TokenFree(state) EXCEPT !.attempt = attempt] IN
                 new \in RowType /\ new.rev = row.rev + 1 /\ new.state = state
<1>1. row \in RowType /\ Trakt!NoToken \in TokenType
  BY DEF TraktTypeOK, TokenType, Trakt!NoToken
<1>2. row.rev + 1 \in Nat /\ row.gen \in Nat
  BY TraktTypes
<1> QED BY <1>1, <1>2 DEF RowType, Trakt!TokenFree

LEMMA ConnectedRow ==
    ASSUME TraktTypeOK, NEW token \in TokenType
    PROVE  /\ Trakt!Connected(token) \in RowType
           /\ Trakt!Connected(token).rev = row.rev + 1 /\ Trakt!Connected(token).state = "ready"
           /\ Trakt!Connected(token).token = token
BY TraktTypes DEF RowType, Trakt!Connected

\* A server goes to another step and keeps what it has.
LEMMA GoToJob ==
    ASSUME TraktTypeOK, NEW s \in Bridges, NEW pc \in {"fence", "exchange", "fail"},
           Trakt!GoTo(s, pc)
    PROVE  \E work \in JobType :
              /\ jobs' = [jobs EXCEPT ![s] = work]
              /\ work.pc = pc /\ work.flow = jobs[s].flow
<1>1. jobs[s] \in JobType
  BY TraktTypes
<1> DEFINE work == [jobs[s] EXCEPT !.pc = pc]
<1>2. work \in JobType /\ work.pc = pc /\ work.flow = jobs[s].flow
  BY <1>1 DEF JobType, FlowSteps, TokenHolders
<1>3. jobs' = [jobs EXCEPT ![s] = work]
  BY DEF Trakt!GoTo, Trakt!Become
<1> HIDE DEF work
<1> QED BY <1>2, <1>3

LEMMA EndJob ==
    ASSUME TraktTypeOK, NEW s \in Bridges, Trakt!End(s)
    PROVE  \E work \in JobType : jobs' = [jobs EXCEPT ![s] = work] /\ work.pc = "idle"
<1>1. Trakt!Idle \in JobType /\ Trakt!Idle.pc = "idle"
  BY DEF Trakt!Idle, Trakt!NoFlow, Trakt!NoToken, JobType, FlowType, TokenType
<1> QED BY <1>1 DEF Trakt!End

LEMMA OneJob ==
    ASSUME TraktTypeOK, NEW s \in Bridges, NEW work \in JobType,
           jobs' = [jobs EXCEPT ![s] = work]
    PROVE  /\ jobs' \in [Bridges -> JobType] /\ jobs'[s] = work
           /\ \A t \in Bridges : t # s => jobs'[t] = jobs[t]
  BY DEF TraktTypeOK

-----------------------------------------------------------------------------
\* What leaves each part of the invariant alone.
LEMMA CodesKept ==
    ASSUME TraktTypeOK, CodesOnce, NEW s \in Bridges, NEW work \in JobType,
           jobs' = [jobs EXCEPT ![s] = work],
           work.pc \in CodeHolders => jobs[s].pc \in CodeHolders /\ work.flow = jobs[s].flow,
           states' \subseteq states, launched' = launched,
           \A n \in Nat : CodeSent(n)' <=> CodeSent(n)
    PROVE  CodesOnce'
<1>1. /\ jobs'[s] = work /\ \A t \in Bridges : t # s => jobs'[t] = jobs[t]
      /\ \A t \in Bridges : jobs[t].flow.id \in Nat
      /\ \A st \in states : st.id \in Nat
  BY OneJob, TraktTypes
<1>2. \A t \in Bridges : jobs'[t].pc \in CodeHolders =>
         jobs[t].pc \in CodeHolders /\ jobs'[t].flow = jobs[t].flow
  BY <1>1
<1> HIDE DEF CodeHolders, CodeSent
<1> QED BY <1>1, <1>2 DEF CodesOnce

LEMMA TokensKept ==
    ASSUME TraktTypeOK, TokensOnce, NEW s \in Bridges, NEW work \in JobType,
           jobs' = [jobs EXCEPT ![s] = work],
           work.pc \notin TokenHolders,
           row'.state = "ready" => row.state = "ready" /\ row'.token = row.token,
           grants'.tokens = grants.tokens,
           \A n \in Nat : TokenSent(n)' <=> TokenSent(n)
    PROVE  TokensOnce'
<1>1. /\ jobs'[s] = work /\ \A t \in Bridges : t # s => jobs'[t] = jobs[t]
      /\ \A t \in Bridges : jobs[t].token.id \in Nat
      /\ row.token.id \in Nat
  BY OneJob, TraktTypes
<1>2. \A t \in Bridges : jobs'[t].pc \in TokenHolders =>
         jobs[t].pc \in TokenHolders /\ jobs'[t].token = jobs[t].token
  BY <1>1
<1> HIDE DEF TokenHolders, TokenSent
<1> QED BY <1>1, <1>2 DEF TokensOnce

\* The revision of the row only grows.
LEMMA ConsentKept ==
    ASSUME TraktTypeOK, ConsentFollows, NEW s \in Bridges, NEW work \in JobType,
           jobs' = [jobs EXCEPT ![s] = work],
           work.pc \in FlowSteps => KnowsLast(work.flow),
           work.pc = "write" => work.token.since = work.flow.since,
           work.pc \in {"refresh", "persist"} =>
              work.rev <= row'.rev /\ (work.rev = row'.rev => work.token.since = disconnects),
           disconnects' = disconnects, states' \subseteq states,
           row'.rev = row.rev \/ row'.rev = row.rev + 1,
           row'.state = "ready" => row'.rev # 0
    PROVE  ConsentFollows'
<1>1. /\ jobs'[s] = work /\ \A t \in Bridges : t # s => jobs'[t] = jobs[t]
      /\ \A t \in Bridges : jobs[t].flow.rev \in Nat /\ jobs[t].rev \in Nat
      /\ \A st \in states : st.rev \in Nat
      /\ row.rev \in Nat /\ work.flow.rev \in Nat
  BY OneJob, TraktTypes DEF JobType
<1>2. \A flow \in FlowType : KnowsLast(flow) =>
         flow.rev <= row'.rev /\ (flow.rev = row'.rev => flow.since = disconnects')
  BY TraktTypes, <1>1 DEF KnowsLast
<1>3. ASSUME NEW t \in Bridges, jobs'[t].pc \in FlowSteps PROVE KnowsLast(jobs[t].flow)'
  BY TraktTypes, <1>1, <1>3, <1>2 DEF JobType, ConsentFollows, KnowsLast
<1>4. ASSUME NEW t \in Bridges, jobs'[t].pc = "write"
      PROVE  jobs'[t].token.since = jobs'[t].flow.since
  BY <1>1, <1>4 DEF ConsentFollows
<1>5. ASSUME NEW t \in Bridges, jobs'[t].pc \in {"refresh", "persist"}
      PROVE  /\ jobs'[t].rev <= row'.rev
             /\ jobs'[t].rev = row'.rev => jobs'[t].token.since = disconnects
  BY <1>1, <1>5 DEF ConsentFollows
<1>6. \A st \in states' : st.rev <= row'.rev /\ (st.rev = row'.rev => st.since = disconnects')
  BY <1>2, TraktTypes DEF ConsentFollows
<1>7. row'.rev = 0 => disconnects = 0 /\ row'.state # "ready"
  BY <1>1 DEF ConsentFollows
<1> QED BY <1>3, <1>4, <1>5, <1>6, <1>7 DEF ConsentFollows, KnowsLast
-----------------------------------------------------------------------------
\* What an authorization goes through.
LEMMA CodesLaunched ==
    ASSUME TraktTypeOK, CodesOnce, NEW s \in Bridges, NEW work \in JobType,
           jobs' = [jobs EXCEPT ![s] = work], work.flow.id = launched + 1,
           launched' = launched + 1, states' = states, grants' = grants
    PROVE  CodesOnce'
<1>1. /\ jobs'[s] = work /\ \A t \in Bridges : t # s => jobs'[t] = jobs[t]
      /\ \A t \in Bridges : jobs[t].flow.id \in Nat
      /\ \A st \in states : st.id \in Nat
      /\ launched \in Nat
  BY OneJob, TraktTypes
<1>2. /\ \A n \in Nat : n <= launched => n <= launched' /\ n # launched + 1
      /\ ~CodeSent(launched + 1) /\ launched + 1 <= launched'
  BY <1>1 DEF CodesOnce
<1>3. \A n : CodeSent(n)' <=> CodeSent(n)
  BY DEF CodeSent
<1> QED BY <1>1, <1>2, <1>3 DEF CodesOnce

LEMMA CodesIssued ==
    ASSUME TraktTypeOK, CodesOnce, NEW s \in Bridges, NEW work \in JobType,
           jobs' = [jobs EXCEPT ![s] = work], work.pc = "idle", jobs[s].pc = "issue",
           states' = states \cup {jobs[s].flow}, launched' = launched, grants' = grants
    PROVE  CodesOnce'
<1>1. /\ jobs'[s] = work /\ \A t \in Bridges : t # s => jobs'[t] = jobs[t]
      /\ "issue" \in CodeHolders /\ "idle" \notin CodeHolders
  BY OneJob DEF CodeHolders
<1>2. \A n : CodeSent(n)' <=> CodeSent(n)
  BY DEF CodeSent
<1> QED BY <1>1, <1>2 DEF CodesOnce

LEMMA CodesConsumed ==
    ASSUME TraktTypeOK, CodesOnce, NEW s \in Bridges, NEW work \in JobType,
           jobs' = [jobs EXCEPT ![s] = work], work.flow = jobs[s].flow, jobs[s].flow \in states,
           states' = states \ {jobs[s].flow}, launched' = launched, grants' = grants
    PROVE  CodesOnce'
<1>1. jobs'[s] = work /\ \A t \in Bridges : t # s => jobs'[t] = jobs[t]
  BY OneJob
<1>2. \A n : CodeSent(n)' <=> CodeSent(n)
  BY DEF CodeSent
<1> QED BY <1>1, <1>2 DEF CodesOnce

LEMMA CodesSent ==
    ASSUME TraktTypeOK, CodesOnce, NEW s \in Bridges, NEW work \in JobType,
           jobs' = [jobs EXCEPT ![s] = work], work.pc \notin CodeHolders, jobs[s].pc = "exchange",
           states' = states, launched' = launched,
           grants'.sent = grants.sent \cup {Trakt!CodeOf(jobs[s].flow)}
    PROVE  CodesOnce'
<1>1. /\ jobs'[s] = work /\ \A t \in Bridges : t # s => jobs'[t] = jobs[t]
      /\ "exchange" \in CodeHolders
  BY OneJob DEF CodeHolders
<1>2. \A n : CodeSent(n)' <=> CodeSent(n) \/ n = jobs[s].flow.id
  BY DEF CodeSent, Trakt!CodeOf
<1> QED BY <1>1, <1>2 DEF CodesOnce

-----------------------------------------------------------------------------
\* What a token goes through.
LEMMA TokensTaken ==
    ASSUME TraktTypeOK, TokensOnce, NEW s \in Bridges, NEW work \in JobType,
           jobs' = [jobs EXCEPT ![s] = work], work.token = row.token,
           row.state = "ready", row'.state # "ready", grants' = grants
    PROVE  TokensOnce'
BY OneJob DEF TokenSent, TokensOnce

LEMMA TokensMinted ==
    ASSUME TraktTypeOK, TokensOnce, NEW s \in Bridges, NEW work \in JobType,
           jobs' = [jobs EXCEPT ![s] = work], work.token.id = grants.tokens + 1,
           row' = row, grants'.tokens = grants.tokens + 1,
           \A n \in Nat : TokenSent(n)' =>
              TokenSent(n) \/ (jobs[s].pc = "refresh" /\ n = jobs[s].token.id)
    PROVE  TokensOnce'
<1>1. /\ jobs'[s] = work /\ \A t \in Bridges : t # s => jobs'[t] = jobs[t]
      /\ \A t \in Bridges : jobs[t].token.id \in Nat
      /\ row.token.id \in Nat /\ grants.tokens \in Nat /\ "refresh" \in TokenHolders
  BY OneJob, TraktTypes DEF TokenHolders
<1>2. /\ \A n \in Nat : n <= grants.tokens => n <= grants'.tokens /\ n # grants.tokens + 1
      /\ ~TokenSent(grants.tokens + 1) /\ grants.tokens + 1 <= grants'.tokens
      /\ 0 < grants.tokens + 1 /\ grants.tokens + 1 \in Nat
  BY <1>1 DEF TokensOnce
<1> QED BY <1>1, <1>2 DEF TokensOnce

LEMMA TokensSpent ==
    ASSUME TraktTypeOK, TokensOnce, NEW s \in Bridges, NEW work \in JobType,
           jobs' = [jobs EXCEPT ![s] = work], work.pc \notin TokenHolders, jobs[s].pc = "refresh",
           row' = row, grants'.tokens = grants.tokens,
           grants'.sent = grants.sent \cup {Trakt!TokenOf(jobs[s].token)}
    PROVE  TokensOnce'
<1>1. /\ jobs'[s] = work /\ \A t \in Bridges : t # s => jobs'[t] = jobs[t]
      /\ "refresh" \in TokenHolders
  BY OneJob DEF TokenHolders
<1>2. \A n : TokenSent(n)' <=> TokenSent(n) \/ n = jobs[s].token.id
  BY DEF TokenSent, Trakt!TokenOf
<1> QED BY <1>1, <1>2 DEF TokensOnce

LEMMA TokensWritten ==
    ASSUME TraktTypeOK, TokensOnce, NEW s \in Bridges, NEW work \in JobType,
           jobs' = [jobs EXCEPT ![s] = work], work.pc \notin TokenHolders,
           jobs[s].pc \in TokenHolders, row'.token = jobs[s].token, grants' = grants
    PROVE  TokensOnce'
<1>1. jobs'[s] = work /\ \A t \in Bridges : t # s => jobs'[t] = jobs[t]
  BY OneJob
<1>2. \A n : TokenSent(n)' <=> TokenSent(n)
  BY DEF TokenSent
<1> QED BY <1>1, <1>2 DEF TokensOnce

\* Nothing was sent twice, by what is to come.
LEMMA OnceFollows ==
    ASSUME TokensOnce, grants.twice = {}
    PROVE  Trakt!GrantsUsedOnce
  BY DEF TokensOnce, Trakt!GrantsUsedOnce, TokenSent, Trakt!TokenOf
-----------------------------------------------------------------------------
\* A step that changes only what one server does, and sends nothing.
LEMMA JobAlone ==
    ASSUME TraktInv, NEW s \in Bridges, NEW work \in JobType,
           jobs' = [jobs EXCEPT ![s] = work],
           work.pc \in CodeHolders => jobs[s].pc \in CodeHolders /\ work.flow = jobs[s].flow,
           work.pc \in FlowSteps => KnowsLast(work.flow), work.pc \notin TokenHolders,
           states' \subseteq states,
           UNCHANGED <<row, grants, launched, disconnects>>
    PROVE  TraktInv'
<1>1. TraktTypeOK /\ CodesOnce /\ TokensOnce /\ ConsentFollows /\ grants.twice = {}
  BY DEF TraktInv, Trakt!GrantsUsedOnce
<1>2. TraktTypeOK'
  BY <1>1, OneJob DEF TraktTypeOK
<1>3. CodesOnce' /\ TokensOnce'
  BY <1>1, CodesKept, TokensKept DEF CodeSent, TokenSent
<1>4. ConsentFollows'
  BY <1>1, ConsentKept DEF TokenHolders, ConsentFollows
<1>5. Trakt!GrantsUsedOnce' /\ Trakt!ConsentStands'
  BY DEF TraktInv, Trakt!GrantsUsedOnce, Trakt!ConsentStands, Trakt!TokenOf
<1> QED BY <1>2, <1>3, <1>4, <1>5 DEF TraktInv

LEMMA EndAlone ==
    ASSUME TraktInv, NEW s \in Bridges, Trakt!End(s), states' \subseteq states,
           UNCHANGED <<row, grants, launched, disconnects>>
    PROVE  TraktInv'
BY EndJob, JobAlone DEF TraktInv, CodeHolders, FlowSteps, TokenHolders

\* The row takes a revision without a token, and one server does something else.
LEMMA TokenFreeAlone ==
    ASSUME TraktInv, NEW s \in Bridges, Trakt!End(s),
           row' \in RowType, row'.rev = row.rev + 1, row'.state # "ready",
           UNCHANGED <<states, grants, launched, disconnects>>
    PROVE  TraktInv'
<1>1. TraktTypeOK /\ CodesOnce /\ TokensOnce /\ ConsentFollows /\ grants.twice = {}
  BY DEF TraktInv, Trakt!GrantsUsedOnce
<1>2. PICK work \in JobType : jobs' = [jobs EXCEPT ![s] = work] /\ work.pc = "idle"
  BY <1>1, EndJob
<1>3. TraktTypeOK'
  BY <1>1, <1>2, OneJob DEF TraktTypeOK
<1>4. CodesOnce' /\ TokensOnce'
  BY <1>1, <1>2, CodesKept, TokensKept DEF CodeSent, TokenSent, CodeHolders, TokenHolders
<1>5. ConsentFollows'
  BY <1>1, <1>2, ConsentKept DEF FlowSteps
<1>6. Trakt!GrantsUsedOnce' /\ Trakt!ConsentStands'
  BY <1>1 DEF Trakt!GrantsUsedOnce, Trakt!ConsentStands
<1> QED BY <1>3, <1>4, <1>5, <1>6 DEF TraktInv

-----------------------------------------------------------------------------
LEMMA LaunchStep ==
    ASSUME TraktInv, NEW s \in Bridges, Trakt!Launch(s)
    PROVE  TraktInv'
<1>1. TraktTypeOK /\ CodesOnce /\ TokensOnce /\ ConsentFollows /\ grants.twice = {}
  BY DEF TraktInv, Trakt!GrantsUsedOnce
<1>2. /\ launched' = launched + 1 /\ launched \in Nat
      /\ UNCHANGED <<states, grants, disconnects>>
  BY <1>1, TraktTypes DEF Trakt!Launch
<1>3. /\ row' \in RowType
      /\ row'.rev = IF row.rev = 0 THEN 1 ELSE row.rev
      /\ row'.gen = IF row.rev = 0 THEN 1 ELSE row.gen
      /\ row' = row \/ (row.rev = 0 /\ row'.state = "disconnected")
  BY <1>1, TokenFreeRow DEF Trakt!Launch, Trakt!Put, Trakt!Ensured, RowType, TraktTypeOK
<1> DEFINE flow == [id |-> launched + 1, since |-> disconnects,
                    gen |-> row'.gen, rev |-> row'.rev]
           work == [Trakt!Idle EXCEPT !.pc = "issue", !.flow = flow]
<1>4. flow \in FlowType
  BY <1>1, <1>2, <1>3, TraktTypes DEF FlowType, RowType
<1>5. work \in JobType /\ work.pc = "issue" /\ work.flow = flow
  BY <1>4 DEF Trakt!NoToken, TokenType, JobType, FlowSteps, Trakt!Idle
<1>6. jobs' = [jobs EXCEPT ![s] = work]
  BY <1>3 DEF Trakt!Launch, Trakt!Become
<1>7. flow.id = launched + 1 /\ flow.since = disconnects /\ flow.rev = row'.rev
  OBVIOUS
<1> HIDE DEF work, flow
<1>8. TraktTypeOK'
  BY <1>1, <1>2, <1>3, <1>5, <1>6, OneJob DEF TraktTypeOK
<1>9. CodesOnce'
  BY <1>1, <1>2, <1>5, <1>6, <1>7, CodesLaunched
<1>10. TokensOnce'
  BY <1>2, <1>1, <1>3, <1>5, <1>6, TokensKept DEF TokenSent, TokenHolders
<1>11. row.rev = 0 => disconnects = 0 /\ row.state # "ready"
  BY <1>1 DEF ConsentFollows
<1>12. ConsentFollows'
  <2>1. /\ jobs'[s] = work /\ \A t \in Bridges : t # s => jobs'[t] = jobs[t]
        /\ row'.rev \in Nat /\ row'.rev # 0
    <3>1. jobs'[s] = work /\ \A t \in Bridges : t # s => jobs'[t] = jobs[t]
      BY <1>1, <1>5, <1>6, OneJob
    <3>2. row.rev \in Nat
      BY <1>1, TraktTypes
    <3> QED BY <1>3, <3>1, <3>2
  <2>2. \A f \in FlowType : KnowsLast(f) =>
           f.rev <= row'.rev /\ (f.rev = row'.rev => f.since = disconnects')
    BY <1>1, TraktTypes, <1>2, <1>3, <1>11 DEF KnowsLast
  <2>3. ASSUME NEW t \in Bridges, jobs'[t].pc \in FlowSteps PROVE KnowsLast(jobs[t].flow)'
    BY <1>2, <1>5, <1>7, <2>1, <1>1, <2>2, <2>3, TraktTypes DEF KnowsLast, ConsentFollows
  <2>4. ASSUME NEW t \in Bridges, jobs'[t].pc = "write"
        PROVE  jobs'[t].token.since = jobs'[t].flow.since
    BY <1>1, <1>5, <2>1, <2>4 DEF ConsentFollows
  <2>5. ASSUME NEW t \in Bridges, jobs'[t].pc \in {"refresh", "persist"}
        PROVE  /\ jobs'[t].rev <= row'.rev
               /\ jobs'[t].rev = row'.rev => jobs'[t].token.since = disconnects'
    BY <1>5, <2>1, <2>5, <1>1, TraktTypes, <1>2, <1>3 DEF ConsentFollows
  <2>6. \A st \in states' : KnowsLast(st)'
    BY <1>1, <1>2, <2>2, TraktTypes DEF ConsentFollows, KnowsLast
  <2> QED BY <2>1, <2>3, <2>4, <2>5, <2>6 DEF ConsentFollows
<1>13. Trakt!GrantsUsedOnce' /\ Trakt!ConsentStands'
  BY <1>1, <1>2, <1>3 DEF TraktInv, Trakt!GrantsUsedOnce, Trakt!ConsentStands
<1> QED BY <1>8, <1>9, <1>10, <1>12, <1>13 DEF TraktInv
LEMMA StateSteps ==
    ASSUME TraktInv, NEW s \in Bridges, Trakt!Issue(s) \/ Trakt!ConsumeState(s)
    PROVE  TraktInv'
<1>1. TraktTypeOK /\ CodesOnce /\ TokensOnce /\ ConsentFollows /\ grants.twice = {}
  BY DEF TraktInv, Trakt!GrantsUsedOnce
<1>2. UNCHANGED <<row, grants, launched, disconnects>>
  BY DEF Trakt!Issue, Trakt!ConsumeState
<1>3. /\ \A n \in Nat : TokenSent(n)' <=> TokenSent(n)
      /\ row.rev = 0 => row.state # "ready"
  BY <1>1, <1>2 DEF TokenSent, ConsentFollows
<1>4. Trakt!GrantsUsedOnce' /\ Trakt!ConsentStands'
  BY <1>2 DEF TraktInv, Trakt!GrantsUsedOnce, Trakt!ConsentStands, Trakt!TokenOf
<1>5. CASE Trakt!Issue(s) /\ states' = states \cup {jobs[s].flow}
  <2>1. PICK work \in JobType : jobs' = [jobs EXCEPT ![s] = work] /\ work.pc = "idle"
    BY <1>1, <1>5, EndJob DEF Trakt!Issue
  <2>2. jobs[s].pc = "issue" /\ jobs[s].flow \in FlowType
    BY <1>1, <1>5, TraktTypes DEF Trakt!Issue, Trakt!At
  <2>3. TraktTypeOK'
    BY <1>1, <1>2, <1>5, <2>1, <2>2, OneJob DEF TraktTypeOK
  <2>4. CodesOnce'
    BY <1>1, <1>2, <1>5, <2>1, <2>2, CodesIssued
  <2>5. TokensOnce'
    BY <1>1, <1>2, <1>3, <2>1, TokensKept DEF TokenHolders
  <2>6. ConsentFollows'
    BY <1>1, <2>1, OneJob, <2>2, <1>2, <1>5 DEF ConsentFollows, FlowSteps, KnowsLast
  <2> QED BY <1>4, <2>3, <2>4, <2>5, <2>6 DEF TraktInv
<1>6. CASE Trakt!ConsumeState(s) /\ Trakt!GoTo(s, "fence") /\ jobs[s].flow \in states
  <2>1. PICK work \in JobType : /\ jobs' = [jobs EXCEPT ![s] = work]
                              /\ work.pc = "fence" /\ work.flow = jobs[s].flow
    BY <1>1, <1>6, GoToJob
  <2>2. states' = states \ {jobs[s].flow}
    BY <1>6 DEF Trakt!ConsumeState
  <2>3. TraktTypeOK'
    BY <1>1, <1>2, <2>1, <2>2, OneJob DEF TraktTypeOK
  <2>4. CodesOnce'
    BY <1>1, <1>2, <1>6, <2>1, <2>2, CodesConsumed
  <2>5. TokensOnce'
    BY <1>1, <1>2, <1>3, <2>1, TokensKept DEF TokenHolders
  <2>6. ConsentFollows'
    BY <1>1, <1>6, <1>2, <1>3, <2>1, <2>2, ConsentKept DEF ConsentFollows
  <2> QED BY <1>4, <2>3, <2>4, <2>5, <2>6 DEF TraktInv
<1>7. CASE Trakt!End(s) /\ states' \subseteq states
  BY <1>2, <1>7, EndAlone
<1> QED BY <1>5, <1>6, <1>7 DEF Trakt!Issue, Trakt!ConsumeState

\* The browser comes back, a row that moved is noticed, somebody waits.
LEMMA LookingSteps ==
    ASSUME TraktInv, NEW s \in Bridges,
           \/ \E st \in states : Trakt!PeekState(s, st)
           \/ Trakt!Fence(s) \/ Trakt!Observe(s) \/ Trakt!PollAgain(s) \/ Trakt!Stop(s)
    PROVE  TraktInv'
<1>1. TraktTypeOK /\ ConsentFollows
  BY DEF TraktInv
<1>2. UNCHANGED <<row, states, grants, launched, disconnects>>
  BY DEF Trakt!PeekState, Trakt!Fence, Trakt!Observe, Trakt!PollAgain, Trakt!Stop
<1>3. Trakt!NoToken \in TokenType /\ Trakt!NoFlow \in FlowType /\ jobs[s] \in JobType
      /\ row.attempt \in Nat
  BY <1>1, TraktTypes DEF Trakt!NoToken, Trakt!NoFlow, TokenType, FlowType
<1>4. CASE Trakt!End(s)
  BY <1>2, <1>4, EndAlone
<1>5. ASSUME NEW st \in states, Trakt!PeekState(s, st) PROVE TraktInv'
  <2> DEFINE work == [Trakt!Idle EXCEPT !.pc = "consume", !.flow = st]
  <2>1. work \in JobType /\ work.pc = "consume" /\ work.flow = st
    BY <1>1, <1>3, TraktTypes DEF JobType, FlowSteps, Trakt!Idle
  <2>2. jobs' = [jobs EXCEPT ![s] = work]
    BY <1>5 DEF Trakt!PeekState, Trakt!Become
  <2>3. KnowsLast(st)
    BY <1>1 DEF ConsentFollows
  <2> HIDE DEF work
  <2> QED BY <1>2, <2>1, <2>2, <2>3, JobAlone DEF CodeHolders, TokenHolders
<1>6. CASE Trakt!Fence(s) /\ Trakt!GoTo(s, "exchange")
  <2>1. PICK work \in JobType : /\ jobs' = [jobs EXCEPT ![s] = work]
                              /\ work.pc = "exchange" /\ work.flow = jobs[s].flow
    BY <1>1, <1>6, GoToJob
  <2>2. jobs[s].pc = "fence"
    BY <1>6 DEF Trakt!Fence, Trakt!At
  <2>3. KnowsLast(jobs[s].flow)
    BY <1>1, <2>2 DEF ConsentFollows, FlowSteps
  <2> QED BY <1>2, <2>1, <2>2, <2>3, JobAlone DEF CodeHolders, TokenHolders
<1>7. CASE Trakt!Observe(s)
  <2> DEFINE work == [Trakt!Idle EXCEPT !.pc = "wait", !.attempt = row.attempt]
  <2>1. work \in JobType /\ work.pc = "wait"
    BY <1>3 DEF JobType, Trakt!Idle
  <2>2. jobs' = [jobs EXCEPT ![s] = work]
    BY <1>7 DEF Trakt!Observe, Trakt!Become
  <2> HIDE DEF work
  <2> QED BY <1>2, <2>1, <2>2, JobAlone DEF CodeHolders, TokenHolders, FlowSteps
<1>8. CASE Trakt!PollAgain(s) /\ ~Trakt!End(s)
  <2> DEFINE work == [jobs[s] EXCEPT !.attempt = row.attempt]
  <2>1. work \in JobType /\ work.pc = "wait"
    BY <1>3, <1>8 DEF JobType, Trakt!PollAgain, Trakt!At
  <2>2. jobs' = [jobs EXCEPT ![s] = work]
    BY <1>8 DEF Trakt!PollAgain, Trakt!Become
  <2> HIDE DEF work
  <2> QED BY <1>2, <2>1, <2>2, JobAlone DEF CodeHolders, TokenHolders, FlowSteps
<1> QED BY <1>4, <1>5, <1>6, <1>7, <1>8 DEF Trakt!Fence, Trakt!PollAgain, Trakt!Stop

\* An attempt is given up.
LEMMA GivingUpSteps ==
    ASSUME TraktInv, NEW s \in Bridges, Trakt!GiveUpRefresh(s) \/ Trakt!StopWaiting(s)
    PROVE  TraktInv'
BY EndAlone, TokenFreeRow, TokenFreeAlone
   DEF TraktInv, Trakt!GiveUpRefresh, Trakt!StopWaiting, Trakt!FailClosed, Trakt!Put
LEMMA MintedGrants ==
    ASSUME grants \in [tokens : Nat, sent : SUBSET GrantType, twice : SUBSET GrantType],
           NEW grant \in GrantType,
           grants' = [grants EXCEPT !.tokens = @ + 1, !.sent = @ \cup {grant}]
    PROVE  /\ grants' \in [tokens : Nat, sent : SUBSET GrantType, twice : SUBSET GrantType]
           /\ grants'.tokens = grants.tokens + 1 /\ grants'.twice = grants.twice
           /\ grants'.sent = grants.sent \cup {grant}
<1>1. grants.tokens + 1 \in Nat /\ grants.sent \cup {grant} \in SUBSET GrantType
  OBVIOUS
<1> HIDE DEF GrantType
<1> DEFINE count == grants.tokens + 1
           posted == grants.sent \cup {grant}
<1>2. grants' = [grants EXCEPT !.tokens = count, !.sent = posted]
  OBVIOUS
<1>3. count \in Nat /\ posted \in SUBSET GrantType
  BY <1>1
<1> HIDE DEF count, posted
<1>4. /\ grants' \in [tokens : Nat, sent : SUBSET GrantType, twice : SUBSET GrantType]
      /\ grants'.tokens = count /\ grants'.twice = grants.twice /\ grants'.sent = posted
  BY <1>2, <1>3
<1> QED BY <1>4 DEF count, posted

\* A code is sent, and the token that comes of it is one of that user's consent.
LEMMA ExchangeStep ==
    ASSUME TraktInv, NEW s \in Bridges, Trakt!Exchange(s)
    PROVE  TraktInv'
<1> DEFINE st == jobs[s].flow
<1>1. TraktTypeOK /\ CodesOnce /\ TokensOnce /\ ConsentFollows /\ grants.twice = {}
  BY DEF TraktInv, Trakt!GrantsUsedOnce
<1>2. jobs[s].pc = "exchange" /\ UNCHANGED <<row, states, launched, disconnects>>
  BY DEF Trakt!Exchange, Trakt!At
<1>3. st \in FlowType /\ st.id \in Nat /\ st.since \in Nat /\ KnowsLast(st)
  BY <1>1, <1>2, TraktTypes DEF ConsentFollows, FlowSteps
<1>4. Trakt!CodeOf(st) \notin grants.sent
  BY <1>1, <1>2 DEF CodesOnce, CodeHolders, CodeSent, Trakt!CodeOf
<1>5. /\ grants \in [tokens : Nat, sent : SUBSET GrantType, twice : SUBSET GrantType]
      /\ Trakt!CodeOf(st) \in GrantType
  BY <1>1, <1>3 DEF TraktTypeOK, GrantType, Trakt!CodeOf
<1>6. row.rev = 0 => row.state # "ready"
  BY <1>1 DEF ConsentFollows
<1>7. ASSUME grants'.sent = grants.sent \cup {Trakt!CodeOf(st)}
      PROVE  \A n \in Nat : TokenSent(n)' <=> TokenSent(n)
  BY <1>7 DEF TokenSent, Trakt!CodeOf
<1>8. Trakt!ConsentStands'
  BY <1>2 DEF TraktInv, Trakt!ConsentStands
<1>9. ASSUME grants' = [grants EXCEPT !.tokens = @ + 1, !.sent = @ \cup {Trakt!CodeOf(st)}],
             jobs' = [jobs EXCEPT ![s] = [jobs[s] EXCEPT !.pc = "write",
                                              !.token = Trakt!Minted(st.since)]]
      PROVE  TraktInv'
  <2> DEFINE work == [jobs[s] EXCEPT !.pc = "write", !.token = Trakt!Minted(st.since)]
  <2>1. /\ grants' \in [tokens : Nat, sent : SUBSET GrantType, twice : SUBSET GrantType]
        /\ grants'.tokens = grants.tokens + 1 /\ grants'.twice = {}
        /\ grants'.sent = grants.sent \cup {Trakt!CodeOf(st)}
    BY <1>1, <1>5, <1>9, MintedGrants
  <2>2. /\ work \in JobType /\ work.pc = "write" /\ work.flow = st
        /\ work.token.id = grants.tokens + 1 /\ work.token.since = st.since
    <3>1. jobs[s] \in JobType
      BY <1>1, TraktTypes
    <3>2. Trakt!Minted(st.since) \in TokenType
      BY <1>3, <1>5 DEF TokenType, Trakt!Minted
    <3> QED BY <3>1, <3>2 DEF JobType, FlowSteps, Trakt!Minted
  <2>3. jobs' = [jobs EXCEPT ![s] = work]
    BY <1>9
  <2> HIDE DEF work
  <2>4. TraktTypeOK'
    BY <1>1, <1>2, <2>1, <2>2, <2>3, OneJob DEF TraktTypeOK
  <2>5. CodesOnce'
    BY <1>1, <1>2, <2>1, <2>2, <2>3, CodesSent DEF CodeHolders
  <2>6. TokensOnce'
    BY <1>1, <1>2, <1>7, <2>1, <2>2, <2>3, TokensMinted
  <2>7. ConsentFollows'
    BY <1>1, <1>2, <1>3, <1>6, <2>2, <2>3, ConsentKept
  <2> QED BY <1>8, <2>1, <2>4, <2>5, <2>6, <2>7, OnceFollows
          DEF TraktInv, TokensOnce, Trakt!GrantsUsedOnce, TokenSent, Trakt!TokenOf
<1>10. ASSUME Trakt!Send(Trakt!CodeOf(st)), Trakt!End(s)
       PROVE  TraktInv'
  <2>1. /\ grants' \in [tokens : Nat, sent : SUBSET GrantType, twice : SUBSET GrantType]
        /\ grants'.tokens = grants.tokens /\ grants'.twice = {}
        /\ grants'.sent = grants.sent \cup {Trakt!CodeOf(st)}
    BY <1>1, <1>4, <1>5, <1>10 DEF Trakt!Send
  <2>2. PICK work \in JobType : jobs' = [jobs EXCEPT ![s] = work] /\ work.pc = "idle"
    BY <1>1, <1>10, EndJob
  <2>3. TraktTypeOK'
    BY <1>1, <1>2, <2>1, <2>2, OneJob DEF TraktTypeOK
  <2>4. CodesOnce'
    BY <1>1, <1>2, <2>1, <2>2, CodesSent DEF CodeHolders
  <2>5. TokensOnce'
    BY <1>1, <1>2, <1>7, <2>1, <2>2, TokensKept DEF TokenHolders
  <2>6. ConsentFollows'
    BY <1>1, <1>2, <1>6, <2>2, ConsentKept DEF FlowSteps
  <2> QED BY <1>8, <2>1, <2>3, <2>4, <2>5, <2>6
          DEF TraktInv, TokensOnce, Trakt!GrantsUsedOnce, TokenSent, Trakt!TokenOf
<1> QED BY <1>4, <1>9, <1>10 DEF Trakt!Exchange, Trakt!Become

\* A refresh token is sent, and what comes of it is of the same consent.
LEMMA RefreshStep ==
    ASSUME TraktInv, NEW s \in Bridges, Trakt!Refresh(s)
    PROVE  TraktInv'
<1> DEFINE token == jobs[s].token
<1>1. TraktTypeOK /\ CodesOnce /\ TokensOnce /\ ConsentFollows /\ grants.twice = {}
  BY DEF TraktInv, Trakt!GrantsUsedOnce
<1>2. jobs[s].pc = "refresh" /\ UNCHANGED <<row, states, launched, disconnects>>
  BY DEF Trakt!Refresh, Trakt!At
<1>3. token \in TokenType /\ token.id \in Nat /\ token.since \in Nat
  BY <1>1, TraktTypes
<1>4. Trakt!TokenOf(token) \notin grants.sent
  BY <1>1, <1>2 DEF TokensOnce, TokenHolders, TokenSent, Trakt!TokenOf
<1>5. /\ grants \in [tokens : Nat, sent : SUBSET GrantType, twice : SUBSET GrantType]
      /\ Trakt!TokenOf(token) \in GrantType
  BY <1>1, <1>3 DEF TraktTypeOK, GrantType, Trakt!TokenOf
<1>6. row.rev = 0 => row.state # "ready"
  BY <1>1 DEF ConsentFollows
<1>7. ASSUME grants'.sent = grants.sent \cup {Trakt!TokenOf(token)}
      PROVE  /\ \A n \in Nat : CodeSent(n)' <=> CodeSent(n)
             /\ \A n \in Nat : TokenSent(n)' <=> TokenSent(n) \/ n = token.id
  BY <1>7 DEF CodeSent, TokenSent, Trakt!TokenOf
<1>8. Trakt!ConsentStands'
  BY <1>2 DEF TraktInv, Trakt!ConsentStands
<1>9. ASSUME grants' = [grants EXCEPT !.tokens = @ + 1, !.sent = @ \cup {Trakt!TokenOf(token)}],
             jobs' = [jobs EXCEPT ![s] = [jobs[s] EXCEPT !.pc = "persist",
                                              !.token = Trakt!Minted(token.since)]]
      PROVE  TraktInv'
  <2> DEFINE work == [jobs[s] EXCEPT !.pc = "persist", !.token = Trakt!Minted(token.since)]
  <2>1. /\ grants' \in [tokens : Nat, sent : SUBSET GrantType, twice : SUBSET GrantType]
        /\ grants'.tokens = grants.tokens + 1 /\ grants'.twice = {}
        /\ grants'.sent = grants.sent \cup {Trakt!TokenOf(token)}
    BY <1>1, <1>5, <1>9, MintedGrants
  <2>2. /\ work \in JobType /\ work.pc = "persist" /\ work.rev = jobs[s].rev
        /\ work.token.id = grants.tokens + 1 /\ work.token.since = token.since
    <3>1. jobs[s] \in JobType
      BY <1>1, TraktTypes
    <3>2. Trakt!Minted(token.since) \in TokenType
      BY <1>3, <1>5 DEF TokenType, Trakt!Minted
    <3> QED BY <3>1, <3>2 DEF JobType, TokenHolders, Trakt!Minted
  <2>3. jobs' = [jobs EXCEPT ![s] = work]
    BY <1>9
  <2> HIDE DEF work
  <2>4. TraktTypeOK'
    BY <1>1, <1>2, <2>1, <2>2, <2>3, OneJob DEF TraktTypeOK
  <2>5. CodesOnce'
    BY <1>1, <1>2, <1>7, <2>1, <2>2, <2>3, CodesKept DEF CodeHolders
  <2>6. TokensOnce'
    BY <1>1, <1>2, <1>7, <2>1, <2>2, <2>3, TokensMinted
  <2>7. ConsentFollows'
    BY <1>1, <1>2, <2>2, <1>6, <2>3, ConsentKept DEF ConsentFollows, FlowSteps
  <2> QED BY <1>8, <2>1, <2>4, <2>5, <2>6, <2>7
          DEF TraktInv, TokensOnce, Trakt!GrantsUsedOnce, TokenSent, Trakt!TokenOf
<1>10. ASSUME Trakt!Send(Trakt!TokenOf(token)), Trakt!GoTo(s, "fail")
       PROVE  TraktInv'
  <2>1. /\ grants' \in [tokens : Nat, sent : SUBSET GrantType, twice : SUBSET GrantType]
        /\ grants'.tokens = grants.tokens /\ grants'.twice = {}
        /\ grants'.sent = grants.sent \cup {Trakt!TokenOf(token)}
    BY <1>1, <1>4, <1>5, <1>10 DEF Trakt!Send
  <2>2. PICK work \in JobType : jobs' = [jobs EXCEPT ![s] = work] /\ work.pc = "fail"
    BY <1>1, <1>10, GoToJob
  <2>3. TraktTypeOK'
    BY <1>1, <1>2, <2>1, <2>2, OneJob DEF TraktTypeOK
  <2>4. CodesOnce'
    BY <1>1, <1>2, <1>7, <2>1, <2>2, CodesKept DEF CodeHolders
  <2>5. TokensOnce'
    BY <1>1, <1>2, <2>1, <2>2, TokensSpent DEF TokenHolders
  <2>6. ConsentFollows'
    BY <1>1, <1>2, <1>6, <2>2, ConsentKept DEF FlowSteps
  <2> QED BY <1>8, <2>1, <2>3, <2>4, <2>5, <2>6
          DEF TraktInv, TokensOnce, Trakt!GrantsUsedOnce, TokenSent, Trakt!TokenOf
<1> QED BY <1>4, <1>9, <1>10 DEF Trakt!Refresh, Trakt!Become

\* A token is written to the row that its server knows.
LEMMA WritingSteps ==
    ASSUME TraktInv, NEW s \in Bridges, Trakt!WriteCredential(s) \/ Trakt!Persist(s)
    PROVE  TraktInv'
<1>1. TraktTypeOK /\ CodesOnce /\ TokensOnce /\ ConsentFollows /\ grants.twice = {}
  BY DEF TraktInv, Trakt!GrantsUsedOnce
<1>2. /\ UNCHANGED <<states, grants, launched, disconnects>>
      /\ jobs[s].pc \in {"write", "persist"}
  BY DEF Trakt!WriteCredential, Trakt!Persist, Trakt!At
<1>3. CASE UNCHANGED row /\ Trakt!End(s)
  BY <1>2, <1>3, EndAlone
<1>4. CASE UNCHANGED row /\ Trakt!GoTo(s, "fail")
  BY <1>1, <1>4, GoToJob, <1>2, JobAlone DEF CodeHolders, FlowSteps, TokenHolders
<1>5. CASE row' = Trakt!Connected(jobs[s].token) /\ Trakt!End(s)
           /\ jobs[s].token.since = disconnects
  <2>1. PICK work \in JobType : jobs' = [jobs EXCEPT ![s] = work] /\ work.pc = "idle"
    BY <1>1, <1>5, EndJob
  <2>2. /\ row' \in RowType /\ row'.rev = row.rev + 1 /\ row'.token = jobs[s].token
        /\ row.rev \in Nat
    BY <1>1, <1>5, ConnectedRow, TraktTypes
  <2>3. TraktTypeOK'
    BY <1>1, <1>2, <2>1, <2>2, OneJob DEF TraktTypeOK
  <2>4. CodesOnce'
    BY <1>2, <1>1, <2>1, CodesKept DEF CodeSent, CodeHolders
  <2>5. TokensOnce'
    BY <1>1, <1>2, <2>1, <2>2, TokensWritten DEF TokenHolders
  <2>6. ConsentFollows'
    <3>1. row'.rev # 0
      BY <2>2
    <3> QED BY <1>1, <1>2, <2>1, <2>2, <3>1, ConsentKept DEF FlowSteps
  <2>7. Trakt!ConsentStands' /\ grants'.twice = {}
    BY <1>1, <1>2, <1>5, <2>2 DEF Trakt!ConsentStands
  <2> QED BY <2>3, <2>4, <2>5, <2>6, <2>7
          DEF TraktInv, TokensOnce, Trakt!GrantsUsedOnce, TokenSent, Trakt!TokenOf
<1>6. CASE Trakt!WriteCredential(s)
  <2>1. jobs[s].pc = "write"
    BY <1>6 DEF Trakt!WriteCredential, Trakt!At
  <2>2. row.rev = jobs[s].flow.rev => jobs[s].token.since = disconnects
    BY <1>1, <2>1 DEF ConsentFollows, FlowSteps, KnowsLast
  <2> QED BY <1>3, <1>5, <1>6, <2>2 DEF Trakt!WriteCredential, Trakt!Current, Trakt!Put
<1>7. CASE Trakt!Persist(s)
  BY <1>7, <1>1, <1>3, <1>4, <1>5
     DEF Trakt!Persist, Trakt!At, ConsentFollows, Trakt!Current, Trakt!Put
<1> QED BY <1>6, <1>7

LEMMA RefreshJob ==
    ASSUME NEW token \in TokenType, NEW rev \in Nat
    PROVE  LET work == [Trakt!Idle EXCEPT !.pc = "refresh", !.token = token, !.rev = rev] IN
           work \in JobType /\ work.pc = "refresh" /\ work.token = token /\ work.rev = rev
BY DEF Trakt!NoFlow, FlowType, JobType, TokenHolders, Trakt!Idle

\* The token goes from the row to the server that will send it.
LEMMA ClaimStep ==
    ASSUME TraktInv, NEW s \in Bridges, Trakt!ClaimRefresh(s)
    PROVE  TraktInv'
<1>1. TraktTypeOK /\ CodesOnce /\ TokensOnce /\ ConsentFollows /\ grants.twice = {}
  BY DEF TraktInv, Trakt!GrantsUsedOnce
<1>2. /\ row.state = "ready" /\ UNCHANGED <<states, grants, launched, disconnects>>
      /\ row.token.since = disconnects
  BY DEF Trakt!ClaimRefresh, TraktInv, Trakt!ConsentStands
<1>3. /\ row' \in RowType /\ row'.rev = row.rev + 1 /\ row'.state = "refreshing"
      /\ row.rev \in Nat
  BY <1>1, TraktTypes, TokenFreeRow DEF Trakt!ClaimRefresh, Trakt!Put
<1>4. \A n \in Nat : CodeSent(n)' <=> CodeSent(n)
  BY <1>2 DEF CodeSent
<1>5. Trakt!ConsentStands' /\ Trakt!GrantsUsedOnce'
  BY <1>1, <1>2, <1>3 DEF Trakt!ConsentStands, Trakt!GrantsUsedOnce
<1>6. CASE UNCHANGED jobs
  <2>1. TraktTypeOK'
    BY <1>1, <1>2, <1>3, <1>6 DEF TraktTypeOK
  <2>2. jobs[s] \in JobType /\ jobs' = [jobs EXCEPT ![s] = jobs[s]] /\ jobs[s].pc = "idle"
    BY <1>1, <1>6, TraktTypes DEF TraktTypeOK, Trakt!ClaimRefresh, Trakt!At
  <2>3. CodesOnce'
    BY <1>1, <1>2, <1>4, <2>2, CodesKept
  <2>4. TokensOnce'
    BY <1>2, <1>1, <1>3, <2>2, TokensKept DEF TokenSent, TokenHolders
  <2>5. ConsentFollows'
    BY <1>1, <1>2, <1>3, <2>2, ConsentKept DEF FlowSteps
  <2> QED BY <1>5, <2>1, <2>3, <2>4, <2>5 DEF TraktInv
<1>7. CASE ~UNCHANGED jobs
  <2> DEFINE work == [Trakt!Idle EXCEPT !.pc = "refresh", !.token = row.token, !.rev = row.rev + 1]
  <2>1. /\ work \in JobType /\ work.pc = "refresh" /\ work.token = row.token
        /\ work.rev = row.rev + 1
    <3>1. Trakt!NoFlow \in FlowType /\ row.token \in TokenType /\ row.rev + 1 \in Nat
      BY <1>1, <1>3, TraktTypes DEF Trakt!NoFlow, FlowType
    <3> QED BY <3>1, RefreshJob
  <2>2. jobs' = [jobs EXCEPT ![s] = work]
    BY <1>7 DEF Trakt!ClaimRefresh, Trakt!Become
  <2> HIDE DEF work
  <2>3. TraktTypeOK'
    BY <1>1, <1>2, <1>3, <2>1, <2>2, OneJob DEF TraktTypeOK
  <2>4. CodesOnce'
    BY <1>1, <1>2, <1>4, <2>1, <2>2, CodesKept DEF CodeHolders
  <2>5. TokensOnce'
    BY <1>1, <1>2, <1>3, <2>1, <2>2, TokensTaken
  <2>6. ConsentFollows'
    <3>1. work.rev <= row'.rev
      BY <1>3, <2>1
    <3> QED BY <1>1, <1>2, <1>3, <2>1, <2>2, <3>1, ConsentKept DEF FlowSteps
  <2> QED BY <1>5, <2>3, <2>4, <2>5, <2>6 DEF TraktInv
<1> QED BY <1>6, <1>7
-----------------------------------------------------------------------------
\* The profile's own tokens are of before any disconnection.
LEMMA SeedStep ==
    ASSUME TraktInv, Trakt!SeedCredential
    PROVE  TraktInv'
<1>1. TraktTypeOK /\ CodesOnce /\ TokensOnce /\ ConsentFollows /\ grants.twice = {}
  BY DEF TraktInv, Trakt!GrantsUsedOnce
<1>2. /\ row.rev = 0 /\ grants.tokens = 0 /\ grants' = [grants EXCEPT !.tokens = 1]
      /\ UNCHANGED <<states, jobs, launched, disconnects>>
  BY DEF Trakt!SeedCredential, Trakt!Current
<1>3. /\ grants' \in [tokens : Nat, sent : SUBSET GrantType, twice : SUBSET GrantType]
      /\ grants'.tokens = 1 /\ grants'.sent = grants.sent /\ grants'.twice = {}
  BY <1>1, <1>2 DEF TraktTypeOK
<1>4. /\ row' \in RowType /\ row'.rev = 1 /\ row'.state = "ready"
      /\ row'.token = [id |-> 1, since |-> 0]
  <2>1. PICK fresh \in BOOLEAN :
           row' = [Trakt!Connected(Trakt!Minted(0)) EXCEPT !.fresh = fresh, !.gen = 1]
    BY DEF Trakt!SeedCredential, Trakt!Put
  <2>2. Trakt!Minted(0) = [id |-> 1, since |-> 0] /\ Trakt!Minted(0) \in TokenType
    BY <1>2 DEF Trakt!Minted, TokenType
  <2>3. Trakt!Connected(Trakt!Minted(0)).rev = 1
    BY <1>1, <1>2, <2>2, ConnectedRow
  <2>4. \A seed \in RowType :
           LET new == [seed EXCEPT !.fresh = fresh, !.gen = 1] IN
           /\ new \in RowType /\ new.rev = seed.rev /\ new.state = seed.state
           /\ new.token = seed.token
    BY DEF RowType
  <2>5. /\ Trakt!Connected(Trakt!Minted(0)) \in RowType
        /\ Trakt!Connected(Trakt!Minted(0)).state = "ready"
        /\ Trakt!Connected(Trakt!Minted(0)).token = [id |-> 1, since |-> 0]
    BY <1>1, <2>2, ConnectedRow
  <2> QED BY <2>1, <2>3, <2>4, <2>5
<1>5. TraktTypeOK'
  BY <1>1, <1>2, <1>3, <1>4 DEF TraktTypeOK
<1>6. /\ \A n : CodeSent(n)' <=> CodeSent(n)
      /\ \A n : TokenSent(n)' <=> TokenSent(n)
  BY <1>3 DEF CodeSent, TokenSent
<1>7. CodesOnce'
  BY <1>1, <1>2, <1>6 DEF CodesOnce
<1>8. TokensOnce'
  BY <1>1, <1>2, TraktTypes, <1>4, <1>3, <1>6 DEF TokensOnce
<1>9. ConsentFollows'
  BY <1>2, <1>4, TraktTypes, <1>1 DEF KnowsLast, TokensOnce, TokenHolders, ConsentFollows
<1>10. Trakt!ConsentStands'
  BY <1>1, <1>2, <1>4 DEF Trakt!ConsentStands, ConsentFollows
<1> QED BY <1>3, <1>5, <1>7, <1>8, <1>9, <1>10
        DEF TraktInv, TokensOnce, Trakt!GrantsUsedOnce, TokenSent, Trakt!TokenOf

\* A disconnection takes a revision: who asked before it does not know the row.
LEMMA DisconnectStep ==
    ASSUME TraktInv, Trakt!Disconnect
    PROVE  TraktInv'
<1>1. TraktTypeOK /\ CodesOnce /\ TokensOnce /\ ConsentFollows /\ grants.twice = {}
  BY DEF TraktInv, Trakt!GrantsUsedOnce
<1>2. disconnects' = disconnects + 1 /\ UNCHANGED <<states, jobs, grants, launched>>
  BY DEF Trakt!Disconnect
<1>3. /\ row' \in RowType /\ row'.rev = row.rev + 1 /\ row'.state = "disconnected"
      /\ row.rev \in Nat
  <2>1. row' = [Trakt!TokenFree("disconnected") EXCEPT !.gen = row.gen + 1]
    BY DEF Trakt!Disconnect, Trakt!Put, Trakt!TokenFree
  <2>2. row.rev \in Nat /\ row.gen + 1 \in Nat
    BY <1>1, TraktTypes
  <2> QED BY <1>1, <2>1, <2>2, TokenFreeRow
<1>4. TraktTypeOK'
  BY <1>1, <1>2, <1>3 DEF TraktTypeOK
<1>5. /\ \A n : CodeSent(n)' <=> CodeSent(n)
      /\ \A n : TokenSent(n)' <=> TokenSent(n)
  BY <1>2 DEF CodeSent, TokenSent
<1>6. CodesOnce' /\ TokensOnce'
  BY <1>1, <1>2, <1>3, <1>5 DEF CodesOnce, TokensOnce
<1>7. ConsentFollows'
  BY <1>1, <1>3, TraktTypes, <1>2 DEF KnowsLast, ConsentFollows
<1>8. Trakt!ConsentStands' /\ Trakt!GrantsUsedOnce'
  BY <1>1, <1>2, <1>3 DEF Trakt!ConsentStands, Trakt!GrantsUsedOnce
<1> QED BY <1>4, <1>6, <1>7, <1>8 DEF TraktInv

LEMMA PassingSteps ==
    ASSUME TraktInv,
           \/ Trakt!BecomeStale \/ Trakt!EndProfile
           \/ \E st \in states : Trakt!ExpireState(st)
           \/ UNCHANGED TraktVars
    PROVE  TraktInv'
<1>1. /\ UNCHANGED <<jobs, grants, launched, disconnects>> /\ states' \subseteq states
      /\ row' \in RowType /\ row'.rev = row.rev /\ row'.state = row.state
      /\ row'.token = row.token
  BY DEF Trakt!BecomeStale, Trakt!EndProfile, Trakt!ExpireState, TraktVars, TraktInv,
         TraktTypeOK, RowType
<1>2. TraktTypeOK'
  BY <1>1 DEF TraktInv, TraktTypeOK
<1>3. CodesOnce' /\ TokensOnce'
  BY <1>1 DEF TraktInv, CodesOnce, TokensOnce, CodeSent, TokenSent
<1>4. ConsentFollows' /\ Trakt!ConsentStands' /\ Trakt!GrantsUsedOnce'
  BY <1>1 DEF TraktInv, ConsentFollows, KnowsLast, Trakt!ConsentStands, Trakt!GrantsUsedOnce,
              Trakt!TokenOf
<1> QED BY <1>2, <1>3, <1>4 DEF TraktInv

LEMMA TraktNext == TraktInv /\ Trakt!Next => TraktInv'
<1> SUFFICES ASSUME TraktInv, Trakt!Next PROVE TraktInv'
  OBVIOUS
<1>1. ASSUME NEW s \in Bridges, Trakt!Connect(s) \/ Trakt!Use(s) \/ Trakt!Stop(s)
      PROVE  TraktInv'
  BY <1>1, LaunchStep, StateSteps, LookingSteps, GivingUpSteps, ExchangeStep, RefreshStep,
     WritingSteps, ClaimStep
  DEF Trakt!Connect, Trakt!Use
<1> QED BY <1>1, SeedStep, DisconnectStep, PassingSteps DEF Trakt!Next

-----------------------------------------------------------------------------
(***************************************************************************)
(* The requests that provision a profile.                                  *)
(*                                                                         *)
(* What a request has seen of a profile is the profile as long as the      *)
(* revision is the one it has seen; and a profile that was pending when it *)
(* was seen and is final one revision later has been finished by a request *)
(* with the same token.  A final profile keeps its token.                  *)
(***************************************************************************)
EarlyOfRequest == {"bindIdentity", "checkIdentity", "settle", "bindConfig", "checkConfig"}
Held == EarlyOfRequest \cup
        {"rotate", "finalize", "verify", "synchronize", "compensate", "revoke", "verifyRevoked"}

ProfileType ==
    [status : {"none", "active", "revoked"}, rev : Nat, token : Nat, kind : {"pending", "final"},
     config : Configs \cup {""}, content : Contents \cup {""}]
AttemptType ==
    [pc : Held \cup {"aliases", "winner"}, config : Configs, content : Contents,
     read : SUBSET Provision!Keys, owners : [Provision!Keys -> Provision!Ids \cup {0}],
     id : Provision!Ids \cup {0}, seen : ProfileType, token : Nat, created : BOOLEAN,
     tries : Nat, then : {"", "adopt", "fail"}]

ProvisionTypeOK ==
    /\ people \in [Provision!Ids -> ProfileType]
    /\ aliases \in [Provision!Keys -> Provision!Ids \cup {0}]
    /\ attempts \in [Bridges -> {Provision!Idle} \cup AttemptType]

PeopleStand ==
    \A id \in Provision!Ids : people[id].status = "none" => people[id].kind = "pending"

\* seen is what a request has read of the profile.
Sees(id, seen) ==
    /\ id \in Provision!Ids /\ people[id].status # "none"
    /\ seen.rev <= people[id].rev
    /\ seen.rev = people[id].rev => seen = people[id]
    /\ people[id].rev = seen.rev + 1 /\ seen.kind = "pending" /\ people[id].kind = "final" =>
          people[id].token = seen.token

AttemptStands(s) ==
    /\ attempts[s].pc \in Held => Sees(attempts[s].id, attempts[s].seen)
    /\ attempts[s].pc \in {"aliases", "winner"} => ~attempts[s].created
    /\ attempts[s].pc \in EarlyOfRequest /\ attempts[s].created =>
          /\ attempts[s].seen.kind = "pending" /\ attempts[s].seen.token = attempts[s].token
          /\ attempts[s].seen.config = attempts[s].config
    /\ attempts[s].pc = "rotate" => attempts[s].seen.kind = "pending"
    /\ attempts[s].pc \in {"finalize", "verify"} =>
          attempts[s].seen.kind = "pending" /\ attempts[s].seen.token = attempts[s].token

ToldOpens ==
    \A t \in told : /\ t.id \in Provision!Ids
                    /\ people[t.id].kind = "final" /\ people[t.id].token = t.token

GivenUp == \A id \in gaveUp : id \in Provision!Ids /\ people[id].status = "revoked"

ProvisionInv ==
    /\ ProvisionTypeOK
    /\ PeopleStand
    /\ \A s \in Bridges : AttemptStands(s)
    /\ ToldOpens
    /\ GivenUp

LEMMA ProvisionInit == Provision!Init => ProvisionInv
<1> SUFFICES ASSUME Provision!Init PROVE ProvisionInv
  OBVIOUS
<1>1. Provision!NoProfile \in ProfileType
  BY DEF Provision!NoProfile, ProfileType
<1>2. ProvisionTypeOK
  BY <1>1 DEF Provision!Init, ProvisionTypeOK
<1>3. PeopleStand /\ ToldOpens /\ GivenUp
  BY DEF Provision!Init, PeopleStand, ToldOpens, GivenUp, Provision!NoProfile
<1>4. \A s \in Bridges : AttemptStands(s)
  BY DEF Provision!Init, AttemptStands, Provision!Idle, Held, EarlyOfRequest
<1> QED BY <1>2, <1>3, <1>4 DEF ProvisionInv

-----------------------------------------------------------------------------
(* How a profile goes on *)

Advance(p, q) ==
    \/ q = p
    \/ p.status = "none" /\ q.status # "none"
    \/ /\ p.status # "none" /\ q.status # "none" /\ q.rev = p.rev + 1
       /\ p.status = "revoked" => q.status = "revoked"
       /\ p.kind = "final" => q.kind = "final"
       /\ q.kind = "final" => q.token = p.token

PeopleAdvance ==
    /\ people' \in [Provision!Ids -> ProfileType]
    /\ \A id \in Provision!Ids : Advance(people[id], people'[id])

LEMMA SeesStays ==
    ASSUME ProvisionInv, PeopleAdvance, NEW id, NEW seen \in ProfileType, Sees(id, seen)
    PROVE  Sees(id, seen)'
<1>1. id \in Provision!Ids
  BY DEF Sees
<1>2. PICK p \in ProfileType : p = people[id]
  BY <1>1 DEF ProvisionInv, ProvisionTypeOK
<1>3. PICK q \in ProfileType : q = people'[id]
  BY <1>1 DEF PeopleAdvance
<1>4. p.rev \in Nat /\ q.rev \in Nat /\ seen.rev \in Nat
  BY DEF ProfileType
<1>5. Advance(p, q) /\ p.status # "none"
  BY <1>1, <1>2, <1>3 DEF PeopleAdvance, Sees
<1>6. CASE q = p
  BY <1>2, <1>3, <1>6 DEF Sees
<1>7. CASE q # p
  BY <1>5, <1>7, <1>2, <1>4, <1>1, <1>3 DEF Advance, Sees
<1> QED BY <1>6, <1>7

LEMMA AttemptStays ==
    ASSUME ProvisionInv, PeopleAdvance, NEW s \in Bridges, attempts'[s] = attempts[s]
    PROVE  AttemptStands(s)'
<1>1. CASE attempts[s].pc \in Held
  <2>1. attempts[s] \in AttemptType
    BY <1>1 DEF ProvisionInv, ProvisionTypeOK, Provision!Idle, Held, EarlyOfRequest
  <2>2. PICK id : id = attempts[s].id
    OBVIOUS
  <2>3. PICK seen \in ProfileType : seen = attempts[s].seen
    BY <2>1 DEF AttemptType
  <2>4. Sees(id, seen)
    BY <1>1, <2>2, <2>3 DEF ProvisionInv, AttemptStands
  <2>5. Sees(id, seen)'
    BY <2>4, SeesStays
  <2>6. Sees(attempts[s].id, attempts[s].seen)'
    BY <2>2, <2>3, <2>5 DEF Sees
  <2> QED BY <2>6 DEF ProvisionInv, AttemptStands
<1>2. CASE attempts[s].pc \notin Held
  BY <1>2 DEF ProvisionInv, AttemptStands
<1> QED BY <1>1, <1>2

LEMMA ToldStays ==
    ASSUME ProvisionInv, PeopleAdvance
    PROVE  /\ UNCHANGED told => ToldOpens'
           /\ UNCHANGED gaveUp => GivenUp'
BY DEF ProvisionInv, PeopleStand, PeopleAdvance, Advance, ToldOpens, GivenUp

LEMMA PeopleRest ==
    ASSUME ProvisionInv, UNCHANGED people PROVE PeopleAdvance
  BY DEF ProvisionInv, ProvisionTypeOK, PeopleAdvance, Advance

LEMMA OneAdvances ==
    ASSUME ProvisionInv, NEW id \in Provision!Ids, NEW q \in ProfileType,
           people' = [people EXCEPT ![id] = q], Advance(people[id], q)
    PROVE  PeopleAdvance /\ people'[id] = q
  BY DEF ProvisionInv, ProvisionTypeOK, PeopleAdvance, Advance

LEMMA RevUp ==
    ASSUME NEW q \in ProfileType
    PROVE  /\ [q EXCEPT !.rev = @ + 1] \in ProfileType
           /\ [q EXCEPT !.rev = @ + 1].rev = q.rev + 1
           /\ [q EXCEPT !.rev = @ + 1].status = q.status
           /\ [q EXCEPT !.rev = @ + 1].kind = q.kind
           /\ [q EXCEPT !.rev = @ + 1].token = q.token
<1> DEFINE n == q.rev + 1
<1>0. q.rev \in Nat
  BY DEF ProfileType
<1>1. n \in Nat
  BY <1>0
<1>2. [q EXCEPT !.rev = @ + 1] = [q EXCEPT !.rev = n]
  OBVIOUS
<1> HIDE DEF n
<1>3. /\ [q EXCEPT !.rev = n] \in ProfileType /\ [q EXCEPT !.rev = n].rev = n
      /\ [q EXCEPT !.rev = n].status = q.status /\ [q EXCEPT !.rev = n].kind = q.kind
      /\ [q EXCEPT !.rev = n].token = q.token
  BY <1>1 DEF ProfileType
<1> QED BY <1>2, <1>3 DEF n

-----------------------------------------------------------------------------
(* How a request goes on *)

LEMMA Becomes ==
    ASSUME ProvisionInv, NEW s \in Bridges, NEW a \in {Provision!Idle} \cup AttemptType,
           Provision!Become(s, a)
    PROVE  /\ attempts' \in [Bridges -> {Provision!Idle} \cup AttemptType]
           /\ attempts'[s] = a /\ \A t \in Bridges : t # s => attempts'[t] = attempts[t]
  BY DEF ProvisionInv, ProvisionTypeOK, Provision!Become

LEMMA RequestMoves ==
    ASSUME ProvisionInv, PeopleAdvance, NEW s \in Bridges,
           attempts' \in [Bridges -> {Provision!Idle} \cup AttemptType],
           \A t \in Bridges : t # s => attempts'[t] = attempts[t],
           AttemptStands(s)', ToldOpens', GivenUp',
           aliases' \in [Provision!Keys -> Provision!Ids \cup {0}]
    PROVE  ProvisionInv'
BY AttemptStays DEF ProvisionInv, ProvisionTypeOK, PeopleStand, PeopleAdvance, Advance

LEMMA Ends ==
    ASSUME ProvisionInv, NEW s \in Bridges, Provision!End(s)
    PROVE  /\ attempts' \in [Bridges -> {Provision!Idle} \cup AttemptType]
           /\ AttemptStands(s)' /\ \A t \in Bridges : t # s => attempts'[t] = attempts[t]
BY DEF ProvisionInv, ProvisionTypeOK, Provision!End, AttemptStands, Provision!Idle, Held,
       EarlyOfRequest

\* A request ends, and answers nothing.
LEMMA EndMoves ==
    ASSUME ProvisionInv, PeopleAdvance, NEW s \in Bridges, Provision!End(s),
           UNCHANGED <<told, gaveUp>>,
           aliases' \in [Provision!Keys -> Provision!Ids \cup {0}]
    PROVE  ProvisionInv'
  BY Ends, RequestMoves, ToldStays

LEMMA HeldType ==
    ASSUME ProvisionInv, NEW s \in Bridges, attempts[s].pc # "idle"
    PROVE  /\ attempts[s] \in AttemptType /\ AttemptStands(s)
           /\ attempts[s].pc \in Held =>
                 /\ attempts[s].id \in Provision!Ids /\ people[attempts[s].id] \in ProfileType
                 /\ people[attempts[s].id].status # "none"
                 /\ Sees(attempts[s].id, attempts[s].seen)
           /\ people \in [Provision!Ids -> ProfileType]
           /\ aliases \in [Provision!Keys -> Provision!Ids \cup {0}]
  BY DEF ProvisionInv, ProvisionTypeOK, Provision!Idle, AttemptStands, Sees

\* A request goes on with the profile as it has seen it.
LEMMA HeldMoves ==
    ASSUME ProvisionInv, PeopleAdvance, NEW s \in Bridges, attempts[s].pc \in Held,
           NEW a \in AttemptType, Provision!Become(s, a), a.pc \in Held,
           a.id = attempts[s].id, a.seen = attempts[s].seen, a.token = attempts[s].token,
           a.created = attempts[s].created, a.config = attempts[s].config,
           a.pc \in EarlyOfRequest => attempts[s].pc \in EarlyOfRequest,
           a.pc = "rotate" => a.seen.kind = "pending",
           a.pc \in {"finalize", "verify"} => a.seen.kind = "pending" /\ a.seen.token = a.token,
           UNCHANGED <<told, gaveUp>>,
           aliases' \in [Provision!Keys -> Provision!Ids \cup {0}]
    PROVE  ProvisionInv'
<1>1. attempts[s].pc # "idle"
  BY DEF Held, EarlyOfRequest
<1>2. Sees(a.id, a.seen)
  BY <1>1, HeldType
<1>3. Sees(a.id, a.seen)'
  BY <1>2, SeesStays DEF AttemptType
<1>4. /\ attempts' \in [Bridges -> {Provision!Idle} \cup AttemptType]
      /\ attempts'[s] = a /\ \A t \in Bridges : t # s => attempts'[t] = attempts[t]
  BY Becomes
<1>5. Sees(attempts[s].id, attempts[s].seen)'
  BY <1>3, <1>4 DEF Sees
<1>6. AttemptStands(s)'
  BY <1>4, <1>5 DEF ProvisionInv, Held, EarlyOfRequest, AttemptStands
<1> QED BY <1>4, <1>6, RequestMoves, ToldStays

\* The same, for a step that only changes where the request is.
LEMMA GoesTo ==
    ASSUME ProvisionInv, PeopleAdvance, NEW s \in Bridges, attempts[s].pc \in Held,
           NEW pc \in Held, Provision!GoTo(s, pc),
           pc \in EarlyOfRequest => attempts[s].pc \in EarlyOfRequest,
           pc = "rotate" => attempts[s].seen.kind = "pending",
           pc \in {"finalize", "verify"} =>
               attempts[s].seen.kind = "pending" /\ attempts[s].seen.token = attempts[s].token,
           UNCHANGED <<told, gaveUp>>,
           aliases' \in [Provision!Keys -> Provision!Ids \cup {0}]
    PROVE  ProvisionInv'
<1>1. attempts[s] \in AttemptType
  BY HeldType DEF Held, EarlyOfRequest
<1> DEFINE a == [attempts[s] EXCEPT !.pc = pc]
<1>2. /\ a \in AttemptType /\ a.pc = pc /\ a.id = attempts[s].id /\ a.seen = attempts[s].seen
      /\ a.token = attempts[s].token /\ a.created = attempts[s].created
      /\ a.config = attempts[s].config
  BY <1>1 DEF AttemptType
<1>3. Provision!Become(s, a)
  BY DEF Provision!GoTo
<1> HIDE DEF a
<1> QED BY <1>2, <1>3, HeldMoves

\* A request goes on with the profile as it is now.
LEMMA LooksMoves ==
    ASSUME ProvisionInv, PeopleAdvance, NEW s \in Bridges,
           NEW a \in AttemptType, Provision!Become(s, a), a.pc \in Held,
           a.id \in Provision!Ids, a.seen = people'[a.id], people'[a.id].status # "none",
           a.pc \in EarlyOfRequest /\ a.created =>
               a.seen.kind = "pending" /\ a.seen.token = a.token /\ a.seen.config = a.config,
           a.pc = "rotate" => a.seen.kind = "pending",
           a.pc \in {"finalize", "verify"} => a.seen.kind = "pending" /\ a.seen.token = a.token,
           UNCHANGED <<told, gaveUp>>,
           aliases' \in [Provision!Keys -> Provision!Ids \cup {0}]
    PROVE  ProvisionInv'
<1>1. /\ attempts' \in [Bridges -> {Provision!Idle} \cup AttemptType]
      /\ attempts'[s] = a /\ \A t \in Bridges : t # s => attempts'[t] = attempts[t]
  BY Becomes
<1>2. Sees(attempts[s].id, attempts[s].seen)'
  <2>1. people'[a.id].rev \in Nat
    BY DEF PeopleAdvance, ProfileType
  <2> QED BY <1>1, <2>1 DEF Sees
<1>3. AttemptStands(s)'
  BY <1>1, <1>2 DEF Held, EarlyOfRequest, AttemptStands
<1> QED BY <1>1, <1>3, RequestMoves, ToldStays

\* A request has no profile yet, or none any more.
LEMMA OpenMoves ==
    ASSUME ProvisionInv, PeopleAdvance, NEW s \in Bridges,
           NEW a \in AttemptType, Provision!Become(s, a), a.pc \in {"aliases", "winner"},
           ~a.created, ToldOpens', GivenUp',
           aliases' \in [Provision!Keys -> Provision!Ids \cup {0}]
    PROVE  ProvisionInv'
BY Becomes, RequestMoves DEF AttemptStands, Held, EarlyOfRequest

-----------------------------------------------------------------------------
(* The steps *)

LEMMA OwnerType ==
    ASSUME ProvisionInv, NEW k \in Provision!Keys
    PROVE  /\ Provision!Owner(k) \in Provision!Ids \cup {0}
           /\ Provision!Owner(k) # 0 => Provision!Active(Provision!Owner(k))
  BY DEF ProvisionInv, ProvisionTypeOK, Provision!Owner

LEMMA StartStep ==
    ASSUME ProvisionInv, NEW s \in Bridges, NEW c \in Configs, NEW v \in Contents,
           Provision!Start(s, c, v)
    PROVE  ProvisionInv'
<1> DEFINE a == [pc |-> "aliases", config |-> c, content |-> v, read |-> {},
                 owners |-> [k \in Provision!Keys |-> 0], id |-> 0, seen |-> Provision!NoProfile,
                 token |-> 0, created |-> FALSE, tries |-> 0, then |-> ""]
<1>1. Provision!Become(s, a) /\ UNCHANGED <<people, aliases, told, gaveUp>>
  BY DEF Provision!Start
<1>2. Provision!NoProfile \in ProfileType
  BY DEF Provision!NoProfile, ProfileType
<1>3. a \in AttemptType /\ a.pc = "aliases" /\ ~a.created
  BY <1>2 DEF AttemptType
<1> HIDE DEF a
<1>4. PeopleAdvance /\ aliases' \in [Provision!Keys -> Provision!Ids \cup {0}]
  BY <1>1, PeopleRest DEF ProvisionInv, ProvisionTypeOK
<1> QED BY <1>1, <1>3, <1>4, OpenMoves, ToldStays

LEMMA ReadAliasStep ==
    ASSUME ProvisionInv, NEW s \in Bridges, NEW k \in Provision!Keys, Provision!ReadAlias(s, k)
    PROVE  ProvisionInv'
<1>1. /\ UNCHANGED <<people, aliases, told, gaveUp>> /\ attempts[s].pc = "aliases"
  BY DEF Provision!ReadAlias, Provision!Keep, Provision!At
<1>2. PeopleAdvance /\ aliases' \in [Provision!Keys -> Provision!Ids \cup {0}]
  BY <1>1, PeopleRest DEF ProvisionInv, ProvisionTypeOK
<1>3. CASE Provision!End(s)
  BY <1>1, <1>2, <1>3, EndMoves
<1>4. CASE Provision!Become(s, [attempts[s] EXCEPT !.owners[k] = Provision!Owner(k),
                                                  !.read = @ \cup {k}])
  <2> DEFINE a == [attempts[s] EXCEPT !.owners[k] = Provision!Owner(k), !.read = @ \cup {k}]
             o == Provision!Owner(k)
             b == [attempts[s] EXCEPT !.owners = [attempts[s].owners EXCEPT ![k] = o],
                                      !.read = attempts[s].read \cup {k}]
  <2>1. attempts[s] \in AttemptType /\ ~attempts[s].created
    BY <1>1, HeldType DEF AttemptStands
  <2>2. o \in Provision!Ids \cup {0}
    BY OwnerType
  <2>3. a = b
    OBVIOUS
  <2> HIDE DEF o
  <2>4. b \in AttemptType /\ b.pc = "aliases" /\ ~b.created
    BY <1>1, <2>1, <2>2 DEF AttemptType
  <2>5. Provision!Become(s, b)
    BY <1>4, <2>3
  <2> HIDE DEF a, b
  <2> QED BY <1>1, <1>2, <2>4, <2>5, OpenMoves, ToldStays
<1> QED BY <1>3, <1>4 DEF Provision!ReadAlias

\* A profile that is there and active is taken up by a request that has none.
LEMMA ReadStep ==
    ASSUME ProvisionInv, NEW s \in Bridges, attempts[s].pc \in {"aliases", "winner"},
           NEW id \in Provision!Ids, Provision!Read(s, id, "bindIdentity"),
           UNCHANGED <<people, aliases, told, gaveUp>>
    PROVE  ProvisionInv'
<1>1. PeopleAdvance /\ aliases' \in [Provision!Keys -> Provision!Ids \cup {0}]
  BY PeopleRest DEF ProvisionInv, ProvisionTypeOK
<1>2. CASE Provision!End(s)
  BY <1>1, <1>2, EndMoves
<1>3. CASE ~Provision!End(s)
  <2> DEFINE a == [attempts[s] EXCEPT !.pc = "bindIdentity", !.id = id, !.seen = people[id]]
  <2>1. Provision!Become(s, a) /\ Provision!Active(id)
    BY <1>3 DEF Provision!Read
  <2>2. attempts[s] \in AttemptType /\ ~attempts[s].created /\ people[id] \in ProfileType
    BY HeldType DEF AttemptStands
  <2>3. /\ a \in AttemptType /\ a.pc = "bindIdentity" /\ a.id = id /\ a.seen = people[id]
        /\ ~a.created
    BY <2>2 DEF AttemptType, Held, EarlyOfRequest
  <2> HIDE DEF a
  <2>4. people'[id].status # "none" /\ a.seen = people'[a.id] /\ a.pc \in Held
    BY <2>1, <2>3 DEF Provision!Active, Held, EarlyOfRequest
  <2> QED BY <1>1, <2>1, <2>3, <2>4, LooksMoves
<1> QED BY <1>2, <1>3

LEMMA AdoptSteps ==
    ASSUME ProvisionInv, NEW s \in Bridges, Provision!Adopt(s) \/ Provision!AdoptWinner(s)
    PROVE  ProvisionInv'
<1>1. UNCHANGED <<people, aliases, told, gaveUp>> /\ attempts[s].pc \in {"aliases", "winner"}
  BY DEF Provision!Adopt, Provision!AdoptWinner, Provision!Keep, Provision!At
<1>2. PeopleAdvance /\ aliases' \in [Provision!Keys -> Provision!Ids \cup {0}]
  BY <1>1, PeopleRest DEF ProvisionInv, ProvisionTypeOK
<1>3. CASE Provision!End(s)
  BY <1>1, <1>2, <1>3, EndMoves
<1>4. ASSUME Provision!Adopt(s), ~Provision!End(s)
      PROVE  \E id \in Provision!Ids : Provision!Read(s, id, "bindIdentity")
  <2>1. PICK k \in Provision!Both(s) : /\ attempts[s].owners[k] # 0
                                       /\ Provision!Read(s, attempts[s].owners[k], "bindIdentity")
    BY <1>4 DEF Provision!Adopt
  <2>2. attempts[s] \in AttemptType
    BY <1>1, HeldType
  <2>3. k \in Provision!Keys
    BY <2>1, <2>2 DEF Provision!Both, Provision!Keys, AttemptType
  <2>4. attempts[s].owners[k] \in Provision!Ids
    BY <2>1, <2>2, <2>3 DEF AttemptType
  <2> QED BY <2>1, <2>4
<1>5. ASSUME Provision!AdoptWinner(s), ~Provision!End(s)
      PROVE  \E id \in Provision!Ids : Provision!Read(s, id, "bindIdentity")
  BY <1>5, OwnerType DEF Provision!Keys, Provision!AdoptWinner
<1> QED BY <1>1, <1>3, <1>4, <1>5, ReadStep

LEMMA NewProfile ==
    ASSUME NEW c \in Configs, NEW v \in Contents
    PROVE  [status |-> "active", rev |-> 1, token |-> 1, kind |-> "pending", config |-> c,
            content |-> v] \in ProfileType
  BY DEF ProfileType

LEMMA CreateStep ==
    ASSUME ProvisionInv, NEW s \in Bridges, Provision!Create(s)
    PROVE  ProvisionInv'
<1>1. UNCHANGED <<told, gaveUp>> /\ attempts[s].pc = "aliases"
  BY DEF Provision!Create, Provision!Keep, Provision!At
<1>2. /\ attempts[s] \in AttemptType /\ ~attempts[s].created
      /\ aliases \in [Provision!Keys -> Provision!Ids \cup {0}]
      /\ people \in [Provision!Ids -> ProfileType]
  BY <1>1, HeldType DEF AttemptStands
<1>3. CASE UNCHANGED <<people, aliases>> /\ Provision!End(s)
  BY <1>1, <1>2, <1>3, EndMoves, PeopleRest
<1>4. CASE UNCHANGED <<people, aliases>> /\ Provision!GoTo(s, "winner")
  <2> DEFINE a == [attempts[s] EXCEPT !.pc = "winner"]
  <2>1. Provision!Become(s, a)
    BY <1>4 DEF Provision!GoTo
  <2>2. a \in AttemptType /\ a.pc = "winner" /\ ~a.created
    BY <1>2 DEF AttemptType
  <2> HIDE DEF a
  <2> QED BY <1>1, <1>2, <1>4, <2>1, <2>2, OpenMoves, PeopleRest, ToldStays
<1>5. ASSUME NEW id \in Provision!Ids, people[id].status = "none",
             people' = [people EXCEPT ![id] =
                 [status |-> "active", rev |-> 1, token |-> 1, kind |-> "pending",
                  config |-> attempts[s].config, content |-> attempts[s].content]],
             aliases' = [aliases EXCEPT !["identity"] = id],
             \/ Provision!End(s)
             \/ Provision!Become(s, [attempts[s] EXCEPT !.pc = "bindIdentity", !.id = id,
                                        !.seen = people'[id], !.token = 1, !.created = TRUE])
      PROVE  ProvisionInv'
  <2>1. PICK q \in ProfileType :
           /\ q = [status |-> "active", rev |-> 1, token |-> 1, kind |-> "pending",
                   config |-> attempts[s].config, content |-> attempts[s].content]
           /\ q.status = "active" /\ q.kind = "pending" /\ q.token = 1
           /\ q.config = attempts[s].config
    BY <1>2, NewProfile DEF AttemptType
  <2>2. Advance(people[id], q)
    BY <1>5, <2>1 DEF Advance
  <2>3. PeopleAdvance /\ people'[id] = q
    BY <1>5, <2>1, <2>2, OneAdvances
  <2>4. aliases' \in [Provision!Keys -> Provision!Ids \cup {0}]
    BY <1>2, <1>5
  <2>5. CASE Provision!End(s)
    BY <1>1, <2>3, <2>4, <2>5, EndMoves
  <2>6. CASE ~Provision!End(s)
    <3> DEFINE a == [attempts[s] EXCEPT !.pc = "bindIdentity", !.id = id, !.seen = q,
                                        !.token = 1, !.created = TRUE]
    <3>1. Provision!Become(s, a)
      BY <1>5, <2>3, <2>6
    <3>2. /\ a \in AttemptType /\ a.pc = "bindIdentity" /\ a.id = id /\ a.seen = q
          /\ a.token = 1 /\ a.created /\ a.config = attempts[s].config
      BY <1>2 DEF AttemptType, Held, EarlyOfRequest
    <3> HIDE DEF a
    <3>3. a.pc \in Held
      BY <3>2 DEF Held, EarlyOfRequest
    <3> QED BY <1>1, <2>1, <2>3, <2>4, <3>1, <3>2, <3>3, LooksMoves
  <2> QED BY <2>5, <2>6
<1>6. \/ UNCHANGED <<people, aliases>> /\ (Provision!End(s) \/ Provision!GoTo(s, "winner"))
      \/ \E id \in Provision!Ids :
            /\ people[id].status = "none"
            /\ people' = [people EXCEPT ![id] =
                 [status |-> "active", rev |-> 1, token |-> 1, kind |-> "pending",
                  config |-> attempts[s].config, content |-> attempts[s].content]]
            /\ aliases' = [aliases EXCEPT !["identity"] = id]
            /\ \/ Provision!End(s)
               \/ Provision!Become(s, [attempts[s] EXCEPT !.pc = "bindIdentity", !.id = id,
                                        !.seen = people'[id], !.token = 1, !.created = TRUE])
  BY DEF Provision!Create
<1> QED BY <1>3, <1>4, <1>5, <1>6

LEMMA BindSteps ==
    ASSUME ProvisionInv, NEW s \in Bridges, Provision!BindIdentity(s) \/ Provision!BindConfig(s)
    PROVE  ProvisionInv'
BY HeldType, GoesTo, PeopleRest
   DEF Provision!Bind, Provision!At, Provision!Keep, Held, EarlyOfRequest, Provision!BindIdentity,
       Provision!BindConfig

LEMMA CompensateMoves ==
    ASSUME ProvisionInv, NEW s \in Bridges, attempts[s].pc \in EarlyOfRequest,
           NEW then \in {"adopt", "fail"}, Provision!Compensate(s, then),
           UNCHANGED <<people, aliases, told, gaveUp>>
    PROVE  ProvisionInv'
<1>1. attempts[s] \in AttemptType /\ attempts[s].pc \in Held
  BY HeldType DEF Held, EarlyOfRequest
<1> DEFINE a == [attempts[s] EXCEPT !.pc = "compensate", !.tries = 0, !.then = then]
<1>2. /\ a \in AttemptType /\ a.pc = "compensate" /\ a.id = attempts[s].id
      /\ a.seen = attempts[s].seen /\ a.token = attempts[s].token
      /\ a.created = attempts[s].created /\ a.config = attempts[s].config
  BY <1>1 DEF AttemptType, Held
<1>3. Provision!Become(s, a)
  BY DEF Provision!Compensate
<1> HIDE DEF a
<1>4. "compensate" \in Held /\ "compensate" \notin EarlyOfRequest
  BY DEF Held, EarlyOfRequest
<1>5. PeopleAdvance /\ aliases' \in [Provision!Keys -> Provision!Ids \cup {0}]
  BY PeopleRest DEF ProvisionInv, ProvisionTypeOK
<1> QED BY <1>1, <1>2, <1>3, <1>4, <1>5, HeldMoves

LEMMA CheckIdentityStep ==
    ASSUME ProvisionInv, NEW s \in Bridges, Provision!CheckIdentity(s)
    PROVE  ProvisionInv'
<1>1. UNCHANGED <<people, aliases, told, gaveUp>> /\ attempts[s].pc = "checkIdentity"
  BY DEF Provision!CheckIdentity, Provision!At, Provision!Keep
<1>2. /\ "checkIdentity" \in EarlyOfRequest /\ "settle" \in EarlyOfRequest
      /\ "checkIdentity" \in Held /\ "settle" \in Held
  BY DEF Held, EarlyOfRequest
<1>3. PeopleAdvance /\ aliases' \in [Provision!Keys -> Provision!Ids \cup {0}]
  BY <1>1, PeopleRest DEF ProvisionInv, ProvisionTypeOK
<1>4. CASE Provision!GoTo(s, "settle")
  BY <1>1, <1>2, <1>3, <1>4, GoesTo
<1>5. CASE Provision!End(s)
  BY <1>1, <1>3, <1>5, EndMoves
<1>6. CASE Provision!Compensate(s, "adopt") \/ Provision!Compensate(s, "fail")
  BY <1>1, <1>2, <1>6, CompensateMoves
<1> QED BY <1>4, <1>5, <1>6 DEF Provision!CheckIdentity

\* The profile is read again: only a request that has not created it does so,
\* or one that has a final profile before it.
LEMMA LookAgainMoves ==
    ASSUME ProvisionInv, NEW s \in Bridges, Provision!LookAgain(s),
           Provision!Active(attempts[s].id),
           attempts[s].pc = "synchronize" \/ (attempts[s].pc = "settle" /\ ~attempts[s].created),
           UNCHANGED <<people, aliases, told, gaveUp>>
    PROVE  ProvisionInv'
<1>1. /\ attempts[s].pc \in Held /\ attempts[s].pc \notin {"rotate", "finalize", "verify", "idle"}
      /\ attempts[s].pc \in EarlyOfRequest => ~attempts[s].created
  BY DEF Held, EarlyOfRequest
<1>2. /\ attempts[s] \in AttemptType /\ attempts[s].id \in Provision!Ids
      /\ people[attempts[s].id] \in ProfileType
  BY <1>1, HeldType
<1>3. PICK n \in Nat : n = attempts[s].tries + 1
  <2>1. attempts[s].tries \in Nat
    BY <1>2 DEF AttemptType
  <2> QED BY <2>1
<1> DEFINE a == [attempts[s] EXCEPT !.tries = n, !.seen = people[attempts[s].id]]
<1>4. Provision!Become(s, a)
  BY <1>3 DEF Provision!LookAgain
<1>5. /\ a \in AttemptType /\ a.pc = attempts[s].pc /\ a.id = attempts[s].id
      /\ a.seen = people[attempts[s].id] /\ a.created = attempts[s].created
  BY <1>2 DEF AttemptType
<1> HIDE DEF a
<1>6. PeopleAdvance /\ aliases' \in [Provision!Keys -> Provision!Ids \cup {0}]
  BY PeopleRest DEF ProvisionInv, ProvisionTypeOK
<1>7. a.seen = people'[a.id] /\ people'[a.id].status # "none"
  BY <1>5 DEF Provision!Active
<1> QED BY <1>1, <1>2, <1>4, <1>5, <1>6, <1>7, LooksMoves

LEMMA SettleStep ==
    ASSUME ProvisionInv, NEW s \in Bridges, Provision!Settle(s)
    PROVE  ProvisionInv'
<1>1. UNCHANGED <<people, aliases, told, gaveUp>> /\ attempts[s].pc = "settle"
  BY DEF Provision!Settle, Provision!At, Provision!Keep
<1>2. /\ "settle" \in EarlyOfRequest /\ "settle" \in Held
      /\ "bindConfig" \in EarlyOfRequest /\ "bindConfig" \in Held
  BY DEF Held, EarlyOfRequest
<1>3. PeopleAdvance /\ aliases' \in [Provision!Keys -> Provision!Ids \cup {0}]
  BY <1>1, PeopleRest DEF ProvisionInv, ProvisionTypeOK
<1>4. attempts[s] \in AttemptType /\ AttemptStands(s)
  BY <1>1, HeldType
<1>5. CASE attempts[s].seen.kind = "final" \/ attempts[s].seen.config = attempts[s].config
  <2> DEFINE a == [attempts[s] EXCEPT !.pc = "bindConfig", !.tries = 0]
  <2>1. Provision!Become(s, a)
    BY <1>5 DEF Provision!Settle
  <2>2. /\ a \in AttemptType /\ a.pc = "bindConfig" /\ a.id = attempts[s].id
        /\ a.seen = attempts[s].seen /\ a.token = attempts[s].token
        /\ a.created = attempts[s].created /\ a.config = attempts[s].config
    BY <1>4 DEF AttemptType, Held, EarlyOfRequest
  <2> HIDE DEF a
  <2> QED BY <1>1, <1>2, <1>3, <2>1, <2>2, HeldMoves
<1>6. CASE ~(attempts[s].seen.kind = "final" \/ attempts[s].seen.config = attempts[s].config)
  BY <1>1, <1>2, <1>4, <1>6, <1>3, LookAgainMoves, EndMoves
     DEF AttemptStands, AttemptType, Provision!Settle
<1> QED BY <1>5, <1>6

LEMMA CheckConfigStep ==
    ASSUME ProvisionInv, NEW s \in Bridges, Provision!CheckConfig(s)
    PROVE  ProvisionInv'
<1>1. UNCHANGED <<people, aliases, told, gaveUp>> /\ attempts[s].pc = "checkConfig"
  BY DEF Provision!CheckConfig, Provision!At, Provision!Keep
<1>2. /\ "checkConfig" \in EarlyOfRequest /\ "checkConfig" \in Held /\ "synchronize" \in Held
      /\ "finalize" \in Held /\ "rotate" \in Held /\ "finalize" \notin EarlyOfRequest
      /\ "rotate" \notin EarlyOfRequest /\ "synchronize" \notin EarlyOfRequest
  BY DEF Held, EarlyOfRequest
<1>3. PeopleAdvance /\ aliases' \in [Provision!Keys -> Provision!Ids \cup {0}]
  BY <1>1, PeopleRest DEF ProvisionInv, ProvisionTypeOK
<1>4. CASE Provision!GoTo(s, "synchronize")
  BY <1>1, <1>2, <1>3, <1>4, GoesTo
<1>5. CASE Provision!End(s)
  BY <1>1, <1>3, <1>5, EndMoves
<1>6. CASE Provision!Compensate(s, "fail")
  BY <1>1, <1>2, <1>6, CompensateMoves
<1>7. CASE Provision!GoTo(s, "finalize") /\ attempts[s].created
  BY <1>1, <1>2, <1>7, <1>3, GoesTo DEF ProvisionInv, AttemptStands
<1>8. CASE Provision!GoTo(s, "rotate") /\ attempts[s].seen.kind = "pending"
  BY <1>1, <1>2, <1>3, <1>8, GoesTo
<1>9. \/ Provision!GoTo(s, "synchronize") \/ Provision!End(s) \/ Provision!Compensate(s, "fail")
      \/ Provision!GoTo(s, "finalize") /\ attempts[s].created
      \/ Provision!GoTo(s, "rotate") /\ attempts[s].seen.kind = "pending"
  BY DEF Provision!CheckConfig
<1> QED BY <1>4, <1>5, <1>6, <1>7, <1>8, <1>9

\* An update at the revision that was seen is one of the profile as it was seen.
LEMMA CurrentSeen ==
    ASSUME ProvisionInv, NEW s \in Bridges, attempts[s].pc \in Held, Provision!Current(s)
    PROVE  /\ attempts[s] \in AttemptType /\ attempts[s].id \in Provision!Ids
           /\ attempts[s].seen = people[attempts[s].id]
           /\ people[attempts[s].id] \in ProfileType
           /\ people[attempts[s].id].status = "active"
BY HeldType DEF Held, EarlyOfRequest, Sees, Provision!Current, Provision!Active

LEMMA ChangedAdvances ==
    ASSUME ProvisionInv, NEW s \in Bridges, attempts[s].id \in Provision!Ids,
           NEW new \in ProfileType, Provision!Changed(s, new),
           people[attempts[s].id].status = "active", new.status # "none",
           new.rev = people[attempts[s].id].rev,
           people[attempts[s].id].kind = "final" => new.kind = "final",
           new.kind = "final" => new.token = people[attempts[s].id].token
    PROVE  /\ PeopleAdvance /\ people'[attempts[s].id] \in ProfileType
           /\ people'[attempts[s].id].status = new.status
           /\ people'[attempts[s].id].kind = new.kind
           /\ people'[attempts[s].id].token = new.token
<1>1. PICK id \in Provision!Ids : id = attempts[s].id
  OBVIOUS
<1>2. PICK q \in ProfileType : q = [new EXCEPT !.rev = @ + 1] /\ q.rev = new.rev + 1
           /\ q.status = new.status /\ q.kind = new.kind /\ q.token = new.token
  BY RevUp
<1>3. people' = [people EXCEPT ![id] = q]
  BY <1>1, <1>2 DEF Provision!Changed
<1>4. Advance(people[id], q)
  BY <1>1, <1>2 DEF Advance
<1>5. PeopleAdvance /\ people'[id] = q
  BY <1>3, <1>4, OneAdvances
<1> QED BY <1>1, <1>2, <1>5

LEMMA RotateStep ==
    ASSUME ProvisionInv, NEW s \in Bridges, Provision!Rotate(s)
    PROVE  ProvisionInv'
<1>1. UNCHANGED <<aliases, told, gaveUp>> /\ attempts[s].pc = "rotate"
  BY DEF Provision!Rotate, Provision!At, Provision!Keep
<1>2. "rotate" \in Held /\ "finalize" \in Held /\ "finalize" \notin EarlyOfRequest
  BY DEF Held, EarlyOfRequest
<1>3. aliases' \in [Provision!Keys -> Provision!Ids \cup {0}]
  BY <1>1 DEF ProvisionInv, ProvisionTypeOK
<1>4. CASE UNCHANGED people /\ Provision!End(s)
  BY <1>1, <1>3, <1>4, PeopleRest, EndMoves
<1>5. CASE ~(UNCHANGED people /\ Provision!End(s))
  <2>1. Provision!Current(s)
    BY <1>5 DEF Provision!Rotate
  <2>2. /\ attempts[s] \in AttemptType /\ attempts[s].id \in Provision!Ids
        /\ attempts[s].seen = people[attempts[s].id]
        /\ people[attempts[s].id] \in ProfileType
        /\ people[attempts[s].id].status = "active"
    BY <1>1, <1>2, <2>1, CurrentSeen
  <2>3. people[attempts[s].id].kind = "pending"
    BY <1>1, <2>2 DEF ProvisionInv, AttemptStands
  <2>4. PICK t \in Nat : t = attempts[s].seen.rev + 1
    <3>1. attempts[s].seen.rev \in Nat
      BY <2>2 DEF ProfileType
    <3> QED BY <3>1
  <2> DEFINE new == [people[attempts[s].id] EXCEPT !.token = t]
  <2>5. /\ new \in ProfileType /\ new.token = t /\ new.status = "active" /\ new.kind = "pending"
        /\ new.rev = people[attempts[s].id].rev
    BY <2>2, <2>3 DEF ProfileType
  <2>6. Provision!Changed(s, new)
    BY <1>5, <2>4 DEF Provision!Rotate
  <2> HIDE DEF new
  <2>7. /\ PeopleAdvance /\ people'[attempts[s].id] \in ProfileType
        /\ people'[attempts[s].id].status = "active" /\ people'[attempts[s].id].kind = "pending"
        /\ people'[attempts[s].id].token = t
    BY <2>2, <2>3, <2>5, <2>6, ChangedAdvances
  <2>8. CASE Provision!End(s)
    BY <1>1, <1>3, <2>7, <2>8, EndMoves
  <2>9. CASE ~Provision!End(s)
    <3> DEFINE a == [attempts[s] EXCEPT !.pc = "finalize", !.token = t,
                                        !.seen = people'[attempts[s].id]]
    <3>1. Provision!Become(s, a)
      BY <1>5, <2>4, <2>9 DEF Provision!Rotate
    <3>2. /\ a \in AttemptType /\ a.pc = "finalize" /\ a.id = attempts[s].id /\ a.token = t
          /\ a.seen = people'[attempts[s].id]
      BY <2>2, <2>7 DEF AttemptType, Held
    <3> HIDE DEF a
    <3>3. a.seen.kind = "pending" /\ a.seen.token = a.token /\ a.seen = people'[a.id]
          /\ people'[a.id].status # "none" /\ a.pc \in Held /\ a.pc \notin EarlyOfRequest
          /\ a.pc # "rotate"
      BY <1>2, <2>7, <3>2
    <3> QED BY <1>1, <1>3, <2>2, <2>7, <3>1, <3>2, <3>3, LooksMoves
  <2> QED BY <2>8, <2>9
<1> QED BY <1>4, <1>5

\* A token is answered for a final profile that has it.
LEMMA AnswerMoves ==
    ASSUME ProvisionInv, PeopleAdvance, NEW s \in Bridges, Provision!Answer(s),
           attempts[s].id \in Provision!Ids, people'[attempts[s].id].kind = "final",
           people'[attempts[s].id].token = attempts[s].token, UNCHANGED aliases
    PROVE  ProvisionInv'
BY ToldStays, Ends, RequestMoves
   DEF ProvisionInv, ProvisionTypeOK, Provision!Answer, ToldOpens, PeopleStand, PeopleAdvance,
       Advance

\* A finished profile keeps its token.
LEMMA FinalAdvances ==
    ASSUME ProvisionInv, NEW s \in Bridges, attempts[s].pc \in Held, Provision!Current(s),
           Provision!Changed(s, Provision!Final(s))
    PROVE  /\ PeopleAdvance /\ people'[attempts[s].id].kind = "final"
           /\ people'[attempts[s].id].token = people[attempts[s].id].token
<1>1. /\ attempts[s] \in AttemptType /\ attempts[s].id \in Provision!Ids
      /\ people[attempts[s].id] \in ProfileType
      /\ people[attempts[s].id].status = "active"
  BY CurrentSeen
<1> DEFINE new == [people[attempts[s].id] EXCEPT !.kind = "final", !.config = "",
                                                 !.content = attempts[s].content]
<1>2. attempts[s].content \in Contents
  BY <1>1 DEF AttemptType
<1>3. /\ new \in ProfileType /\ new.status = "active" /\ new.kind = "final"
      /\ new.token = people[attempts[s].id].token /\ new.rev = people[attempts[s].id].rev
  BY <1>1, <1>2 DEF ProfileType
<1>4. Provision!Changed(s, new)
  BY DEF Provision!Final
<1> HIDE DEF new
<1> QED BY <1>1, <1>3, <1>4, ChangedAdvances

LEMMA FinalizeStep ==
    ASSUME ProvisionInv, NEW s \in Bridges, Provision!Finalize(s)
    PROVE  ProvisionInv'
<1>1. UNCHANGED aliases /\ attempts[s].pc = "finalize"
  BY DEF Provision!Finalize, Provision!At
<1>2. "finalize" \in Held /\ "verify" \in Held /\ "verify" \notin EarlyOfRequest
  BY DEF Held, EarlyOfRequest
<1>3. aliases' \in [Provision!Keys -> Provision!Ids \cup {0}]
  BY <1>1 DEF ProvisionInv, ProvisionTypeOK
<1>4. attempts[s].seen.kind = "pending" /\ attempts[s].seen.token = attempts[s].token
  BY <1>1 DEF ProvisionInv, AttemptStands
<1>5. CASE Provision!GoTo(s, "verify") /\ PeopleAdvance /\ Provision!Keep
  BY <1>1, <1>2, <1>3, <1>4, <1>5, GoesTo DEF Provision!Keep
<1>6. CASE UNCHANGED people /\ Provision!Keep
  BY <1>3, <1>6, PeopleRest, EndMoves, <1>5
     DEF Provision!Keep, Provision!Finalize, Provision!Answer
<1>7. CASE Provision!Current(s) /\ Provision!Changed(s, Provision!Final(s))
  BY <1>1, <1>2, <1>7, FinalAdvances, CurrentSeen, <1>4, AnswerMoves, <1>5, <1>6
     DEF Provision!Finalize
<1> QED BY <1>6, <1>7 DEF Provision!Finalize

LEMMA VerifyFinalStep ==
    ASSUME ProvisionInv, NEW s \in Bridges, Provision!VerifyFinal(s)
    PROVE  ProvisionInv'
<1>1. UNCHANGED <<people, aliases>> /\ attempts[s].pc = "verify"
  BY DEF Provision!VerifyFinal, Provision!At
<1>2. attempts[s].id \in Provision!Ids /\ Sees(attempts[s].id, attempts[s].seen)
      /\ attempts[s].seen.kind = "pending" /\ attempts[s].seen.token = attempts[s].token
  BY <1>1, HeldType DEF Held, EarlyOfRequest, AttemptStands
<1>3. CASE Provision!End(s) /\ Provision!Keep
  BY <1>1, <1>3, PeopleRest, EndMoves DEF Provision!Keep, ProvisionInv, ProvisionTypeOK
<1>4. CASE Provision!IsOurs(s) /\ Provision!Answer(s)
  BY <1>2, <1>4, <1>1, PeopleRest, AnswerMoves DEF Provision!IsOurs, Sees
<1> QED BY <1>3, <1>4 DEF Provision!VerifyFinal

LEMMA SynchronizeStep ==
    ASSUME ProvisionInv, NEW s \in Bridges, Provision!Synchronize(s)
    PROVE  ProvisionInv'
BY PeopleRest, EndMoves, LookAgainMoves, FinalAdvances
   DEF Provision!Synchronize, Provision!At, Provision!Keep, ProvisionInv, ProvisionTypeOK, Held

\* A profile is said to be taken back when it is seen to be inactive.
LEMMA GiveUpMoves ==
    ASSUME ProvisionInv, NEW s \in Bridges, attempts[s].pc \in Held, Provision!GiveUp(s),
           ~Provision!Active(attempts[s].id), UNCHANGED <<people, aliases>>
    PROVE  ProvisionInv'
<1>1. PeopleAdvance /\ aliases' \in [Provision!Keys -> Provision!Ids \cup {0}]
  BY PeopleRest DEF ProvisionInv, ProvisionTypeOK
<1>2. /\ attempts[s] \in AttemptType /\ attempts[s].id \in Provision!Ids
      /\ people[attempts[s].id] \in ProfileType /\ people[attempts[s].id].status # "none"
  BY HeldType DEF Held, EarlyOfRequest
<1>3. people[attempts[s].id].status = "revoked"
  BY <1>2 DEF Provision!Active, ProfileType
<1>4. GivenUp' /\ ToldOpens'
  BY <1>1, <1>2, <1>3, ToldStays DEF Provision!GiveUp, ProvisionInv, GivenUp
<1>5. CASE Provision!End(s)
  BY <1>1, <1>4, <1>5, Ends, RequestMoves
<1>6. CASE ~Provision!End(s)
  <2> DEFINE a == [attempts[s] EXCEPT !.pc = "winner", !.token = 0, !.created = FALSE,
                                      !.tries = 0]
  <2>1. Provision!Become(s, a)
    BY <1>6 DEF Provision!GiveUp
  <2>2. a \in AttemptType /\ a.pc = "winner" /\ ~a.created
    BY <1>2 DEF AttemptType
  <2> HIDE DEF a
  <2> QED BY <1>1, <1>4, <2>1, <2>2, OpenMoves
<1> QED BY <1>5, <1>6

LEMMA AgainMoves ==
    ASSUME ProvisionInv, NEW s \in Bridges, attempts[s].pc \in Held, Provision!Again(s),
           UNCHANGED <<people, aliases>>
    PROVE  ProvisionInv'
<1>1. /\ PeopleAdvance /\ aliases' \in [Provision!Keys -> Provision!Ids \cup {0}]
      /\ UNCHANGED <<told, gaveUp>>
  BY PeopleRest DEF ProvisionInv, ProvisionTypeOK, Provision!Again, Provision!Keep
<1>2. attempts[s] \in AttemptType
  BY HeldType DEF Held, EarlyOfRequest
<1>3. CASE Provision!End(s)
  BY <1>1, <1>3, EndMoves
<1>4. CASE ~Provision!End(s)
  <2>1. PICK n \in Nat : n = attempts[s].tries + 1
    <3>1. attempts[s].tries \in Nat
      BY <1>2 DEF AttemptType
    <3> QED BY <3>1
  <2> DEFINE a == [attempts[s] EXCEPT !.pc = "compensate", !.tries = n]
  <2>2. Provision!Become(s, a)
    BY <1>4, <2>1 DEF Provision!Again
  <2>3. /\ a \in AttemptType /\ a.pc = "compensate" /\ a.id = attempts[s].id
        /\ a.seen = attempts[s].seen /\ a.token = attempts[s].token
        /\ a.created = attempts[s].created /\ a.config = attempts[s].config
    BY <1>2 DEF AttemptType, Held
  <2> HIDE DEF a
  <2>4. "compensate" \in Held /\ "compensate" \notin EarlyOfRequest
    BY DEF Held, EarlyOfRequest
  <2> QED BY <1>1, <2>2, <2>3, <2>4, HeldMoves
<1> QED BY <1>3, <1>4

LEMMA CompensateReadStep ==
    ASSUME ProvisionInv, NEW s \in Bridges, Provision!CompensateRead(s)
    PROVE  ProvisionInv'
<1>1. UNCHANGED <<people, aliases>> /\ attempts[s].pc = "compensate"
  BY DEF Provision!CompensateRead, Provision!At
<1>2. "compensate" \in Held /\ "revoke" \in Held /\ "revoke" \notin EarlyOfRequest
  BY DEF Held, EarlyOfRequest
<1>3. CASE ~Provision!Active(attempts[s].id) /\ Provision!GiveUp(s)
  BY <1>1, <1>2, <1>3, GiveUpMoves
<1>4. CASE Provision!Again(s)
  BY <1>1, <1>2, <1>4, AgainMoves
<1>5. CASE /\ Provision!Active(attempts[s].id) /\ Provision!Keep
           /\ Provision!Become(s, [attempts[s] EXCEPT !.pc = "revoke",
                                                      !.seen = people[attempts[s].id]])
  <2> DEFINE a == [attempts[s] EXCEPT !.pc = "revoke", !.seen = people[attempts[s].id]]
  <2>1. /\ attempts[s] \in AttemptType /\ attempts[s].id \in Provision!Ids
        /\ people[attempts[s].id] \in ProfileType
    BY <1>1, <1>2, HeldType
  <2>2. /\ a \in AttemptType /\ a.pc = "revoke" /\ a.id = attempts[s].id
        /\ a.seen = people[attempts[s].id]
    BY <2>1 DEF AttemptType, Held
  <2>3. Provision!Become(s, a)
    BY <1>5
  <2> HIDE DEF a
  <2>4. a.seen = people'[a.id] /\ people'[a.id].status # "none"
    BY <1>1, <1>5, <2>2 DEF Provision!Active
  <2>5. /\ PeopleAdvance /\ aliases' \in [Provision!Keys -> Provision!Ids \cup {0}]
        /\ UNCHANGED <<told, gaveUp>>
    BY <1>1, <1>5, PeopleRest DEF ProvisionInv, ProvisionTypeOK, Provision!Keep
  <2> QED BY <1>2, <2>1, <2>2, <2>3, <2>4, <2>5, LooksMoves
<1> QED BY <1>3, <1>4, <1>5 DEF Provision!CompensateRead

LEMMA CompensateRevokeStep ==
    ASSUME ProvisionInv, NEW s \in Bridges, Provision!CompensateRevoke(s)
    PROVE  ProvisionInv'
<1>1. UNCHANGED aliases /\ attempts[s].pc = "revoke"
  BY DEF Provision!CompensateRevoke, Provision!At
<1>2. "revoke" \in Held /\ "verifyRevoked" \in Held /\ "verifyRevoked" \notin EarlyOfRequest
  BY DEF Held, EarlyOfRequest
<1>3. aliases' \in [Provision!Keys -> Provision!Ids \cup {0}]
  BY <1>1 DEF ProvisionInv, ProvisionTypeOK
<1>4. CASE PeopleAdvance /\ Provision!GoTo(s, "verifyRevoked") /\ Provision!Keep
  BY <1>1, <1>2, <1>3, <1>4, GoesTo DEF Provision!Keep
<1>5. CASE UNCHANGED people /\ Provision!Again(s)
  BY <1>1, <1>2, <1>5, AgainMoves
<1>6. CASE /\ Provision!Current(s) /\ Provision!GoTo(s, "verifyRevoked") /\ Provision!Keep
           /\ Provision!Changed(s, [people[attempts[s].id] EXCEPT !.status = "revoked"])
  <2>1. /\ attempts[s].id \in Provision!Ids /\ people[attempts[s].id] \in ProfileType
        /\ people[attempts[s].id].status = "active"
    BY <1>1, <1>2, <1>6, CurrentSeen
  <2> DEFINE new == [people[attempts[s].id] EXCEPT !.status = "revoked"]
  <2>2. /\ new \in ProfileType /\ new.status = "revoked"
        /\ new.kind = people[attempts[s].id].kind /\ new.token = people[attempts[s].id].token
        /\ new.rev = people[attempts[s].id].rev
    BY <2>1 DEF ProfileType
  <2>3. Provision!Changed(s, new)
    BY <1>6
  <2> HIDE DEF new
  <2>4. PeopleAdvance
    BY <2>1, <2>2, <2>3, ChangedAdvances
  <2> QED BY <1>4, <1>6, <2>4
<1>7. \/ /\ Provision!Current(s) /\ Provision!GoTo(s, "verifyRevoked") /\ Provision!Keep
         /\ Provision!Changed(s, [people[attempts[s].id] EXCEPT !.status = "revoked"])
      \/ UNCHANGED people /\ Provision!Again(s)
      \/ UNCHANGED people /\ Provision!GoTo(s, "verifyRevoked") /\ Provision!Keep
  BY DEF Provision!CompensateRevoke
<1> QED BY <1>4, <1>5, <1>6, <1>7, PeopleRest

LEMMA CompensateVerifyStep ==
    ASSUME ProvisionInv, NEW s \in Bridges, Provision!CompensateVerify(s)
    PROVE  ProvisionInv'
BY GiveUpMoves, AgainMoves DEF Provision!CompensateVerify, Provision!At, Held

LEMMA OwnerStep ==
    ASSUME ProvisionInv, NEW id \in Provision!Ids, Provision!RevokeByOwner(id)
    PROVE  ProvisionInv'
<1>1. UNCHANGED <<aliases, attempts, told, gaveUp>> /\ people[id].status = "active"
  BY DEF Provision!RevokeByOwner, Provision!Active
<1>2. people[id] \in ProfileType /\ people[id].rev \in Nat
  BY DEF ProvisionInv, ProvisionTypeOK, ProfileType
<1>3. PICK n \in Nat : n = people[id].rev + 1
  BY <1>2
<1> DEFINE q == [people[id] EXCEPT !.status = "revoked", !.rev = n]
<1>4. /\ q \in ProfileType /\ q.status = "revoked" /\ q.rev = n /\ q.kind = people[id].kind
      /\ q.token = people[id].token
  BY <1>2 DEF ProfileType
<1>5. people' = [people EXCEPT ![id] = q]
  BY <1>3 DEF Provision!RevokeByOwner, ProvisionInv, ProvisionTypeOK
<1> HIDE DEF q
<1>6. Advance(people[id], q)
  BY <1>1, <1>3, <1>4 DEF Advance
<1>7. PeopleAdvance
  BY <1>4, <1>5, <1>6, OneAdvances
<1>8. ProvisionTypeOK' /\ PeopleStand'
  BY <1>1, <1>7 DEF ProvisionInv, ProvisionTypeOK, PeopleStand, PeopleAdvance, Advance
<1>9. \A s \in Bridges : AttemptStands(s)'
  BY <1>1, <1>7, AttemptStays
<1> QED BY <1>1, <1>7, <1>8, <1>9, ToldStays DEF ProvisionInv

LEMMA ProvisionNext == ProvisionInv /\ Provision!Next => ProvisionInv'
<1> SUFFICES ASSUME ProvisionInv, Provision!Next PROVE ProvisionInv'
  OBVIOUS
<1>1. ASSUME NEW s \in Bridges, Provision!Provision(s) PROVE ProvisionInv'
  BY <1>1, StartStep, ReadAliasStep, AdoptSteps, CreateStep, BindSteps, CheckIdentityStep,
     SettleStep, CheckConfigStep, RotateStep, FinalizeStep, VerifyFinalStep, SynchronizeStep,
     CompensateReadStep, CompensateRevokeStep, CompensateVerifyStep
  DEF Provision!Provision
<1> QED BY <1>1, OwnerStep DEF Provision!Next

LEMMA ProvisionRest == ProvisionInv /\ UNCHANGED ProvisionVars => ProvisionInv'
BY DEF ProvisionVars, ProvisionInv, ProvisionTypeOK, PeopleStand, AttemptStands, Sees, ToldOpens,
       GivenUp

-----------------------------------------------------------------------------
(***************************************************************************)
(* The owner's page.                                                       *)
(*                                                                         *)
(* Whatever is of the epoch of the page is of its session, and there is    *)
(* one management flow of it at most (FlowsInv, OperationInv).  A call     *)
(* that was sent is of the session of the operation with its number, and   *)
(* what was answered to the operation is so at the Bridge (ImportsInv).    *)
(* While no two activations have been under way at once, one is of the     *)
(* attempt in the record or of one that is over (PairingInv).              *)
(***************************************************************************)
OfAttempts == 1..Len(tried)
Stages == Page!Calls \cup {"link", "approval", "account", "decide"}

PageType ==
    [config : Configs \cup {None}, session : OfAttempts \cup {None}, epoch : Nat,
     ready : BOOLEAN, opened : BOOLEAN, busy : Nat \cup {None}, refresh : Nat \cup {None},
     leaving : BOOLEAN]
PageFlowType ==
    [kind : {"refresh", "action", "delete", "trakt"}, epoch : Nat, session : OfAttempts,
     stage : {"state", "call"}]
OperationType ==
    [id : Nat, epoch : Nat, session : OfAttempts, aborted : BOOLEAN,
     reply : {"none", "ok", "denied", "stale"}, revision : Nat \cup {None}, backup : BOOLEAN,
     stage : Stages]
SentType ==
    [operation : Nat, what : Page!Calls, session : OfAttempts, revision : Nat \cup {None}]
PairingType ==
    [attempt : OfAttempts, by : {"pair", "recover", "gone"},
     reply : {"none", "ok", "refused", "failed"}]
SpentType == [generates : Nat, sends : Nat, reloads : Nat, operations : Nat, changes : Nat]

PageTypeOK ==
    /\ page \in PageType
    /\ operation \in {None} \cup OperationType
    /\ flows \subseteq PageFlowType
    /\ generating \subseteq Configs
    /\ record \in OfAttempts \cup {None}
    /\ pairings \subseteq PairingType
    /\ sent \subseteq SentType
    /\ tried \in Seq([code : Codes, config : Configs])
    /\ codes \in [Codes -> OfAttempts \cup {None}]
    /\ providers \in [Configs -> Nat]
    /\ spent \in SpentType

FlowsInv ==
    /\ page.session # None => Page!ProfileOf(page.session) = page.config
    /\ page.busy \in {None, page.epoch} /\ page.refresh \in {None, page.epoch}
    /\ \A f \in flows : f.epoch <= page.epoch
    /\ \A f \in flows : f.epoch = page.epoch =>
          /\ page.session = f.session /\ page.busy = page.epoch
          /\ f.kind = "refresh" => page.refresh = page.epoch
    /\ \A f, g \in flows : f.epoch = page.epoch /\ g.epoch = page.epoch => f = g
    /\ page.busy # None => page.leaving \/ \E f \in flows : f.epoch = page.epoch

OperationInv ==
    operation # None /\ ~operation.aborted =>
        operation.epoch = page.epoch /\ operation.session = page.session

ImportsInv ==
    /\ page.ready => \E i \in imports : i.config = page.config /\ i.session = page.session
    /\ page.opened => page.ready
    /\ \A i \in imports : [operation |-> i.operation, config |-> i.config] \in backups
    /\ \A call \in sent :
          /\ call.operation <= spent.operations
          /\ operation # None /\ operation.id = call.operation =>
                call.session = operation.session
          /\ call.what = "put" =>
                [operation |-> call.operation, config |-> Page!ProfileOf(call.session)] \in backups
    /\ operation # None =>
          /\ operation.id <= spent.operations
          /\ operation.stage = "backup" /\ operation.reply = "ok" =>
                [operation |-> operation.id, config |-> Page!ProfileOf(operation.session)]
                    \in backups
          /\ operation.stage = "put" /\ operation.reply = "ok" =>
                \E i \in imports : /\ i.config = Page!ProfileOf(operation.session)
                                   /\ i.session = operation.session

PairingInv ==
    /\ ~overlapped => \A p \in pairings :
          p.attempt = record \/ (record = None /\ p.attempt \in given \cup applied)
    /\ \A p \in pairings : p.reply = "refused" => p.attempt \in given
    /\ Page!PairingRecoverable

PageInv ==
    /\ PageTypeOK
    /\ FlowsInv
    /\ OperationInv
    /\ ImportsInv
    /\ PairingInv

LEMMA PageInit == Page!Init => PageInv
<1> SUFFICES ASSUME Page!Init PROVE PageInv
  OBVIOUS
<1>1. /\ page = Page!Loaded(None, 1) /\ operation = None /\ flows = {} /\ generating = {}
      /\ record = None /\ pairings = {} /\ sent = {} /\ tried = <<>>
      /\ codes = [k \in Codes |-> None] /\ providers = [c \in Configs |-> 0]
      /\ imports = {} /\ overlapped = FALSE
      /\ spent = [generates |-> 0, sends |-> 0, reloads |-> 0, operations |-> 0, changes |-> 0]
  BY DEF Page!Init
<1>2. PageTypeOK
  BY <1>1 DEF PageTypeOK, PageType, SpentType, Page!Loaded
<1>3. FlowsInv /\ OperationInv /\ ImportsInv
  BY <1>1 DEF FlowsInv, OperationInv, ImportsInv, Page!Loaded
<1>4. PairingInv
  BY <1>1 DEF PairingInv, Page!PairingRecoverable
<1> QED BY <1>2, <1>3, <1>4 DEF PageInv

-----------------------------------------------------------------------------
\* What a step leaves alone.
LEMMA FlowsRest ==
    ASSUME FlowsInv, UNCHANGED <<flows, tried>>,
           page'.config = page.config, page'.session = page.session, page'.epoch = page.epoch,
           page'.busy = page.busy, page'.refresh = page.refresh, page'.leaving = page.leaving
    PROVE  FlowsInv'
BY DEF FlowsInv, Page!ProfileOf

LEMMA OperationRests ==
    ASSUME OperationInv, operation' = operation,
           page'.epoch = page.epoch, page'.session = page.session
    PROVE  OperationInv'
BY DEF OperationInv

LEMMA ImportsRest ==
    ASSUME ImportsInv, UNCHANGED <<operation, sent, backups, imports, tried>>,
           spent'.operations = spent.operations,
           page'.config = page.config, page'.session = page.session,
           page'.ready = page.ready, page'.opened = page.opened
    PROVE  ImportsInv'
BY DEF ImportsInv, Page!ProfileOf

LEMMA PairingRests ==
    ASSUME PairingInv, UNCHANGED <<record, pairings, codes, applied, given, overlapped>>
    PROVE  PairingInv'
BY DEF PairingInv, Page!PairingRecoverable

LEMMA SpendMoves ==
    ASSUME PageTypeOK, NEW what \in {"generates", "sends", "reloads", "operations", "changes"},
           NEW limit, Page!Spend(what, limit)
    PROVE  /\ spent' \in SpentType
           /\ spent'.operations = IF what = "operations" THEN spent.operations + 1
                                  ELSE spent.operations
BY DEF PageTypeOK, SpentType, Page!Spend

\* What was sent by the page is of a code and of a profile.
LEMMA AttemptIs ==
    ASSUME PageTypeOK, NEW n \in OfAttempts
    PROVE  tried[n].code \in Codes /\ tried[n].config \in Configs /\ Page!ProfileOf(n) \in Configs
<1> DEFINE Attempt == [code : Codes, config : Configs]
<1>1. tried[n] \in Attempt
  <2>1. tried \in Seq(Attempt) /\ n \in 1..Len(tried)
    BY DEF PageTypeOK, OfAttempts
  <2> HIDE DEF Attempt
  <2> QED BY <2>1
<1> QED BY <1>1 DEF Page!ProfileOf

\* The end of the page's authority.
LEMMA AuthorityGone ==
    ASSUME PageInv, NEW config \in Configs \cup {None}, Page!AuthorityEnds(config),
           flows' \subseteq flows, UNCHANGED <<sent, backups, imports, tried, spent>>
    PROVE  /\ page' \in PageType /\ operation' \in {None} \cup OperationType
           /\ FlowsInv' /\ OperationInv' /\ ImportsInv'
<1>1. /\ page' = Page!Loaded(config, page.epoch + 1)
      /\ operation' = IF operation = None THEN None ELSE [operation EXCEPT !.aborted = TRUE]
  BY DEF Page!AuthorityEnds, Page!Aborted
<1>2. page.epoch \in Nat /\ \A f \in flows : f.epoch \in Nat
  BY DEF PageInv, PageTypeOK, PageType, PageFlowType
<1>3. /\ page' \in PageType /\ page'.epoch = page.epoch + 1 /\ page'.session = None
      /\ page'.busy = None /\ page'.refresh = None /\ ~page'.ready /\ ~page'.opened
  BY <1>1, <1>2 DEF PageType, Page!Loaded
<1>4. /\ operation' \in {None} \cup OperationType
      /\ operation' # None =>
            /\ operation # None /\ operation'.aborted /\ operation'.id = operation.id
            /\ operation'.session = operation.session /\ operation'.stage = operation.stage
            /\ operation'.reply = operation.reply
  BY <1>1 DEF PageInv, PageTypeOK, OperationType
<1>5. FlowsInv'
  BY <1>2, <1>3 DEF PageInv, FlowsInv
<1>6. OperationInv'
  BY <1>4 DEF OperationInv
<1>7. ImportsInv'
  BY <1>3, <1>4 DEF PageInv, ImportsInv, Page!ProfileOf
<1> QED BY <1>3, <1>4, <1>5, <1>6, <1>7

-----------------------------------------------------------------------------
(* Profiles and pairing *)

LEMMA GenerateSteps ==
    ASSUME PageInv, NEW c \in Configs,
           Page!ShowResult(c) \/ Page!Generate(c) \/ Page!GenerateFails(c)
               \/ Page!ChangedElsewhere(c)
    PROVE  PageInv'
<1>1. CASE Page!ShowResult(c)
  <2>1. /\ Page!AuthorityEnds(c) /\ generating' \subseteq generating
        /\ UNCHANGED <<flows, record, pairings, sent, tried, codes, dead, providers, backups,
                       imports, applied, given, overlapped, spent>>
    BY <1>1 DEF Page!ShowResult, Page!bridge
  <2>2. /\ page' \in PageType /\ operation' \in {None} \cup OperationType
        /\ FlowsInv' /\ OperationInv' /\ ImportsInv'
    BY <2>1, AuthorityGone
  <2>3. PageTypeOK'
    BY <2>1, <2>2 DEF PageInv, PageTypeOK, PageType, OperationType, PageFlowType, SentType,
                      PairingType, OfAttempts
  <2> QED BY <2>1, <2>2, <2>3, PairingRests DEF PageInv
<1>2. CASE Page!Generate(c) \/ Page!GenerateFails(c) \/ Page!ChangedElsewhere(c)
  <2>1. /\ generating' \subseteq Configs /\ providers' \in [Configs -> Nat]
        /\ UNCHANGED <<page, operation, flows, record, pairings, sent, tried, codes, backups,
                       imports, applied, given, overlapped>>
    BY <1>2 DEF Page!Generate, Page!GenerateFails, Page!ChangedElsewhere, Page!bridge, Page!tab,
                PageInv, PageTypeOK
  <2>2. spent' \in SpentType /\ spent'.operations = spent.operations
    BY <1>2, SpendMoves
       DEF Page!Generate, Page!GenerateFails, Page!ChangedElsewhere, PageInv, PageTypeOK
  <2>3. PageTypeOK'
    BY <2>1, <2>2 DEF PageInv, PageTypeOK, PageType, OperationType, PageFlowType, SentType,
                      PairingType, OfAttempts
  <2> QED
    BY <2>1, <2>2, <2>3, FlowsRest, OperationRests, ImportsRest, PairingRests DEF PageInv
<1> QED BY <1>1, <1>2

\* A step of the pairing that leaves the rest of the page as it is.
LEMMA OnlyPairing ==
    ASSUME PageInv, UNCHANGED <<page, operation, flows, generating, sent, tried, dead, providers,
                                backups, imports>>,
           spent' \in SpentType, spent'.operations = spent.operations,
           record' \in OfAttempts \cup {None}, pairings' \subseteq PairingType,
           codes' \in [Codes -> OfAttempts \cup {None}], PairingInv'
    PROVE  PageInv'
<1>1. PageTypeOK'
  BY DEF PageInv, PageTypeOK, PageType, OperationType, PageFlowType, SentType, PairingType,
         OfAttempts
<1> QED BY <1>1, FlowsRest, OperationRests, ImportsRest DEF PageInv

LEMMA PairAgainStep ==
    ASSUME PageInv, NEW k \in Codes, Page!PairAgain(k)
    PROVE  PageInv'
<1> DEFINE p == [attempt |-> record, by |-> "pair", reply |-> "none"]
<1>1. /\ record # None /\ pairings' = pairings \cup {p}
      /\ overlapped' = (overlapped \/ pairings # {})
      /\ Page!Spend("sends", MaxSends)
      /\ UNCHANGED <<page, operation, flows, generating, record, sent, tried, codes, dead,
                     providers, backups, imports, applied, given>>
  BY DEF Page!PairAgain, Page!Send, Page!tab, Page!bridge
<1>2. p \in PairingType
  BY <1>1 DEF PageInv, PageTypeOK, PairingType
<1>3. PairingInv'
  <2>1. ~overlapped' => \A q \in pairings' : q.attempt = record
    <3>1. ~overlapped' => pairings = {}
      BY <1>1
    <3>2. p.attempt = record
      BY <1>1
    <3> HIDE DEF p
    <3> QED BY <1>1, <3>1, <3>2
  <2>2. \A q \in pairings' : q.reply = "refused" => q.attempt \in given
    BY <1>1 DEF PageInv, PairingInv
  <2>3. Page!PairingRecoverable'
    BY <1>1 DEF PageInv, PairingInv, Page!PairingRecoverable
  <2> QED BY <1>1, <2>1, <2>2, <2>3 DEF PairingInv
<1>4. spent' \in SpentType /\ spent'.operations = spent.operations
  BY <1>1, SpendMoves DEF PageInv
<1> HIDE DEF p
<1> QED BY <1>1, <1>2, <1>3, <1>4, OnlyPairing DEF PageInv, PageTypeOK

LEMMA PairAnewStep ==
    ASSUME PageInv, NEW k \in Codes, Page!PairAnew(k)
    PROVE  PageInv'
<1> DEFINE new == [code |-> k, config |-> page.config]
           p == [attempt |-> Len(tried'), by |-> "pair", reply |-> "none"]
<1>1. /\ page.config # None /\ record = None
      /\ tried' = Append(tried, new) /\ record' = Len(tried')
      /\ pairings' = pairings \cup {p} /\ overlapped' = (overlapped \/ pairings # {})
      /\ Page!Spend("sends", MaxSends)
      /\ UNCHANGED <<page, operation, flows, generating, sent, codes, dead, providers, backups,
                     imports, applied, given>>
  BY DEF Page!PairAnew, Page!MayPair, Page!Send
<1>2. new \in [code : Codes, config : Configs]
  BY <1>1 DEF PageInv, PageTypeOK, PageType
<1> HIDE DEF new
<1>3. /\ tried' \in Seq([code : Codes, config : Configs]) /\ Len(tried') = Len(tried) + 1
      /\ Len(tried) \in Nat /\ \A n \in 1..Len(tried) : tried'[n] = tried[n]
  BY <1>1, <1>2 DEF PageInv, PageTypeOK
<1>4. /\ OfAttempts \subseteq OfAttempts' /\ Len(tried') \in OfAttempts'
      /\ \A n \in OfAttempts : Page!ProfileOf(n)' = Page!ProfileOf(n)
  BY <1>3 DEF OfAttempts, Page!ProfileOf
<1>5. spent' \in SpentType /\ spent'.operations = spent.operations
  BY <1>1, SpendMoves DEF PageInv
<1>6. PageTypeOK'
  <2>1. page' \in PageType' /\ operation' \in {None} \cup OperationType'
    BY <1>1, <1>4 DEF PageInv, PageTypeOK, PageType, OperationType
  <2>2. flows' \subseteq PageFlowType' /\ sent' \subseteq SentType'
    BY <1>1, <1>4 DEF PageInv, PageTypeOK, PageFlowType, SentType
  <2>3. pairings' \subseteq PairingType'
    BY <1>1, <1>4 DEF PageInv, PageTypeOK, PairingType
  <2>4. codes' \in [Codes -> OfAttempts' \cup {None}] /\ record' \in OfAttempts' \cup {None}
    BY <1>1, <1>4 DEF PageInv, PageTypeOK
  <2> QED BY <1>1, <1>3, <1>5, <2>1, <2>2, <2>3, <2>4 DEF PageInv, PageTypeOK, SpentType
<1>7. FlowsInv' /\ OperationInv'
  BY <1>1, <1>4 DEF PageInv, PageTypeOK, PageType, FlowsInv, OperationInv
<1>8. ImportsInv'
  BY <1>1, <1>4, <1>5 DEF PageInv, PageTypeOK, SentType, OperationType, ImportsInv
<1>9. PairingInv'
  <2>1. ~overlapped' => \A q \in pairings' : q.attempt = record'
    <3>1. ~overlapped' => pairings = {}
      BY <1>1
    <3>2. p.attempt = record'
      BY <1>1
    <3> HIDE DEF p
    <3> QED BY <1>1, <3>1, <3>2
  <2>2. \A q \in pairings' : q.reply = "refused" => q.attempt \in given
    BY <1>1 DEF PageInv, PairingInv
  <2>3. ~overlapped' => ~overlapped /\ pairings = {}
    BY <1>1
  <2>4. ~overlapped' => \A j \in Codes : codes[j] # None => codes[j] \in applied \cup given
    BY <1>1, <2>3 DEF PageInv, PairingInv, Page!PairingRecoverable
  <2>5. Page!PairingRecoverable'
    BY <1>1, <2>4 DEF Page!PairingRecoverable
  <2> QED BY <1>1, <2>1, <2>2, <2>5 DEF PairingInv
<1> QED BY <1>6, <1>7, <1>8, <1>9 DEF PageInv

LEMMA ActivatedStep ==
    ASSUME PageInv, NEW p \in pairings, NEW reply \in {"ok", "refused", "failed"},
           Page!Activated(p, reply)
    PROVE  PageInv'
<1> DEFINE k == tried[p.attempt].code
           new == [p EXCEPT !.reply = reply]
<1>1. /\ p \in PairingType /\ k \in Codes
  BY AttemptIs DEF PageInv, PageTypeOK, PairingType
<1>2. /\ p.reply = "none"
      /\ codes' = IF reply = "ok" THEN [codes EXCEPT ![k] = p.attempt] ELSE codes
      /\ given' = IF reply = "refused" THEN given \cup {p.attempt} ELSE given
      /\ pairings' = IF p.by = "gone" THEN pairings \ {p} ELSE (pairings \ {p}) \cup {new}
      /\ UNCHANGED <<page, operation, flows, generating, record, sent, tried, dead, providers,
                     backups, imports, applied, overlapped, spent>>
  BY DEF Page!Activated, Page!tab
<1> HIDE DEF k
<1>3. new \in PairingType /\ new.reply = reply /\ new.attempt = p.attempt
  BY <1>1 DEF PairingType
<1> HIDE DEF new
<1>4. /\ codes' \in [Codes -> OfAttempts \cup {None}]
      /\ \A j \in Codes : codes'[j] = codes[j] \/ (codes'[j] = p.attempt)
  BY <1>1, <1>2 DEF PageInv, PageTypeOK, PairingType
<1>5. pairings' \subseteq PairingType
  BY <1>2, <1>3 DEF PageInv, PageTypeOK
<1>6. PairingInv'
  <2>1. ~overlapped' => \A q \in pairings' :
            q.attempt = record' \/ (record' = None /\ q.attempt \in given' \cup applied')
    BY <1>2, <1>3 DEF PageInv, PairingInv
  <2>2. \A q \in pairings' : q.reply = "refused" => q.attempt \in given'
    BY <1>2, <1>3 DEF PageInv, PairingInv
  <2>3. Page!PairingRecoverable'
    BY <1>2, <1>4 DEF Page!PairingRecoverable, PageInv, PairingInv
  <2> QED BY <2>1, <2>2, <2>3 DEF PairingInv
<1> QED BY <1>2, <1>4, <1>5, <1>6, OnlyPairing DEF PageInv, PageTypeOK

\* An answer is lost, or says that the attempt is over or unknown; or its time is over.
LEMMA PairingEnds ==
    ASSUME PageInv,
           \/ \E p \in pairings : Page!PairingLost(p) \/ Page!PairRefused(p) \/ Page!PairFailed(p)
           \/ Page!RecordExpires
    PROVE  PageInv'
<1>1. /\ UNCHANGED <<page, operation, flows, generating, sent, tried, codes, dead, providers,
                     backups, imports, applied, overlapped, spent>>
      /\ pairings' \subseteq pairings /\ record' \in {record, None}
  BY DEF Page!PairingLost, Page!PairRefused, Page!PairFailed, Page!RecordExpires, Page!tab,
         Page!bridge
<1>2. PairingInv'
  BY <1>1
     DEF Page!RecordExpires, PageInv, PairingInv, Page!PairingRecoverable, Page!PairRefused,
         Page!PairingLost, Page!PairFailed, Page!tab
<1> QED BY <1>1, <1>2, OnlyPairing DEF PageInv, PageTypeOK

LEMMA PairSucceededStep ==
    ASSUME PageInv, NEW p \in pairings, Page!PairSucceeded(p)
    PROVE  PageInv'
<1> DEFINE next == page.epoch + 1
           new == [kind |-> "refresh", epoch |-> next, session |-> p.attempt, stage |-> "state"]
<1>1. /\ pairings' = pairings \ {p}
      /\ page' = [Page!Loaded(Page!ProfileOf(p.attempt), next) EXCEPT
                     !.session = p.attempt, !.busy = next, !.refresh = next,
                     !.leaving = page.leaving]
      /\ operation' = IF operation = None THEN None ELSE [operation EXCEPT !.aborted = TRUE]
      /\ flows' = flows \cup {new}
      /\ record' = None /\ applied' = applied \cup {p.attempt}
      /\ UNCHANGED <<generating, sent, tried, codes, dead, providers, backups, imports, given,
                     overlapped, spent>>
  BY DEF Page!PairSucceeded, Page!Refreshing, Page!Aborted, Page!bridge
<1>2. /\ page \in PageType /\ p \in PairingType /\ page.epoch \in Nat
      /\ \A f \in flows : f.epoch \in Nat
  BY DEF PageInv, PageTypeOK, PageType, PageFlowType
<1>3. Page!ProfileOf(p.attempt) \in Configs
  BY <1>2, AttemptIs DEF PageInv, PairingType
<1>4. /\ page' \in PageType /\ page'.config = Page!ProfileOf(p.attempt)
      /\ page'.session = p.attempt /\ page'.epoch = next /\ page'.busy = next
      /\ page'.refresh = next /\ ~page'.ready /\ ~page'.opened
  <2>1. p.attempt \in OfAttempts /\ next \in Nat /\ page.leaving \in BOOLEAN
    BY <1>2 DEF PairingType, PageType
  <2>2. page' = [config |-> Page!ProfileOf(p.attempt), session |-> p.attempt, epoch |-> next,
                 ready |-> FALSE, opened |-> FALSE, busy |-> next, refresh |-> next,
                 leaving |-> page.leaving]
    BY <1>1 DEF Page!Loaded
  <2> HIDE DEF next
  <2> QED BY <1>3, <2>1, <2>2 DEF PageType
<1>5. new \in PageFlowType /\ new.epoch = next /\ new.session = p.attempt
  BY <1>2 DEF PageFlowType, PairingType
<1>6. /\ operation' \in {None} \cup OperationType
      /\ operation' # None =>
            /\ operation # None /\ operation'.aborted /\ operation'.id = operation.id
            /\ operation'.session = operation.session /\ operation'.stage = operation.stage
            /\ operation'.reply = operation.reply
  BY <1>1 DEF PageInv, PageTypeOK, OperationType
<1> HIDE DEF new
<1>7. PageTypeOK'
  BY <1>1, <1>4, <1>5, <1>6 DEF PageInv, PageTypeOK, PageType, OperationType, PageFlowType,
                                SentType,
                                PairingType, OfAttempts
<1>8. FlowsInv'
  <2>1. \A f \in flows : f.epoch <= page.epoch
    BY DEF PageInv, FlowsInv
  <2>2. \A f \in flows' : f.epoch = next => f = new
    BY <1>1, <1>2, <2>1
  <2>3. \A f \in flows' : f.epoch <= next
    BY <1>1, <1>2, <1>5, <2>1
  <2>4. new \in flows'
    BY <1>1
  <2> HIDE DEF next
  <2> QED BY <1>1, <1>4, <1>5, <2>2, <2>3, <2>4 DEF FlowsInv, Page!ProfileOf
<1>9. OperationInv' /\ ImportsInv'
  BY <1>1, <1>4, <1>6 DEF PageInv, OperationInv, ImportsInv, Page!ProfileOf
<1>10. PairingInv'
  BY <1>1 DEF PageInv, PairingInv, Page!PairingRecoverable
<1> QED BY <1>7, <1>8, <1>9, <1>10 DEF PageInv

LEMMA ReloadSteps ==
    ASSUME PageInv, Page!Reload \/ Page!RecoverPendingPairing
    PROVE  PageInv'
<1> DEFINE gone == {[p EXCEPT !.by = "gone"] : p \in {q \in pairings : q.reply = "none"}}
           asked == [attempt |-> record, by |-> "recover", reply |-> "none"]
<1>1. PICK config, more :
          /\ \/ record = None /\ config = None /\ more = {}
             \/ record # None /\ config = Page!ProfileOf(record) /\ more = {asked}
          /\ Page!Reloaded(config, more)
  BY DEF Page!Reload, Page!RecoverPendingPairing
<1>2. /\ page' = Page!Loaded(config, page.epoch + 1)
      /\ operation' = None /\ flows' = {} /\ generating' = {}
      /\ pairings' = gone \cup more
      /\ overlapped' = (overlapped \/ (more # {} /\ gone # {}))
      /\ Page!Spend("reloads", MaxReloads)
      /\ UNCHANGED <<record, sent, tried, codes, dead, providers, backups, imports, applied,
                     given>>
  BY <1>1 DEF Page!Reloaded, Page!bridge
<1>3. config \in Configs \cup {None}
  BY <1>1, AttemptIs DEF PageInv, PageTypeOK
<1>4. spent' \in SpentType /\ spent'.operations = spent.operations
  BY <1>2, SpendMoves DEF PageInv
<1>5. /\ page' \in PageType /\ page'.session = None /\ page'.busy = None /\ page'.refresh = None
      /\ ~page'.ready /\ ~page'.opened
  BY <1>2, <1>3 DEF PageInv, PageTypeOK, PageType, Page!Loaded
<1>6. \A q \in gone : /\ q \in PairingType /\ q.reply = "none"
                      /\ \E p \in pairings : q.attempt = p.attempt
  BY DEF PageInv, PageTypeOK, PairingType
<1>7. more \subseteq PairingType /\ \A q \in more : q = asked
  BY <1>1 DEF PageInv, PageTypeOK, PairingType
<1>8. PageTypeOK'
  <2>1. pairings' \subseteq PairingType
    BY <1>2, <1>6, <1>7
  <2> HIDE DEF gone
  <2> QED BY <1>2, <1>4, <1>5, <2>1
     DEF PageInv, PageTypeOK, PageType, OperationType, PageFlowType, SentType, PairingType,
         OfAttempts
<1>9. FlowsInv' /\ OperationInv' /\ ImportsInv'
  BY <1>2, <1>4, <1>5 DEF PageInv, FlowsInv, OperationInv, ImportsInv, Page!ProfileOf
<1>10. PairingInv'
  <2> HIDE DEF gone
  <2>1. ~overlapped' => \A q \in pairings' :
            q.attempt = record \/ (record = None /\ q.attempt \in given \cup applied)
    <3> SUFFICES ASSUME ~overlapped', NEW q \in pairings'
                 PROVE  q.attempt = record \/ (record = None /\ q.attempt \in given \cup applied)
      OBVIOUS
    <3>1. CASE q \in more
      BY <1>1, <1>7, <3>1
    <3>2. CASE q \in gone
      BY <1>2, <1>6, <3>2 DEF PageInv, PairingInv
    <3> QED BY <1>2, <3>1, <3>2
  <2>2. \A q \in pairings' : q.reply # "refused"
    BY <1>2, <1>6, <1>7
  <2>3. Page!PairingRecoverable'
    BY <1>2 DEF PageInv, PairingInv, Page!PairingRecoverable
  <2> QED BY <1>2, <2>1, <2>2, <2>3 DEF PairingInv
<1> QED BY <1>8, <1>9, <1>10 DEF PageInv

-----------------------------------------------------------------------------
(* Management of the profile *)

\* A step of a management flow leaves the rest as it is.
LEMMA OnlyFlows ==
    ASSUME PageInv, UNCHANGED <<operation, generating, record, pairings, sent, tried, codes,
                                providers, backups, imports, applied, given, overlapped>>,
           spent' \in SpentType, spent'.operations = spent.operations,
           page' \in PageType, flows' \subseteq PageFlowType, FlowsInv',
           page'.config = page.config, page'.session = page.session, page'.epoch = page.epoch,
           page'.ready = page.ready, page'.opened = page.opened
    PROVE  PageInv'
<1>1. PageTypeOK'
  BY DEF PageInv, PageTypeOK, PageType, OperationType, PageFlowType, SentType, PairingType,
         OfAttempts
<1> QED BY <1>1, OperationRests, ImportsRest, PairingRests DEF PageInv

LEMMA BeginFlowStep ==
    ASSUME PageInv, NEW kind \in {"refresh", "action", "delete", "trakt"}, Page!BeginFlow(kind)
    PROVE  PageInv'
<1> DEFINE new == [kind |-> kind, epoch |-> page.epoch, session |-> page.session,
                   stage |-> IF kind = "refresh" THEN "state" ELSE "call"]
<1>1. /\ page.session # None /\ page.busy = None
      /\ flows' = flows \cup {new}
      /\ page' = [page EXCEPT !.busy = page.epoch,
                              !.refresh = IF kind = "refresh" THEN page.epoch ELSE @]
      /\ Page!Spend("changes", MaxChanges)
      /\ UNCHANGED <<operation, generating, record, pairings, sent, tried, codes, providers,
                     backups, imports, applied, given, overlapped>>
  BY DEF Page!BeginFlow, Page!MayManage, Page!bridge
<1>2. page \in PageType /\ page.epoch \in Nat
  BY DEF PageInv, PageTypeOK, PageType
<1>3. /\ page' \in PageType /\ page'.busy = page.epoch
      /\ page'.refresh = IF kind = "refresh" THEN page.epoch ELSE page.refresh
      /\ page'.config = page.config /\ page'.session = page.session
      /\ page'.epoch = page.epoch /\ page'.ready = page.ready /\ page'.opened = page.opened
      /\ page'.leaving = page.leaving
  BY <1>1, <1>2 DEF PageType
<1>4. /\ new \in PageFlowType /\ new.kind = kind /\ new.epoch = page.epoch
      /\ new.session = page.session
  BY <1>1, <1>2 DEF PageFlowType, PageType
<1> HIDE DEF new
<1>5. \A f \in flows : f.epoch # page.epoch
  BY <1>1, <1>2, PageAssumption DEF PageInv, FlowsInv
<1>6. FlowsInv'
  BY <1>1, <1>5, <1>2, <1>4, <1>3 DEF PageInv, FlowsInv, Page!ProfileOf
<1>7. spent' \in SpentType /\ spent'.operations = spent.operations
  BY <1>1, SpendMoves DEF PageInv
<1>8. flows' \subseteq PageFlowType
  BY <1>1, <1>4 DEF PageInv, PageTypeOK
<1> QED BY <1>1, <1>3, <1>6, <1>7, <1>8, OnlyFlows

\* What a flow leaves behind: it frees the page that it keeps busy, and no other.
LEMMA SettledIs ==
    ASSUME PageInv, NEW f \in flows
    PROVE  /\ Page!Settled(f) \in PageType
           /\ LET new == Page!Settled(f)
              IN  /\ new.config = page.config /\ new.session = page.session
                  /\ new.epoch = page.epoch /\ new.ready = page.ready
                  /\ new.opened = page.opened /\ new.leaving = page.leaving
                  /\ f.epoch = page.epoch =>
                        new.busy = None /\ new.refresh \in {None, page.epoch}
                  /\ f.epoch # page.epoch =>
                        new.busy = page.busy /\ new.refresh = page.refresh
<1>1. /\ page \in PageType /\ f \in PageFlowType /\ page.epoch \in Nat /\ f.epoch \in Nat
  BY DEF PageInv, PageTypeOK, PageType, PageFlowType
<1>2. page.busy \in {None, page.epoch} /\ page.refresh \in {None, page.epoch}
  BY DEF PageInv, FlowsInv
<1>3. f.epoch = page.epoch => /\ page.busy = page.epoch /\ Page!IsCurrent(f)
                              /\ f.kind = "refresh" => page.refresh = page.epoch
  BY <1>1, PageAssumption DEF PageInv, FlowsInv, Page!IsCurrent, PageFlowType, OfAttempts
<1>4. Page!Freed(f) =
          IF page.busy \in {None, f.epoch} THEN [page EXCEPT !.busy = None] ELSE page
  BY DEF Page!Freed
<1>5. /\ Page!Freed(f) \in PageType
      /\ Page!Freed(f).config = page.config /\ Page!Freed(f).session = page.session
      /\ Page!Freed(f).epoch = page.epoch /\ Page!Freed(f).ready = page.ready
      /\ Page!Freed(f).opened = page.opened /\ Page!Freed(f).leaving = page.leaving
      /\ Page!Freed(f).refresh = page.refresh
      /\ Page!Freed(f).busy = IF page.busy = f.epoch THEN None ELSE page.busy
  BY <1>1, <1>2, <1>4 DEF PageType
<1> DEFINE freed == Page!Freed(f)
<1> HIDE DEF freed
<1>6. /\ [freed EXCEPT !.refresh = None] \in PageType
      /\ [freed EXCEPT !.refresh = None].refresh = None
      /\ [freed EXCEPT !.refresh = None].busy = freed.busy
      /\ [freed EXCEPT !.refresh = None].config = freed.config
      /\ [freed EXCEPT !.refresh = None].session = freed.session
      /\ [freed EXCEPT !.refresh = None].epoch = freed.epoch
      /\ [freed EXCEPT !.refresh = None].ready = freed.ready
      /\ [freed EXCEPT !.refresh = None].opened = freed.opened
      /\ [freed EXCEPT !.refresh = None].leaving = freed.leaving
  BY <1>5 DEF freed, PageType
<1>7. Page!Settled(f) =
          IF f.kind = "refresh"
          THEN IF page.refresh = f.epoch THEN [freed EXCEPT !.refresh = None] ELSE page
          ELSE IF f.kind = "delete" /\ ~Page!IsCurrent(f) THEN page ELSE freed
  BY DEF Page!Settled, freed
<1>8. CASE f.epoch = page.epoch
  BY <1>1, <1>2, <1>3, <1>5, <1>6, <1>7, <1>8 DEF freed
<1>9. CASE f.epoch # page.epoch
  BY <1>1, <1>2, <1>9, PageAssumption, <1>5, <1>7 DEF freed
<1> QED BY <1>8, <1>9

\* The end of a flow that leaves the page to the others.
LEMMA FlowSettles ==
    ASSUME PageInv, NEW f \in flows, flows' = flows \ {f}, page' = Page!Settled(f),
           UNCHANGED <<operation, generating, record, pairings, sent, tried, codes, providers,
                       backups, imports, applied, given, overlapped, spent>>
    PROVE  PageInv'
<1>1. /\ page' \in PageType
      /\ page'.config = page.config /\ page'.session = page.session /\ page'.epoch = page.epoch
      /\ page'.ready = page.ready /\ page'.opened = page.opened /\ page'.leaving = page.leaving
      /\ f.epoch = page.epoch => page'.busy = None /\ page'.refresh \in {None, page.epoch}
      /\ f.epoch # page.epoch => page'.busy = page.busy /\ page'.refresh = page.refresh
  BY SettledIs
<1>2. FlowsInv'
  BY <1>1 DEF Page!ProfileOf, PageInv, FlowsInv
<1> QED BY <1>1, <1>2, OnlyFlows DEF PageInv, PageTypeOK

\* The end of a flow, and of the page's authority with it.
LEMMA AuthorityFlow ==
    ASSUME PageInv, NEW config \in Configs \cup {None}, Page!AuthorityEnds(config),
           flows' \subseteq flows,
           UNCHANGED <<generating, record, pairings, sent, tried, codes, providers, backups,
                       imports, applied, given, overlapped, spent>>
    PROVE  PageInv'
BY AuthorityGone, PairingRests
   DEF PageInv, PageTypeOK, PageType, OperationType, PageFlowType, SentType, PairingType, OfAttempts

LEMMA PageFlowSteps ==
    ASSUME PageInv, NEW f \in flows,
           \/ Page!FlowFails(f) \/ Page!FlowDenied(f) \/ Page!FlowEnds(f) \/ Page!ActionDone(f)
           \/ Page!TraktLaunched(f) \/ Page!ProfileDeleted(f)
    PROVE  PageInv'
<1>1. CASE Page!FlowFails(f) \/ Page!FlowEnds(f)
  BY <1>1, FlowSettles DEF Page!FlowFails, Page!FlowEnds, Page!bridge
<1>2. page.config \in Configs \cup {None}
  BY DEF PageInv, PageTypeOK, PageType
<1>3. CASE Page!FlowDenied(f)
  BY <1>2, <1>3, AuthorityFlow, FlowSettles DEF Page!FlowDenied, Page!bridge
<1>4. CASE Page!ProfileDeleted(f)
  BY <1>4, AuthorityFlow DEF Page!ProfileDeleted
<1>5. CASE Page!ActionDone(f)
  <2> DEFINE new == [f EXCEPT !.stage = "state"]
  <2>1. flows' = (flows \ {f}) \cup {new}
    BY <1>5 DEF Page!ActionDone
  <2>2. /\ new \in PageFlowType /\ new.kind = f.kind /\ new.epoch = f.epoch
        /\ new.session = f.session
    BY DEF PageInv, PageTypeOK, PageFlowType
  <2> HIDE DEF new
  <2>3. UNCHANGED <<page, operation, generating, record, pairings, sent, tried, codes, providers,
                    backups, imports, applied, given, overlapped, spent>>
    BY <1>5 DEF Page!ActionDone, Page!bridge
  <2>4. FlowsInv'
    BY <2>1, <2>2, <2>3 DEF PageInv, FlowsInv, Page!ProfileOf
  <2> QED BY <2>1, <2>2, <2>3, <2>4, OnlyFlows DEF PageInv, PageTypeOK
<1>6. CASE Page!TraktLaunched(f)
  BY <1>6, OnlyFlows
     DEF Page!TraktLaunched, Page!bridge, PageInv, PageTypeOK, PageType, FlowsInv, Page!ProfileOf
<1> QED BY <1>1, <1>3, <1>4, <1>5, <1>6

\* A session ends, or the page opens the install link.
LEMMA OtherSteps ==
    ASSUME PageInv, (\E n \in 1..Len(tried) : Page!SessionDies(n)) \/ Page!InstallConfigured
    PROVE  PageInv'
<1>1. CASE \E n \in 1..Len(tried) : Page!SessionDies(n)
  BY <1>1, SpendMoves, FlowsRest, OnlyFlows DEF Page!SessionDies, Page!tab, PageInv, PageTypeOK
<1>2. CASE Page!InstallConfigured
  <2>1. /\ page.ready /\ page' = [page EXCEPT !.opened = TRUE]
        /\ UNCHANGED <<operation, flows, generating, record, pairings, sent, tried, codes,
                       providers, backups, imports, applied, given, overlapped, spent>>
    BY <1>2 DEF Page!InstallConfigured, Page!bridge
  <2>2. /\ page' \in PageType /\ page'.config = page.config /\ page'.session = page.session
        /\ page'.epoch = page.epoch /\ page'.ready
        /\ page'.busy = page.busy /\ page'.refresh = page.refresh
        /\ page'.leaving = page.leaving
    BY <2>1 DEF PageInv, PageTypeOK, PageType
  <2>3. PageTypeOK'
    BY <2>1, <2>2 DEF PageInv, PageTypeOK, PageType, OperationType, PageFlowType, SentType,
                      PairingType, OfAttempts
  <2>4. ImportsInv'
    BY <2>1, <2>2 DEF PageInv, ImportsInv, Page!ProfileOf
  <2> QED BY <2>1, <2>2, <2>3, <2>4, FlowsRest, OperationRests, PairingRests DEF PageInv
<1> QED BY <1>1, <1>2

-----------------------------------------------------------------------------
(* Provider operations *)

\* A step of a provider operation leaves the rest as it is.
LEMMA OnlyOperation ==
    ASSUME PageInv, UNCHANGED <<flows, generating, record, pairings, tried, codes, applied, given,
                                overlapped>>,
           spent' \in SpentType, page' \in PageType, operation' \in {None} \cup OperationType,
           sent' \subseteq SentType, providers' \in [Configs -> Nat],
           page'.config = page.config, page'.session = page.session, page'.epoch = page.epoch,
           page'.busy = page.busy, page'.refresh = page.refresh, page'.leaving = page.leaving,
           OperationInv', ImportsInv'
    PROVE  PageInv'
BY FlowsRest, PairingRests
   DEF PageInv, PageTypeOK, PageType, OperationType, PageFlowType, SentType, PairingType, OfAttempts

LEMMA BeginOperationStep ==
    ASSUME PageInv, NEW stage \in Stages \ {"put"}, Page!BeginOperation(stage)
    PROVE  PageInv'
<1> DEFINE new == [id |-> spent.operations + 1, epoch |-> page.epoch, session |-> page.session,
                   aborted |-> FALSE, reply |-> "none", revision |-> None, backup |-> FALSE,
                   stage |-> stage]
           call == [operation |-> new.id, what |-> stage, session |-> page.session,
                    revision |-> None]
<1>1. /\ page.session # None /\ operation = None /\ operation' = new
      /\ sent' = IF stage \in Page!Calls THEN sent \cup {call} ELSE sent
      /\ Page!Spend("operations", MaxOperations)
      /\ UNCHANGED <<page, flows, generating, record, pairings, tried, codes, dead, providers,
                     backups, imports, applied, given, overlapped>>
  BY DEF Page!BeginOperation, Page!MayOperate, Page!Call, Page!bridge
<1>2. /\ spent' \in SpentType /\ spent'.operations = spent.operations + 1
      /\ spent.operations \in Nat
  BY <1>1, SpendMoves DEF PageInv, PageTypeOK, SpentType
<1>3. page \in PageType /\ page.session \in OfAttempts /\ page.epoch \in Nat
  BY <1>1 DEF PageInv, PageTypeOK, PageType
<1>4. /\ new \in OperationType /\ new.id = spent.operations + 1 /\ new.epoch = page.epoch
      /\ new.session = page.session /\ new.reply = "none"
  BY <1>2, <1>3 DEF OperationType
<1>5. /\ call.operation = spent.operations + 1 /\ call.session = page.session /\ call.what # "put"
      /\ stage \in Page!Calls => call \in SentType
  BY <1>2, <1>3 DEF SentType
<1> HIDE DEF new, call
<1>6. \A old \in sent : old \in SentType /\ old.operation \in Nat /\ old.operation <= spent.operations
  BY DEF PageInv, PageTypeOK, SentType, ImportsInv
<1>7. sent' \subseteq SentType
  BY <1>1, <1>5, <1>6
<1>8. OperationInv'
  BY <1>1, <1>4 DEF OperationInv
<1>9. ImportsInv'
  BY <1>1, <1>2, <1>4, <1>6, <1>5 DEF Page!ProfileOf, PageInv, ImportsInv
<1> QED BY <1>1, <1>2, <1>3, <1>4, <1>7, <1>8, <1>9, OnlyOperation DEF PageInv, PageTypeOK

\* An import is asked for only by an operation that was answered its backup.
LEMMA AdvanceStep ==
    ASSUME PageInv, NEW from, NEW to \in Stages, to = "put" => from = "backup",
           Page!AdvancesTo(from, to)
    PROVE  PageInv'
<1> DEFINE new == [operation EXCEPT !.stage = to, !.reply = "none"]
           call == [operation |-> new.id, what |-> new.stage, session |-> new.session,
                    revision |-> new.revision]
<1>1. /\ operation # None /\ operation.stage = from
      /\ from \in Page!Calls => operation.reply = "ok"
      /\ operation' = new
      /\ sent' = IF to \in Page!Calls THEN sent \cup {call} ELSE sent
      /\ UNCHANGED <<page, flows, generating, record, pairings, tried, codes, dead, providers,
                     backups, imports, applied, given, overlapped, spent>>
  BY DEF Page!AdvancesTo, Page!OperationIsCurrent, Page!Proceed, Page!Call, Page!bridge
<1>2. operation \in OperationType
  BY <1>1 DEF PageInv, PageTypeOK
<1>3. /\ new \in OperationType /\ new.id = operation.id /\ new.epoch = operation.epoch
      /\ new.session = operation.session /\ new.aborted = operation.aborted
      /\ new.revision = operation.revision /\ new.reply = "none" /\ new.stage = to
  BY <1>2 DEF OperationType
<1>4. /\ call.operation = operation.id /\ call.session = operation.session /\ call.what = to
      /\ to \in Page!Calls => call \in SentType
  BY <1>2, <1>3 DEF OperationType, SentType
<1> HIDE DEF new, call
<1>5. sent' \subseteq SentType
  BY <1>1, <1>4 DEF PageInv, PageTypeOK
<1>6. OperationInv'
  BY <1>1, <1>3 DEF PageInv, OperationInv
<1>7. ImportsInv'
  BY <1>1, <1>4, <1>3 DEF Page!ProfileOf, PageInv, ImportsInv, Page!Calls
<1> QED BY <1>1, <1>3, <1>5, <1>6, <1>7, OnlyOperation DEF PageInv, PageTypeOK

LEMMA OperationSteps ==
    ASSUME PageInv,
           \/ Page!ConnectStremio \/ Page!PreviewManual
           \/ Page!LinkCreated \/ Page!Approved \/ Page!CollectionRead \/ Page!Previewed
           \/ Page!Confirmed \/ Page!RevisionRead \/ Page!BackedUp \/ Page!Imported
           \/ Page!OperationDenied \/ Page!CancelOperation \/ Page!OperationEnds
    PROVE  PageInv'
<1>1. CASE Page!ConnectStremio \/ Page!PreviewManual
  BY <1>1, BeginOperationStep
  DEF Page!ConnectStremio, Page!PreviewManual, Stages, Page!Calls
<1>2. CASE \/ Page!LinkCreated \/ Page!Approved \/ Page!CollectionRead \/ Page!Previewed
           \/ Page!Confirmed \/ Page!RevisionRead \/ Page!BackedUp
  <2>1. PICK from, to : /\ Page!AdvancesTo(from, to) /\ to \in Stages
                        /\ to = "put" => from = "backup"
    BY <1>2
    DEF Page!LinkCreated, Page!Approved, Page!CollectionRead, Page!Previewed, Page!Confirmed,
        Page!RevisionRead, Page!BackedUp, Stages, Page!Calls
  <2> QED BY <2>1, AdvanceStep
<1>3. CASE Page!Imported
  <2>1. /\ operation # None /\ ~operation.aborted /\ operation.session = page.session
        /\ operation.stage = "put" /\ operation.reply = "ok" /\ page.session # None
        /\ page' = [page EXCEPT !.ready = TRUE, !.opened = FALSE] /\ operation' = None
        /\ UNCHANGED <<flows, generating, record, pairings, sent, tried, codes, dead, providers,
                       backups, imports, applied, given, overlapped, spent>>
    BY <1>3 DEF Page!Imported, Page!OperationIsCurrent, Page!IsCurrent, Page!bridge
  <2>2. /\ page' \in PageType /\ page'.config = page.config /\ page'.session = page.session
        /\ page'.epoch = page.epoch /\ page'.busy = page.busy /\ page'.refresh = page.refresh
        /\ page'.leaving = page.leaving /\ ~page'.opened
    BY <2>1 DEF PageInv, PageTypeOK, PageType
  <2>3. \E i \in imports : i.config = page.config /\ i.session = page.session
    BY <2>1 DEF PageInv, FlowsInv, ImportsInv
  <2>4. OperationInv'
    BY <2>1 DEF OperationInv
  <2>5. ImportsInv'
    BY <2>1, <2>2, <2>3 DEF PageInv, ImportsInv, Page!ProfileOf
  <2> QED BY <2>1, <2>2, <2>4, <2>5, OnlyOperation DEF PageInv, PageTypeOK
<1>4. CASE Page!OperationDenied
  BY <1>4, AuthorityFlow DEF PageInv, PageTypeOK, PageType, Page!OperationDenied, Page!bridge
<1>5. CASE Page!CancelOperation \/ Page!OperationEnds
  <2>1. /\ operation # None
        /\ operation' = None \/ operation' = [operation EXCEPT !.aborted = TRUE]
        /\ UNCHANGED <<page, flows, generating, record, pairings, sent, tried, codes, dead,
                       providers, backups, imports, applied, given, overlapped, spent>>
    BY <1>5 DEF Page!CancelOperation, Page!OperationEnds, Page!bridge
  <2>2. /\ operation' \in {None} \cup OperationType
        /\ operation' # None =>
              /\ operation'.aborted /\ operation'.id = operation.id
              /\ operation'.session = operation.session /\ operation'.stage = operation.stage
              /\ operation'.reply = operation.reply
    BY <2>1 DEF PageInv, PageTypeOK, OperationType
  <2>3. OperationInv' /\ ImportsInv'
    BY <2>1, <2>2 DEF PageInv, OperationInv, ImportsInv, Page!ProfileOf
  <2> QED BY <2>1, <2>2, <2>3, OnlyOperation DEF PageInv, PageTypeOK
<1> QED BY <1>1, <1>2, <1>3, <1>4, <1>5

\* The Bridge handles a call: what it answers to the operation is so.
LEMMA HandledStep ==
    ASSUME PageInv, NEW call \in sent, NEW reply \in {"ok", "denied", "stale"},
           NEW revision \in Nat \cup {None}, Page!Handled(call, reply, revision),
           providers' \in [Configs -> Nat], backups \subseteq backups', imports \subseteq imports',
           \A i \in imports' : [operation |-> i.operation, config |-> i.config] \in backups',
           reply = "ok" /\ call.what = "backup" =>
               [operation |-> call.operation, config |-> Page!ProfileOf(call.session)] \in backups',
           reply = "ok" /\ call.what = "put" =>
               \E i \in imports' : /\ i.config = Page!ProfileOf(call.session)
                                   /\ i.session = call.session
    PROVE  PageInv'
<1> DEFINE new == [operation EXCEPT !.reply = reply,
                       !.revision = IF call.what = "revision" THEN revision ELSE @]
<1>1. /\ sent' = sent \ {call}
      /\ operation' = IF /\ operation # None /\ operation.id = call.operation
                         /\ operation.stage = call.what
                      THEN new ELSE operation
      /\ UNCHANGED <<page, flows, generating, record, pairings, tried, codes, dead, applied, given,
                     overlapped, spent>>
  BY DEF Page!Handled, Page!Reply
<1>2. operation # None =>
          /\ new \in OperationType /\ new.id = operation.id /\ new.epoch = operation.epoch
          /\ new.session = operation.session /\ new.aborted = operation.aborted
          /\ new.stage = operation.stage /\ new.reply = reply
  BY DEF PageInv, PageTypeOK, OperationType
<1> HIDE DEF new
<1>3. /\ operation' \in {None} \cup OperationType
      /\ operation' # None =>
            /\ operation # None /\ operation'.id = operation.id
            /\ operation'.epoch = operation.epoch /\ operation'.session = operation.session
            /\ operation'.aborted = operation.aborted /\ operation'.stage = operation.stage
            /\ \/ operation'.reply = operation.reply
               \/ /\ operation'.reply = reply /\ operation.id = call.operation
                  /\ operation.stage = call.what /\ call.session = operation.session
  BY <1>1, <1>2 DEF PageInv, PageTypeOK, ImportsInv
<1>4. sent' \subseteq SentType
  BY <1>1 DEF PageInv, PageTypeOK
<1>5. OperationInv'
  BY <1>1, <1>3 DEF PageInv, OperationInv
<1>6. ImportsInv'
  <2>1. \A n : Page!ProfileOf(n)' = Page!ProfileOf(n)
    BY <1>1 DEF Page!ProfileOf
  <2>2. page.ready => \E i \in imports' : i.config = page.config /\ i.session = page.session
    BY DEF PageInv, ImportsInv
  <2>3. ASSUME NEW one \in sent'
        PROVE  /\ one.operation <= spent.operations
               /\ operation' # None /\ operation'.id = one.operation =>
                     one.session = operation'.session
               /\ one.what = "put" =>
                     [operation |-> one.operation, config |-> Page!ProfileOf(one.session)]
                         \in backups'
    BY <1>1, <1>3 DEF PageInv, ImportsInv
  <2>4. ASSUME operation' # None, operation'.stage = "backup", operation'.reply = "ok"
        PROVE  [operation |-> operation'.id, config |-> Page!ProfileOf(operation'.session)]
                   \in backups'
    BY <1>3, <2>4 DEF PageInv, ImportsInv
  <2>5. ASSUME operation' # None, operation'.stage = "put", operation'.reply = "ok"
        PROVE  \E i \in imports' : /\ i.config = Page!ProfileOf(operation'.session)
                                   /\ i.session = operation'.session
    BY <1>3, <2>5 DEF PageInv, ImportsInv
  <2>6. operation' # None => operation'.id <= spent.operations
    BY <1>3 DEF PageInv, ImportsInv
  <2>7. page.opened => page.ready
    BY DEF PageInv, ImportsInv
  <2> QED BY <1>1, <2>1, <2>2, <2>3, <2>4, <2>5, <2>6, <2>7 DEF ImportsInv
<1> QED BY <1>1, <1>3, <1>4, <1>5, <1>6, OnlyOperation DEF PageInv, PageTypeOK

LEMMA CallSteps ==
    ASSUME PageInv, NEW call \in sent,
           \/ Page!CallDenied(call) \/ Page!ProvidersRead(call) \/ Page!BackupKept(call)
           \/ Page!ImportWritten(call) \/ Page!ImportStale(call)
    PROVE  PageInv'
<1> DEFINE c == Page!ProfileOf(call.session)
<1>1. /\ c \in Configs /\ providers \in [Configs -> Nat] /\ providers[c] \in Nat
      /\ call.what \in Page!Calls
  BY AttemptIs DEF PageInv, PageTypeOK, SentType
<1>2. \A i \in imports : [operation |-> i.operation, config |-> i.config] \in backups
  BY DEF PageInv, ImportsInv
<1>3. CASE Page!CallDenied(call)
  BY <1>1, <1>2, <1>3, HandledStep DEF Page!CallDenied
<1>4. CASE Page!ImportStale(call)
  BY <1>1, <1>2, <1>4, HandledStep DEF Page!ImportStale
<1>5. CASE Page!ProvidersRead(call)
  BY <1>1, <1>2, <1>5, HandledStep DEF Page!ProvidersRead
<1>6. CASE Page!BackupKept(call)
  BY <1>1, <1>2, <1>6, HandledStep DEF Page!BackupKept
<1>7. CASE Page!ImportWritten(call)
  <2> DEFINE i == [operation |-> call.operation, config |-> c, session |-> call.session]
  <2>1. /\ call.what = "put" /\ providers' = [providers EXCEPT ![c] = @ + 1]
        /\ imports' = imports \cup {i} /\ backups' = backups
        /\ Page!Handled(call, "ok", None)
    BY <1>7 DEF Page!ImportWritten
  <2>2. [operation |-> i.operation, config |-> i.config] \in backups
    BY <2>1 DEF PageInv, ImportsInv
  <2>3. i.config = c /\ i.session = call.session
    OBVIOUS
  <2>4. providers' \in [Configs -> Nat]
    BY <1>1, <2>1
  <2> HIDE DEF i
  <2> QED BY <1>2, <2>1, <2>2, <2>3, <2>4, HandledStep
<1> QED BY <1>3, <1>4, <1>5, <1>6, <1>7

-----------------------------------------------------------------------------
LEMMA PageNext == PageInv /\ Page!Next => PageInv'
<1> SUFFICES ASSUME PageInv, Page!Next PROVE PageInv'
  OBVIOUS
<1>1. ASSUME NEW c \in Configs,
             \/ Page!Generate(c) \/ Page!ShowResult(c) \/ Page!GenerateFails(c)
             \/ Page!ChangedElsewhere(c)
      PROVE  PageInv'
  BY <1>1, GenerateSteps
<1>2. ASSUME NEW p \in pairings,
             \/ \E reply \in {"ok", "refused", "failed"} : Page!Activated(p, reply)
             \/ Page!PairingLost(p) \/ Page!PairSucceeded(p) \/ Page!PairRefused(p)
             \/ Page!PairFailed(p)
      PROVE  PageInv'
  BY <1>2, ActivatedStep, PairingEnds, PairSucceededStep
<1>3. CASE Page!RefreshAgain \/ Page!RunAction \/ Page!DeleteProfile \/ Page!ConnectTrakt
  BY <1>3, BeginFlowStep
  DEF Page!RefreshAgain, Page!RunAction, Page!DeleteProfile, Page!ConnectTrakt
<1> QED
  BY <1>1, <1>2, <1>3, PairAgainStep, PairAnewStep, PairingEnds, ReloadSteps, PageFlowSteps,
     OtherSteps,
     OperationSteps, CallSteps
  DEF Page!Next

LEMMA PageRest == PageInv /\ UNCHANGED PageVars => PageInv'
<1> SUFFICES ASSUME PageInv, UNCHANGED PageVars PROVE PageInv'
  OBVIOUS
<1>1. UNCHANGED <<page, operation, flows, generating, record, pairings, sent, tried, codes, dead,
                  providers, backups, imports, applied, given, overlapped, spent>>
  BY DEF PageVars
<1>2. PageTypeOK'
  BY <1>1 DEF PageInv, PageTypeOK, PageType, OperationType, PageFlowType, SentType, PairingType,
              SpentType, OfAttempts
<1> QED BY <1>1, <1>2, FlowsRest, OperationRests, ImportsRest, PairingRests DEF PageInv

LEMMA OneAuthorityHolds == PageInv => Page!OneAuthority
<1> SUFFICES ASSUME PageInv PROVE Page!OneAuthority
  OBVIOUS
<1> DEFINE current == {f \in flows : Page!IsCurrent(f)}
<1>1. \A n \in OfAttempts : n # None
  BY PageAssumption DEF PageInv, PageTypeOK, OfAttempts
<1>2. \A f \in flows : Page!IsCurrent(f) <=> f.epoch = page.epoch
  BY <1>1 DEF PageInv, PageTypeOK, PageFlowType, FlowsInv, Page!IsCurrent
<1>3. operation # None /\ ~operation.aborted => Page!IsCurrent(operation)
  BY <1>1 DEF PageInv, PageTypeOK, OperationType, OperationInv, Page!IsCurrent
<1>4. Page!Cardinality(current) <= 1
  <2>1. \A S : Page!Cardinality(S) = Cardinality(S)
    BY DEF Page!Cardinality, Cardinality
  <2>2. \A f, g \in current : f = g
    BY <1>2 DEF PageInv, FlowsInv
  <2> HIDE DEF current
  <2>3. CASE current = {}
    BY <2>1, <2>3, FS_EmptySet
  <2>4. CASE current # {}
    BY <2>4, <2>2, FS_Singleton, <2>1
  <2> QED BY <2>3, <2>4
<1>5. page.busy # None => page.leaving \/ \E f \in current : f.epoch = page.busy
  BY <1>2 DEF PageInv, FlowsInv
<1>6. current # {} => page.busy = page.epoch
  BY <1>2 DEF PageInv, FlowsInv
<1> HIDE DEF current
<1>7. page.session # None => Page!ProfileOf(page.session) = page.config
  BY DEF PageInv, FlowsInv
<1> QED BY <1>3, <1>4, <1>5, <1>6, <1>7 DEF Page!OneAuthority, current

-----------------------------------------------------------------------------
(***************************************************************************)
(* The rollout of an image to a fleet.                                     *)
(*                                                                         *)
(* What the exit of a rollout says stands because a call that was given up *)
(* is either still to be undone, and then the rollback is not over, or it  *)
(* names an instance that is no longer there (FlyingOK).  What somebody    *)
(* else deployed is kept because a machine enters the journal only under   *)
(* its lease and with the instance that was first seen (WorldOK).  Another *)
(* machine serves because nothing but the machine at hand is changed since *)
(* the look at its peers.                                                  *)
(*                                                                         *)
(* The invariant is a property of the cloud c, the leases l, the calls f   *)
(* that were given up, the run r and the machines t of others, so that a   *)
(* call and where it leads are two steps of the proof: the call lands      *)
(* while the run waits, then the run goes on or is thrown back.            *)
(***************************************************************************)
Before == {"preflight", "clean", "recheck", "begin"}
AtMachine == {"inspect", "update", "await", "adjust"}
Closing == {"locate", "adopt", "verify", "remove", "confirm", "release"}
OnlyForward == {"create", "warm", "next", "peer", "lease", "attest"}
RolloutSteps == Before \cup AtMachine \cup Closing \cup OnlyForward \cup {"restore"}

VmType ==
    [state : {"absent", "started"} \cup Rollout!NonRunning,
     image : {None, "old", "new", "other"},
     cordoned : BOOLEAN, healthy : BOOLEAN, instance : Nat]
PlanStepType == {"cordon", "uncordon", "start", "stop", "recreate"}
RolloutRunType ==
    [id : Nat, pc : RolloutSteps \cup {"idle", "ended", "dead"}, mode : {"forward", "back"},
     snapshot : {<< >>} \cup [Machines -> VmType], done : SUBSET Machines,
     journal : Seq(Machines), left : Seq(Machines), sessions : SUBSET Rollout!Ids,
     canary : {"none", "intended", "unknown", "tracked", "serving", "gone"},
     machine : Machines \cup {None}, version : Nat, plan : Seq(PlanStepType),
     failed : SUBSET Machines, calm : BOOLEAN,
     outcome : {"none", "refused", "failed", "reverted", "passed", "emergency"}]

Active(r) == r.pc \in RolloutSteps
Journal(r) == {r.journal[i] : i \in DOMAIN r.journal}
Left(r) == {r.left[i] : i \in DOMAIN r.left}
CanaryOf(r) == Canaries[r.id]

\* It promises something of the fleet: at its end, or about to be.
Settled(r) ==
    r.pc = "release" \/ (r.pc = "ended" /\ r.outcome \notin {"refused", "emergency"})
Goal(r, m) ==
    IF r.mode = "forward" /\ r.outcome # "failed" THEN Rollout!TargetOf(r.snapshot[m])
    ELSE r.snapshot[m]

\* Where the run is, and what it has done by then.
EarlyOK(r) ==
    /\ r.pc \in Before \cup {"idle"} \/ (r.pc = "ended" /\ r.outcome = "refused") =>
          r.mode = "forward" /\ r.canary = "none" /\ r.journal = << >> /\ ~r.calm
    /\ r.pc = "preflight" => r.snapshot = << >>
    /\ r.pc \in RolloutSteps \ {"preflight"} => r.snapshot \in [Machines -> VmType]
    /\ r.pc # "idle" => r.id \in DOMAIN Canaries /\ r.id # 0
    /\ Active(r) => r.outcome = "none"
    /\ r.pc = "ended" => r.outcome # "none"

CanaryOK(r) ==
    /\ r.pc = "create" => r.canary = "intended"
    /\ r.pc = "locate" => r.canary = "unknown"
    /\ r.canary = "unknown" =>
          \/ r.pc \in {"locate", "dead"}
          \/ r.pc \in AtMachine \cup {"restore"} /\ r.mode = "back"
          \/ r.pc = "ended" /\ r.outcome = "emergency"

MachineOK(r) ==
    /\ r.pc \in {"peer", "lease"} \cup AtMachine => r.machine \in Machines
    /\ r.pc \in {"update", "await", "adjust"} => r.machine \in Journal(r)
    /\ r.pc = "peer" \/ (r.mode = "forward" /\ r.calm) =>
          \A m \in Machines \ r.done :
              r.snapshot[m].image # "new" => r.snapshot[m].state \notin Rollout!NonRunning

BackOK(r) ==
    /\ r.pc \in OnlyForward => r.mode = "forward"
    /\ r.pc = "restore" => r.mode = "back"
    /\ Left(r) \subseteq Journal(r)
    /\ r.mode = "back" /\ r.pc \in AtMachine =>
          r.left # << >> /\ r.machine = r.left[Len(r.left)]
    /\ r.mode = "back" /\ r.pc \in Closing => r.left = << >>
    /\ r.mode = "back" /\ r.pc \in {"remove", "confirm", "release"} => r.failed = {}
    /\ r.pc = "ended" /\ r.outcome \notin {"refused", "emergency"} =>
          /\ r.mode = "back" => r.failed = {} /\ r.left = << >>
          /\ r.outcome = "passed" <=> r.mode = "forward" /\ r.outcome # "failed"

RunOK(r) ==
    /\ r \in RolloutRunType
    /\ EarlyOK(r) /\ CanaryOK(r) /\ MachineOK(r) /\ BackOK(r)

\* A call that was given up: a create of a canary that is not there, and not
\* known; an update of a machine of the journal, which the rollback has still to
\* restore, or whose instance is a later one.
CreateOK(c, r, call) ==
    /\ call = [op |-> "create", machine |-> CanaryOf(r)]
    /\ r.canary = "unknown"
    /\ c[CanaryOf(r)].state = "absent"

UpdateOK(c, r, call) ==
    /\ call.op = "update"
    /\ call.machine \in Journal(r)
    /\ call.version \in Nat /\ call.version <= c[call.machine].instance
    /\ call.image \in {None, "old", "new", "other"} /\ call.launch \in BOOLEAN
    /\ r.mode = "back"
    /\ \/ r.failed # {}
       \/ call.machine \in Left(r)
       \/ call.version < c[call.machine].instance
    /\ r.failed = {} /\ r.pc \in {"await", "adjust"} /\ call.machine = r.machine =>
          call.version < c[call.machine].instance

FlyingOK(c, f, r) == \A call \in f : CreateOK(c, r, call) \/ UpdateOK(c, r, call)

NoCanaries(c) == \A i \in Rollout!Ids \ Machines : c[i].state = "absent"

CloudOK(c, l, t) ==
    /\ c \in [Rollout!Ids -> VmType]
    /\ l \in [Rollout!Ids -> Nat]
    /\ t \subseteq Machines
    /\ \A m \in Machines : c[m].state # "absent"

\* The machines of the journal are leased.
LeasesOK(l, r) ==
    /\ Active(r) => \A m \in Journal(r) : m \in r.sessions /\ l[m] = r.id
    /\ r.pc = "inspect" => r.machine \in r.sessions /\ l[r.machine] = r.id
    /\ r.pc = "ended" /\ r.outcome \notin {"refused", "emergency"} =>
          \A m \in r.sessions : l[m] # r.id

\* What others changed is not in the journal; what is neither is as it was seen.
OthersOK(c, r, t) ==
    /\ \A m \in t : /\ c[m].image = "other" /\ m \notin Journal(r)
                    /\ r.snapshot # << >> /\ r.snapshot[m].instance < c[m].instance
    /\ r.snapshot # << >> =>
          \A m \in Machines :
              /\ r.snapshot[m].instance <= c[m].instance
              /\ m \notin t /\ m \notin Journal(r) => Rollout!Same(c[m], r.snapshot[m])

FleetOK(c, r, t) ==
    /\ Settled(r) =>
          NoCanaries(c) /\ \A m \in Machines \ t : Rollout!Same(c[m], Goal(r, m))
    /\ r.pc \in RolloutSteps \ {"preflight", "clean", "recheck"}
         /\ r.canary \in {"none", "intended"} => NoCanaries(c)
    /\ r.mode = "back" /\ r.pc = "remove" =>
          \A m \in Machines \ t : /\ Rollout!Same(c[m], r.snapshot[m])
                                  /\ c[m].state = "started" => c[m].healthy

\* Another machine serves.
PeerOK(c, r) ==
    /\ r.mode = "forward" /\ r.calm /\ r.pc \in {"lease"} \cup AtMachine =>
          \E p \in Rollout!Ids \ {r.machine} : Rollout!Serving(c[p])
    /\ r.pc = "update" => r.version <= c[r.machine].instance

WorldOK(c, l, r, t) ==
    /\ CloudOK(c, l, t) /\ LeasesOK(l, r) /\ OthersOK(c, r, t) /\ FleetOK(c, r, t)
    /\ PeerOK(c, r)

Stands(c, l, f, r, t) == RunOK(r) /\ FlyingOK(c, f, r) /\ WorldOK(c, l, r, t)

RolloutInv == Stands(cloud, lease, flying, run, touched)

-----------------------------------------------------------------------------
LEMMA ShorterLeft ==
    ASSUME NEW s \in Seq(Machines), s # << >>
    PROVE  /\ SubSeq(s, 1, Len(s) - 1) \in Seq(Machines)
           /\ \A i \in DOMAIN SubSeq(s, 1, Len(s) - 1) :
                 i \in DOMAIN s /\ SubSeq(s, 1, Len(s) - 1)[i] = s[i]
           /\ \A i \in DOMAIN s :
                 i = Len(s) \/ (i \in DOMAIN SubSeq(s, 1, Len(s) - 1)
                                /\ SubSeq(s, 1, Len(s) - 1)[i] = s[i])
           /\ Len(s) \in DOMAIN s
BY EmptySeq, ElementOfSeq, IsASeq

LEMMA LongerJournal ==
    ASSUME NEW s \in Seq(Machines), NEW m \in Machines
    PROVE  /\ Append(s, m) \in Seq(Machines)
           /\ {Append(s, m)[i] : i \in DOMAIN Append(s, m)} = {s[i] : i \in DOMAIN s} \cup {m}
BY AppendProperties

\* The shape of a run that stands.
LEMMA RunTypes ==
    ASSUME NEW r, RunOK(r)
    PROVE  /\ r \in RolloutRunType
           /\ Journal(r) \subseteq Machines /\ Left(r) \subseteq Machines
           /\ r.pc # "idle" => CanaryOf(r) \in Rollout!Ids \ Machines
           /\ (r.journal = << >> <=> Journal(r) = {}) /\ (r.left = << >> <=> Left(r) = {})
<1>1. r \in RolloutRunType
  BY DEF RunOK
<1>2. r.journal \in Seq(Machines) /\ r.left \in Seq(Machines)
  BY <1>1 DEF RolloutRunType
<1>3. Journal(r) \subseteq Machines /\ Left(r) \subseteq Machines
  BY <1>2, ElementOfSeq DEF Journal, Left
<1>4. r.pc # "idle" => CanaryOf(r) \in Rollout!Ids \ Machines
  BY RolloutAssumption DEF RunOK, EarlyOK, CanaryOf, Rollout!Ids
<1>5. (r.journal = << >> <=> Journal(r) = {}) /\ (r.left = << >> <=> Left(r) = {})
  <2>1. ASSUME NEW s \in Seq(Machines)
        PROVE  s = << >> <=> {s[i] : i \in DOMAIN s} = {}
    <3>1. Len(s) \in Nat /\ DOMAIN s = 1..Len(s) /\ (s = << >> <=> Len(s) = 0)
      BY EmptySeq
    <3>2. Len(s) # 0 => Len(s) \in DOMAIN s
      BY <3>1
    <3>3. Len(s) = 0 => DOMAIN s = {}
      BY <3>1
    <3> QED BY <3>1, <3>2, <3>3
  <2> QED BY <1>2, <2>1 DEF Journal, Left
<1> QED BY <1>1, <1>3, <1>4, <1>5

\* A run goes on, and its books are the same.
SameBooks(r, r2) ==
    /\ r2.id = r.id /\ r2.mode = r.mode /\ r2.snapshot = r.snapshot
    /\ r2.journal = r.journal /\ r2.left = r.left /\ r2.failed = r.failed
    /\ r2.outcome = r.outcome /\ r.sessions \subseteq r2.sessions

LEMMA GoesOn ==
    ASSUME NEW c, NEW l, NEW f, NEW r, NEW t, NEW r2,
           Stands(c, l, f, r, t), Active(r), Active(r2), RunOK(r2), SameBooks(r, r2),
           r.canary = "unknown" => r2.canary = "unknown" \/ c[CanaryOf(r)].state # "absent",
           r2.mode = "back" /\ r2.failed = {} /\ r2.pc \in {"await", "adjust"} =>
               \A call \in f : call.op = "update" /\ call.machine = r2.machine =>
                                   call.version < c[call.machine].instance,
           r2.pc = "inspect" => r2.machine \in r2.sessions /\ l[r2.machine] = r.id,
           r2.pc = "release" =>
               NoCanaries(c) /\ \A m \in Machines \ t : Rollout!Same(c[m], Goal(r2, m)),
           r2.canary \in {"none", "intended"} /\ r2.pc \notin {"preflight", "clean", "recheck"} =>
               NoCanaries(c),
           r2.mode = "back" /\ r2.pc = "remove" =>
               \A m \in Machines \ t : /\ Rollout!Same(c[m], r.snapshot[m])
                                       /\ c[m].state = "started" => c[m].healthy,
           PeerOK(c, r2)
    PROVE  Stands(c, l, f, r2, t)
<1>1. Journal(r2) = Journal(r) /\ Left(r2) = Left(r) /\ CanaryOf(r2) = CanaryOf(r)
  BY DEF SameBooks, Journal, Left, CanaryOf
<1>2. FlyingOK(c, f, r2)
  BY <1>1 DEF FlyingOK, CreateOK, UpdateOK, SameBooks, Stands
<1>3. r2.pc # "ended" /\ (Settled(r2) <=> r2.pc = "release")
  BY DEF Active, RolloutSteps, Before, AtMachine, Closing, OnlyForward, Settled
<1>4. LeasesOK(l, r2)
  BY <1>1, <1>3 DEF Stands, WorldOK, LeasesOK, SameBooks
<1>5. OthersOK(c, r2, t)
  BY <1>1 DEF Stands, WorldOK, OthersOK, SameBooks
<1>6. FleetOK(c, r2, t)
  BY <1>3 DEF FleetOK, SameBooks
<1> QED BY <1>2, <1>4, <1>5, <1>6 DEF Stands, WorldOK

\* A failed call leads to a state that stands, wherever it happens.
LEMMA Emergency ==
    ASSUME NEW c, NEW l, NEW f, NEW r, NEW t, Stands(c, l, f, r, t), Active(r)
    PROVE  Stands(c, l, f, Rollout!Ended(r, "emergency"), t)
<1> DEFINE r2 == Rollout!Ended(r, "emergency")
<1>1. /\ r2 \in RolloutRunType /\ r2.pc = "ended" /\ r2.outcome = "emergency"
      /\ r2.id = r.id /\ r2.mode = r.mode /\ r2.snapshot = r.snapshot /\ r2.done = r.done
      /\ r2.journal = r.journal /\ r2.left = r.left /\ r2.failed = r.failed
      /\ r2.sessions = r.sessions /\ r2.canary = r.canary /\ r2.calm = r.calm
      /\ r2.machine = r.machine
  BY DEF Stands, RunOK, RolloutRunType, Rollout!Ended
<1>2. r.pc # "idle" /\ r.pc # "ended" /\ r.pc # "dead"
  BY DEF Active, RolloutSteps, Before, AtMachine, Closing, OnlyForward
<1> HIDE DEF r2
<1>3. Journal(r2) = Journal(r) /\ Left(r2) = Left(r) /\ CanaryOf(r2) = CanaryOf(r)
  BY <1>1 DEF Journal, Left, CanaryOf
<1>4. ~Active(r2) /\ ~Settled(r2)
  BY <1>1 DEF Active, Settled, RolloutSteps, Before, AtMachine, Closing, OnlyForward
<1>5. RunOK(r2)
  <2>1. EarlyOK(r2)
    BY <1>1, <1>2, <1>4 DEF EarlyOK, Stands, RunOK, RolloutSteps, Before, AtMachine, Closing,
                            OnlyForward
  <2>2. CanaryOK(r2)
    BY <1>1 DEF CanaryOK
  <2>3. MachineOK(r2)
    BY <1>1 DEF MachineOK, AtMachine, Stands, RunOK
  <2>4. BackOK(r2)
    BY <1>1, <1>3 DEF BackOK, AtMachine, Closing, OnlyForward, Stands, RunOK
  <2> QED BY <1>1, <2>1, <2>2, <2>3, <2>4 DEF RunOK
<1>6. FlyingOK(c, f, r2)
  BY <1>1, <1>3 DEF FlyingOK, CreateOK, UpdateOK, Stands
<1>7. LeasesOK(l, r2)
  BY <1>1, <1>4 DEF LeasesOK
<1>8. OthersOK(c, r2, t)
  BY <1>1, <1>3 DEF Stands, WorldOK, OthersOK
<1>9. FleetOK(c, r2, t)
  BY <1>1, <1>4 DEF FleetOK, RolloutSteps, Before, AtMachine, Closing, OnlyForward
<1>10. PeerOK(c, r2)
  BY <1>1 DEF PeerOK, AtMachine
<1>11. Stands(c, l, f, r2, t)
  BY <1>5, <1>6, <1>7, <1>8, <1>9, <1>10 DEF Stands, WorldOK
<1> QED BY <1>11 DEF r2

\* Before the transaction there is nothing to undo.
LEMMA Refused ==
    ASSUME NEW c, NEW l, NEW f, NEW r, NEW t, Stands(c, l, f, r, t), r.pc \in Before
    PROVE  Stands(c, l, f, Rollout!Ended(r, "refused"), t)
<1> DEFINE r2 == Rollout!Ended(r, "refused")
<1>1. /\ r2 \in RolloutRunType /\ r2.pc = "ended" /\ r2.outcome = "refused"
      /\ r2.id = r.id /\ r2.mode = r.mode /\ r2.snapshot = r.snapshot /\ r2.done = r.done
      /\ r2.journal = r.journal /\ r2.left = r.left /\ r2.failed = r.failed
      /\ r2.sessions = r.sessions /\ r2.canary = r.canary /\ r2.calm = r.calm
      /\ r2.machine = r.machine
  BY DEF Stands, RunOK, RolloutRunType, Rollout!Ended
<1>2. /\ r.mode = "forward" /\ r.canary = "none" /\ r.journal = << >> /\ ~r.calm
      /\ r.id \in DOMAIN Canaries /\ r.id # 0
  BY DEF Stands, RunOK, EarlyOK, Before
<1> HIDE DEF r2
<1>3. Journal(r2) = Journal(r) /\ Left(r2) = Left(r) /\ CanaryOf(r2) = CanaryOf(r)
  BY <1>1 DEF Journal, Left, CanaryOf
<1>4. ~Active(r2) /\ ~Settled(r2)
  BY <1>1 DEF Active, Settled, RolloutSteps, Before, AtMachine, Closing, OnlyForward
<1>5. RunOK(r2)
  <2>1. EarlyOK(r2)
    BY <1>1, <1>2, <1>4 DEF EarlyOK, RolloutSteps, Before, AtMachine, Closing, OnlyForward
  <2>2. CanaryOK(r2) /\ MachineOK(r2)
    BY <1>1, <1>2 DEF CanaryOK, MachineOK, AtMachine
  <2>3. BackOK(r2)
    BY <1>1, <1>3 DEF BackOK, AtMachine, Closing, OnlyForward, Stands, RunOK
  <2> QED BY <1>1, <2>1, <2>2, <2>3 DEF RunOK
<1>6. FlyingOK(c, f, r2)
  BY <1>2 DEF Stands, FlyingOK, CreateOK, UpdateOK
<1>7. WorldOK(c, l, r2, t)
  <2>1. LeasesOK(l, r2)
    BY <1>1, <1>4 DEF LeasesOK
  <2>2. OthersOK(c, r2, t)
    BY <1>1, <1>3 DEF Stands, WorldOK, OthersOK
  <2>3. FleetOK(c, r2, t) /\ PeerOK(c, r2)
    BY <1>1, <1>4
    DEF FleetOK, PeerOK, RolloutSteps, Before, AtMachine, Closing, OnlyForward
  <2> QED BY <2>1, <2>2, <2>3 DEF Stands, WorldOK
<1>8. Stands(c, l, f, r2, t)
  BY <1>5, <1>6, <1>7 DEF Stands
<1> QED BY <1>8 DEF r2

\* In the transaction: nothing has been done yet, or the rollback begins.
LEMMA GoesBack ==
    ASSUME NEW c, NEW l, NEW f, NEW r, NEW t, Stands(c, l, f, r, t), Active(r),
           r.mode = "forward", r.pc \notin Before
    PROVE  Stands(c, l, f, Rollout!RolledBack(r), t)
<1>1. r \in RolloutRunType /\ r.snapshot \in [Machines -> VmType] /\ r.outcome = "none"
      /\ r.id \in DOMAIN Canaries /\ r.id # 0 /\ r.snapshot \in {<< >>} \cup [Machines -> VmType]
  BY DEF Stands, RunOK, EarlyOK, RolloutSteps, Before, AtMachine, Closing, OnlyForward, Active
<1>2. CASE r.sessions = {} /\ r.journal = << >> /\ r.canary = "none"
  <2> DEFINE r2 == Rollout!Ended(r, "failed")
  <2>1. /\ r2 \in RolloutRunType /\ r2.pc = "ended" /\ r2.outcome = "failed"
        /\ r2.id = r.id /\ r2.mode = r.mode /\ r2.snapshot = r.snapshot /\ r2.done = r.done
        /\ r2.journal = r.journal /\ r2.left = r.left /\ r2.failed = r.failed
        /\ r2.sessions = r.sessions /\ r2.canary = r.canary /\ r2.calm = r.calm
        /\ r2.machine = r.machine
    BY <1>1 DEF RolloutRunType, Rollout!Ended
  <2> HIDE DEF r2
  <2>2. Journal(r2) = Journal(r) /\ Left(r2) = Left(r) /\ CanaryOf(r2) = CanaryOf(r)
    BY <2>1 DEF Journal, Left, CanaryOf
  <2>3. ~Active(r2)
    BY <2>1 DEF Active, RolloutSteps, Before, AtMachine, Closing, OnlyForward
  <2>4. EarlyOK(r2)
    BY <1>1, <2>1, <2>3 DEF EarlyOK, RolloutSteps, Before, AtMachine, Closing, OnlyForward
  <2>5. CanaryOK(r2) /\ MachineOK(r2)
    BY <1>2, <2>1 DEF CanaryOK, MachineOK, AtMachine, Stands, RunOK
  <2>6. BackOK(r2)
    BY <2>1, <2>2 DEF BackOK, AtMachine, Closing, OnlyForward, Stands, RunOK
  <2>7. FlyingOK(c, f, r2)
    BY <1>2 DEF Stands, FlyingOK, CreateOK, UpdateOK
  <2>8. LeasesOK(l, r2) /\ PeerOK(c, r2)
    BY <1>2, <2>1, <2>3 DEF LeasesOK, PeerOK, AtMachine
  <2>9. OthersOK(c, r2, t)
    BY <2>1, <2>2 DEF Stands, WorldOK, OthersOK
  <2>10. Journal(r) = {}
    BY <1>2, RunTypes DEF Stands
  <2>11. FleetOK(c, r2, t)
    <3>1. NoCanaries(c)
      BY <1>2 DEF Stands, WorldOK, FleetOK, Active, Before
    <3>2. r.snapshot # << >> \/ Machines = {}
      BY <1>1
    <3>3. \A m \in Machines \ t : Rollout!Same(c[m], r.snapshot[m])
      BY <2>10, <3>2 DEF Stands, WorldOK, OthersOK
    <3>4. \A m \in Machines : Goal(r2, m) = r.snapshot[m]
      BY <2>1 DEF Goal
    <3> QED BY <2>1, <3>1, <3>3, <3>4
            DEF FleetOK, RolloutSteps, Before, AtMachine, Closing, OnlyForward
  <2>12. Stands(c, l, f, r2, t)
    BY <2>1, <2>4, <2>5, <2>6, <2>7, <2>8, <2>9, <2>11 DEF Stands, RunOK, WorldOK
  <2> QED BY <1>2, <2>12 DEF r2, Rollout!RolledBack
<1>3. CASE ~(r.sessions = {} /\ r.journal = << >> /\ r.canary = "none")
  <2> DEFINE r2 == [r EXCEPT !.mode = "back", !.pc = "restore", !.left = r.journal]
  <2>1. /\ r2 \in RolloutRunType /\ r2.pc = "restore" /\ r2.outcome = r.outcome
        /\ r2.id = r.id /\ r2.mode = "back" /\ r2.snapshot = r.snapshot /\ r2.done = r.done
        /\ r2.journal = r.journal /\ r2.left = r.journal /\ r2.failed = r.failed
        /\ r2.sessions = r.sessions /\ r2.canary = r.canary /\ r2.calm = r.calm
        /\ r2.machine = r.machine
    BY <1>1 DEF RolloutRunType, RolloutSteps
  <2> HIDE DEF r2
  <2>2. Journal(r2) = Journal(r) /\ Left(r2) = Journal(r) /\ CanaryOf(r2) = CanaryOf(r)
    BY <2>1 DEF Journal, Left, CanaryOf
  <2>3. Active(r2) /\ ~Settled(r2)
    BY <2>1 DEF Active, Settled, RolloutSteps, Before, AtMachine, Closing, OnlyForward
  <2>4. EarlyOK(r2)
    BY <1>1, <2>1 DEF EarlyOK, RolloutSteps, Before, AtMachine, Closing, OnlyForward
  <2>5. CanaryOK(r2) /\ MachineOK(r2)
    BY <2>1 DEF CanaryOK, MachineOK, AtMachine
  <2>6. BackOK(r2)
    BY <2>1, <2>2 DEF BackOK, AtMachine, Closing, OnlyForward
  <2>7. FlyingOK(c, f, r2)
    BY <2>1, <2>2 DEF FlyingOK, Stands, UpdateOK, CreateOK
  <2>8. LeasesOK(l, r2) /\ PeerOK(c, r2)
    BY <2>1, <2>2 DEF LeasesOK, PeerOK, AtMachine, Stands, WorldOK
  <2>9. OthersOK(c, r2, t)
    BY <2>1, <2>2 DEF Stands, WorldOK, OthersOK
  <2>10. FleetOK(c, r2, t)
    BY <2>1, <2>3 DEF Stands, WorldOK, FleetOK, Active, Before
  <2>11. Stands(c, l, f, r2, t)
    BY <2>1, <2>4, <2>5, <2>6, <2>7, <2>8, <2>9, <2>10 DEF Stands, RunOK, WorldOK
  <2> QED BY <1>3, <2>11 DEF r2, Rollout!RolledBack
<1> QED BY <1>2, <1>3

\* The rollback of a machine ends, done or failed.
LEMMA NextLeft ==
    ASSUME NEW c, NEW l, NEW f, NEW r, NEW t, NEW r2, Stands(c, l, f, r, t),
           r.mode = "back", r.pc \in AtMachine,
           \/ r2 = [Rollout!Tail1(r) EXCEPT !.failed = @ \cup {r.machine}]
           \/ /\ r2 = Rollout!Tail1(r) /\ r.pc \in {"await", "adjust"}
    PROVE  Stands(c, l, f, r2, t)
<1> DEFINE left == SubSeq(r.left, 1, Len(r.left) - 1)
<1>1. /\ r \in RolloutRunType /\ r.left \in Seq(Machines) /\ r.left # << >>
      /\ r.machine = r.left[Len(r.left)] /\ Left(r) \subseteq Journal(r)
      /\ r.snapshot \in [Machines -> VmType] /\ r.outcome = "none"
      /\ r.id \in DOMAIN Canaries /\ r.id # 0
  BY DEF Stands, RunOK, EarlyOK, BackOK, RolloutRunType, RolloutSteps, Before, AtMachine, Closing,
         OnlyForward, Active
<1>2. left \in Seq(Machines)
  BY <1>1, ShorterLeft
<1>3. /\ \A i \in DOMAIN left : i \in DOMAIN r.left /\ left[i] = r.left[i]
      /\ \A i \in DOMAIN r.left : i = Len(r.left) \/ (i \in DOMAIN left /\ left[i] = r.left[i])
  BY <1>1, ShorterLeft
<1> HIDE DEF left
<1>4. /\ r2 \in RolloutRunType /\ r2.pc = "restore" /\ r2.outcome = r.outcome
      /\ r2.id = r.id /\ r2.mode = "back" /\ r2.snapshot = r.snapshot /\ r2.done = r.done
      /\ r2.journal = r.journal /\ r2.left = left /\ (r.failed # {} => r2.failed # {})
      /\ r2.sessions = r.sessions /\ r2.canary = r.canary /\ r2.calm = r.calm
      /\ r2.machine = r.machine /\ (r2.failed # {} \/ r.pc \in {"await", "adjust"})
  <2> DEFINE r1 == Rollout!Tail1(r)
  <2>1. r1 = [r EXCEPT !.pc = "restore", !.left = left]
    BY DEF Rollout!Tail1, left
  <2>2. r1 \in RolloutRunType /\ r1.pc = "restore" /\ r1.left = left
    BY <1>1, <1>2, <2>1 DEF RolloutRunType, RolloutSteps
  <2>3. /\ r1.outcome = r.outcome /\ r1.id = r.id /\ r1.mode = "back"
        /\ r1.snapshot = r.snapshot /\ r1.done = r.done /\ r1.journal = r.journal
        /\ r1.failed = r.failed /\ r1.sessions = r.sessions /\ r1.canary = r.canary
        /\ r1.calm = r.calm /\ r1.machine = r.machine
    BY <1>1, <2>1 DEF RolloutRunType
  <2>4. r2 = [r1 EXCEPT !.failed = @ \cup {r.machine}] \/ (r2 = r1 /\ r.pc \in {"await", "adjust"})
    OBVIOUS
  <2> HIDE DEF r1
  <2>5. CASE r2 = r1 /\ r.pc \in {"await", "adjust"}
    BY <1>1, <2>2, <2>3, <2>5
  <2>6. CASE r2 = [r1 EXCEPT !.failed = @ \cup {r.machine}]
    <3>1. r2 \in RolloutRunType /\ r2.failed # {}
      <4>1. r.machine \in Machines /\ r1.failed \cup {r.machine} \subseteq Machines
        BY <1>1, <2>2 DEF RolloutRunType
      <4> QED BY <2>2, <2>6, <4>1 DEF RolloutRunType
    <3>2. /\ r2.pc = r1.pc /\ r2.left = r1.left /\ r2.outcome = r1.outcome /\ r2.id = r1.id
          /\ r2.mode = r1.mode /\ r2.snapshot = r1.snapshot /\ r2.done = r1.done
      BY <2>2, <2>6 DEF RolloutRunType
    <3>3. /\ r2.journal = r1.journal /\ r2.sessions = r1.sessions
          /\ r2.canary = r1.canary /\ r2.calm = r1.calm /\ r2.machine = r1.machine
      BY <2>2, <2>6 DEF RolloutRunType
    <3> QED BY <1>1, <2>2, <2>3, <3>1, <3>2, <3>3
  <2> QED BY <2>4, <2>5, <2>6
<1>5. /\ Journal(r2) = Journal(r) /\ Left(r2) \subseteq Left(r) /\ CanaryOf(r2) = CanaryOf(r)
      /\ \A m \in Left(r) : m = r.machine \/ m \in Left(r2)
  BY <1>1, <1>3, <1>4 DEF Journal, Left, CanaryOf
<1>6. Active(r2) /\ ~Settled(r2)
  BY <1>4 DEF Active, Settled, RolloutSteps, Before, AtMachine, Closing, OnlyForward
<1>7. RunOK(r2)
  <2>1. EarlyOK(r2)
    BY <1>1, <1>4 DEF EarlyOK, RolloutSteps, Before, AtMachine, Closing, OnlyForward
  <2>2. CanaryOK(r2) /\ MachineOK(r2)
    BY <1>4 DEF CanaryOK, MachineOK, AtMachine
  <2>3. BackOK(r2)
    BY <1>1, <1>4, <1>5 DEF BackOK, AtMachine, Closing, OnlyForward
  <2> QED BY <1>4, <2>1, <2>2, <2>3 DEF RunOK
<1>8. FlyingOK(c, f, r2)
  BY <1>4, <1>5 DEF FlyingOK, CreateOK, UpdateOK, Stands
<1>9. LeasesOK(l, r2) /\ PeerOK(c, r2)
  BY <1>4, <1>5 DEF LeasesOK, PeerOK, AtMachine, Stands, WorldOK, Active, RolloutSteps
<1>10. OthersOK(c, r2, t)
  BY <1>4, <1>5 DEF Stands, WorldOK, OthersOK
<1>11. FleetOK(c, r2, t)
  BY <1>4, <1>6
  DEF Stands, WorldOK, FleetOK, Active, Before, AtMachine, RolloutSteps
<1> QED BY <1>7, <1>8, <1>9, <1>10, <1>11 DEF Stands, WorldOK

\* Wherever a call fails, the run stands.
LEMMA ThrownStands ==
    ASSUME NEW c, NEW l, NEW f, NEW r, NEW t, Stands(c, l, f, r, t), Active(r)
    PROVE  Stands(c, l, f, Rollout!Thrown(r), t)
BY Refused, GoesBack, NextLeft, Emergency DEF Rollout!Thrown, Before, AtMachine

\* A call that is over.
LEMMA FlyingDrops ==
    ASSUME NEW c, NEW l, NEW f, NEW r, NEW t, Stands(c, l, f, r, t), NEW call
    PROVE  Stands(c, l, f \ {call}, r, t)
BY DEF Stands, FlyingOK

\* A machine of the journal is changed, the one at hand or one that is yet to be
\* restored.
LEMMA WriteStands ==
    ASSUME NEW c, NEW l, NEW f, NEW r, NEW t, Stands(c, l, f, r, t),
           NEW m \in Journal(r), NEW x \in VmType, x.state # "absent",
           c[m].instance <= x.instance,
           \/ r.mode = "forward" /\ r.pc \in {"update", "adjust"} /\ m = r.machine
           \/ r.mode = "back" /\ (r.failed # {} \/ r.left # << >>)
    PROVE  Stands([c EXCEPT ![m] = x], l, f, r, t)
<1> DEFINE cNew == [c EXCEPT ![m] = x]
<1>1. /\ r \in RolloutRunType /\ m \in Machines /\ Journal(r) \subseteq Machines
      /\ r.pc # "idle" => CanaryOf(r) \in Rollout!Ids \ Machines
  BY RunTypes DEF Stands
<1>2. c \in [Rollout!Ids -> VmType] /\ Machines \subseteq Rollout!Ids
  BY DEF Stands, WorldOK, CloudOK, Rollout!Ids
<1>3. /\ cNew \in [Rollout!Ids -> VmType]
      /\ \A i \in Rollout!Ids : i # m => cNew[i] = c[i]
      /\ cNew[m] = x /\ m \in Rollout!Ids
  BY <1>1, <1>2
<1>4. \A i \in Rollout!Ids : c[i].instance \in Nat /\ cNew[i].instance \in Nat
                             /\ c[i].instance <= cNew[i].instance
  BY <1>2, <1>3 DEF VmType
<1>5. r.pc \notin {"idle", "remove", "release"} /\ ~Settled(r)
  BY DEF Stands, RunOK, EarlyOK, BackOK, Before, Closing, Settled
<1> HIDE DEF cNew
<1>6. FlyingOK(cNew, f, r)
  BY <1>1, <1>3, <1>5, <1>2, <1>4 DEF FlyingOK, CreateOK, UpdateOK, Stands
<1>7. NoCanaries(c) => NoCanaries(cNew)
  BY <1>1, <1>3 DEF NoCanaries
<1>8. CloudOK(cNew, l, t)
  BY <1>2, <1>3 DEF Stands, WorldOK, CloudOK
<1>9. OthersOK(cNew, r, t)
  <2>1. \A n \in t : /\ cNew[n].image = "other" /\ n \notin Journal(r)
                     /\ r.snapshot # << >> /\ r.snapshot[n].instance < cNew[n].instance
    BY <1>2, <1>3 DEF Stands, WorldOK, CloudOK, OthersOK
  <2>2. ASSUME r.snapshot # << >>, NEW n \in Machines
        PROVE  /\ r.snapshot[n].instance <= cNew[n].instance
               /\ n \notin t /\ n \notin Journal(r) => Rollout!Same(cNew[n], r.snapshot[n])
    <3>1. r.snapshot[n].instance \in Nat /\ r.snapshot[n].instance <= c[n].instance
      BY <1>1, <2>2 DEF Stands, WorldOK, OthersOK, RolloutRunType, VmType
    <3>2. r.snapshot[n].instance <= cNew[n].instance
      BY <1>2, <1>4, <3>1
    <3> QED BY <1>2, <1>3, <2>2, <3>2 DEF Stands, WorldOK, OthersOK
  <2> QED BY <2>1, <2>2 DEF OthersOK
<1>10. FleetOK(cNew, r, t)
  BY <1>5, <1>7 DEF Stands, WorldOK, FleetOK
<1>11. PeerOK(cNew, r)
  <2>1. r.mode = "forward" /\ r.calm /\ r.pc \in {"lease"} \cup AtMachine =>
          \E p \in Rollout!Ids \ {r.machine} : Rollout!Serving(cNew[p])
    BY <1>3 DEF Stands, WorldOK, PeerOK
  <2>2. r.pc = "update" => r.version <= cNew[r.machine].instance
    BY <1>1, <1>2, <1>4 DEF Stands, RunOK, MachineOK, AtMachine, RolloutRunType, WorldOK, PeerOK
  <2> QED BY <2>1, <2>2 DEF PeerOK
<1>12. Stands(cNew, l, f, r, t)
  BY <1>6, <1>8, <1>9, <1>10, <1>11 DEF Stands, WorldOK
<1> QED BY <1>12 DEF cNew

\* The canary is made.
LEMMA CreateStands ==
    ASSUME NEW c, NEW l, NEW f, NEW r, NEW t, Stands(c, l, f, r, t),
           r.canary = "unknown", \A call \in f : ~CreateOK(c, r, call)
    PROVE  Stands([c EXCEPT ![CanaryOf(r)] = Rollout!NewCanary], l, f, r, t)
<1> DEFINE cNew == [c EXCEPT ![CanaryOf(r)] = Rollout!NewCanary]
<1>1. /\ r \in RolloutRunType /\ CanaryOf(r) \in Rollout!Ids \ Machines
      /\ Journal(r) \subseteq Machines
  BY RunTypes DEF Stands, RunOK, EarlyOK
<1>2. /\ c \in [Rollout!Ids -> VmType] /\ Machines \subseteq Rollout!Ids
      /\ Rollout!NewCanary \in VmType
  BY DEF Stands, WorldOK, CloudOK, Rollout!Ids, Rollout!NewCanary, VmType
<1>3. cNew \in [Rollout!Ids -> VmType] /\ \A m \in Machines : cNew[m] = c[m]
  BY <1>1, <1>2
<1>4. r.pc \in {"locate", "restore", "dead", "ended"} \cup AtMachine
      /\ (r.mode = "forward" => r.pc \notin {"lease"} \cup AtMachine) /\ ~Settled(r)
      /\ (r.pc = "update" => r.machine \in Machines)
  BY DEF Stands, RunOK, CanaryOK, MachineOK, AtMachine, Settled
<1> HIDE DEF cNew
<1>5. FlyingOK(cNew, f, r)
  BY <1>1, <1>3 DEF FlyingOK, Stands, UpdateOK
<1>6. WorldOK(cNew, l, r, t)
  BY <1>3, <1>4 DEF Stands, WorldOK, CloudOK, OthersOK, FleetOK, AtMachine, PeerOK
<1>7. Stands(cNew, l, f, r, t)
  BY <1>5, <1>6 DEF Stands
<1> QED BY <1>7 DEF cNew

\* A canary is destroyed, and its lease is gone.
LEMMA DestroyStands ==
    ASSUME NEW c, NEW l, NEW f, NEW r, NEW t, Stands(c, l, f, r, t),
           NEW i \in Rollout!Ids \ Machines, r.pc \in {"clean", "remove"}
    PROVE  Stands([c EXCEPT ![i] = Rollout!Absent], [l EXCEPT ![i] = 0], f, r, t)
<1> DEFINE cNew == [c EXCEPT ![i] = Rollout!Absent]
           l2 == [l EXCEPT ![i] = 0]
<1>1. /\ r \in RolloutRunType /\ Journal(r) \subseteq Machines
      /\ r.pc # "idle" => CanaryOf(r) \in Rollout!Ids \ Machines
  BY RunTypes DEF Stands
<1>2. /\ c \in [Rollout!Ids -> VmType] /\ l \in [Rollout!Ids -> Nat]
      /\ Machines \subseteq Rollout!Ids /\ Rollout!Absent \in VmType
      /\ Rollout!Absent.state = "absent"
  BY DEF Stands, WorldOK, CloudOK, Rollout!Ids, Rollout!Absent, VmType
<1>3. /\ cNew \in [Rollout!Ids -> VmType] /\ l2 \in [Rollout!Ids -> Nat]
      /\ \A m \in Machines : cNew[m] = c[m] /\ l2[m] = l[m]
      /\ \A n \in Rollout!Ids : c[n].state = "absent" => cNew[n].state = "absent"
  BY <1>1, <1>2
<1>4. NoCanaries(c) => NoCanaries(cNew)
  BY <1>3 DEF NoCanaries
<1> HIDE DEF cNew, l2
<1>5. FlyingOK(cNew, f, r)
  BY <1>1, <1>3 DEF FlyingOK, CreateOK, UpdateOK, Stands
<1>6. CloudOK(cNew, l2, t)
  BY <1>3 DEF Stands, WorldOK, CloudOK
<1>7. LeasesOK(l2, r)
  BY <1>1, <1>3 DEF Stands, WorldOK, LeasesOK
<1>8. OthersOK(cNew, r, t)
  BY <1>3 DEF Stands, WorldOK, CloudOK, OthersOK
<1>9. FleetOK(cNew, r, t)
  BY <1>3, <1>4 DEF Stands, WorldOK, FleetOK, Settled
<1>10. PeerOK(cNew, r)
  BY DEF PeerOK, AtMachine
<1>11. Stands(cNew, l2, f, r, t)
  BY <1>5, <1>6, <1>7, <1>8, <1>9, <1>10 DEF Stands, WorldOK
<1> QED BY <1>11 DEF cNew, l2

\* A machine passes its checks.
LEMMA WarmStands ==
    ASSUME NEW c, NEW l, NEW f, NEW r, NEW t, Stands(c, l, f, r, t),
           NEW i \in Rollout!Ids
    PROVE  Stands([c EXCEPT ![i].healthy = TRUE], l, f, r, t)
<1> DEFINE cNew == [c EXCEPT ![i].healthy = TRUE]
<1>1. /\ r \in RolloutRunType /\ Journal(r) \subseteq Machines
      /\ r.pc # "idle" => CanaryOf(r) \in Rollout!Ids \ Machines
  BY RunTypes DEF Stands
<1>2. c \in [Rollout!Ids -> VmType] /\ Machines \subseteq Rollout!Ids /\ t \subseteq Machines
  BY DEF Stands, WorldOK, CloudOK, Rollout!Ids
<1>3. /\ cNew \in [Rollout!Ids -> VmType]
      /\ \A n \in Rollout!Ids :
            /\ cNew[n].state = c[n].state /\ cNew[n].image = c[n].image
            /\ cNew[n].cordoned = c[n].cordoned /\ cNew[n].instance = c[n].instance
            /\ c[n].healthy => cNew[n].healthy
  BY <1>2 DEF VmType
<1> HIDE DEF cNew
<1>4. \A n \in Rollout!Ids : Rollout!Serving(c[n]) => Rollout!Serving(cNew[n])
  BY <1>3 DEF Rollout!Serving
<1>5. \A n \in Machines : \A x : Rollout!Same(c[n], x) => Rollout!Same(cNew[n], x)
  BY <1>2, <1>3 DEF Rollout!Same
<1>6. NoCanaries(c) => NoCanaries(cNew)
  BY <1>3 DEF NoCanaries
<1>7. FlyingOK(cNew, f, r)
  BY <1>1, <1>3, <1>2 DEF FlyingOK, CreateOK, Stands, RunOK, EarlyOK, UpdateOK
<1>8. CloudOK(cNew, l, t)
  BY <1>2, <1>3 DEF Stands, WorldOK, CloudOK
<1>9. OthersOK(cNew, r, t)
  BY <1>2, <1>3, <1>5 DEF Stands, WorldOK, OthersOK
<1>10. FleetOK(cNew, r, t)
  BY <1>2, <1>3, <1>5, <1>6 DEF Stands, WorldOK, FleetOK
<1>11. PeerOK(cNew, r)
  BY <1>2, <1>3, <1>4 DEF Stands, RunOK, MachineOK, AtMachine, WorldOK, PeerOK
<1>12. Stands(cNew, l, f, r, t)
  BY <1>7, <1>8, <1>9, <1>10, <1>11 DEF Stands, WorldOK
<1> QED BY <1>12 DEF cNew

\* A lease is granted to the rollout.
LEMMA LeaseStands ==
    ASSUME NEW c, NEW l, NEW f, NEW r, NEW t, Stands(c, l, f, r, t), Active(r),
           NEW i \in Rollout!Ids
    PROVE  Stands(c, [l EXCEPT ![i] = r.id], f, r, t)
<1>1. l \in [Rollout!Ids -> Nat] /\ r \in RolloutRunType /\ r.id \in Nat
  BY DEF Stands, WorldOK, CloudOK, RunOK, RolloutRunType
<1>2. CloudOK(c, [l EXCEPT ![i] = r.id], t)
  BY <1>1 DEF Stands, WorldOK, CloudOK
<1>3. Journal(r) \subseteq Machines /\ Machines \subseteq Rollout!Ids
  BY RunTypes DEF Stands, Rollout!Ids
<1>4. \A n \in Rollout!Ids : l[n] = r.id => [l EXCEPT ![i] = r.id][n] = r.id
  BY <1>1
<1>5. r.pc = "inspect" => r.machine \in Machines
  BY DEF Stands, RunOK, MachineOK, AtMachine
<1>6. r.pc # "ended"
  BY DEF Active, RolloutSteps, Before, AtMachine, Closing, OnlyForward
<1>7. LeasesOK([l EXCEPT ![i] = r.id], r)
  BY <1>3, <1>4, <1>5, <1>6 DEF Stands, WorldOK, LeasesOK
<1> QED BY <1>2, <1>7 DEF Stands, WorldOK

\* Leases that are not needed go.
LEMMA LeasesGo ==
    ASSUME NEW c, NEW l, NEW f, NEW r, NEW t, Stands(c, l, f, r, t),
           NEW l2 \in [Rollout!Ids -> Nat],
           \A i \in Rollout!Ids :
               l2[i] # l[i] => l2[i] = 0 /\ (Active(r) => ~(i \in r.sessions /\ l[i] = r.id))
    PROVE  Stands(c, l2, f, r, t)
<1>1. r \in RolloutRunType /\ Journal(r) \subseteq Machines /\ Machines \subseteq Rollout!Ids
      /\ r.sessions \subseteq Rollout!Ids
  BY RunTypes DEF Stands, Rollout!Ids, RolloutRunType
<1>2. CloudOK(c, l2, t)
  BY DEF Stands, WorldOK, CloudOK
<1>3. r.pc = "inspect" => r.machine \in Machines /\ Active(r)
  BY DEF Stands, RunOK, MachineOK, AtMachine, Active, RolloutSteps
<1>4. r.pc = "ended" => r.id # 0
  BY DEF Stands, RunOK, EarlyOK
<1>5. LeasesOK(l2, r)
  BY <1>1, <1>3, <1>4 DEF Stands, WorldOK, LeasesOK
<1> QED BY <1>2, <1>5 DEF Stands, WorldOK

\* Somebody else deploys to a machine that nobody has leased.
Meddled(x) == [x EXCEPT !.image = "other", !.instance = @ + 1, !.healthy = FALSE]

LEMMA TouchStands ==
    ASSUME NEW c, NEW l, NEW f, NEW r, NEW t, Stands(c, l, f, r, t), Active(r),
           r.snapshot # << >>, NEW m \in Machines, l[m] = 0
    PROVE  Stands([c EXCEPT ![m] = Meddled(c[m])], l, f, [r EXCEPT !.calm = FALSE], t \cup {m})
<1> DEFINE x == Meddled(c[m])
           cNew == [c EXCEPT ![m] = x]
           r2 == [r EXCEPT !.calm = FALSE]
           t2 == t \cup {m}
<1>1. /\ r \in RolloutRunType /\ Journal(r) \subseteq Machines
      /\ r.pc # "idle" => CanaryOf(r) \in Rollout!Ids \ Machines
  BY RunTypes DEF Stands
<1>2. c \in [Rollout!Ids -> VmType] /\ Machines \subseteq Rollout!Ids /\ t \subseteq Machines
  BY DEF Stands, WorldOK, CloudOK, Rollout!Ids
<1>3. /\ c[m] \in VmType /\ x \in VmType /\ x.state = c[m].state /\ x.image = "other"
      /\ c[m].instance \in Nat /\ x.instance = c[m].instance + 1
  <2>1. c[m] \in VmType /\ c[m].instance + 1 \in Nat
    BY <1>2 DEF VmType
  <2> QED BY <2>1 DEF VmType, Meddled
<1>5. /\ r2 \in RolloutRunType /\ r2.pc = r.pc /\ r2.mode = r.mode /\ r2.id = r.id
      /\ r2.snapshot = r.snapshot /\ r2.done = r.done /\ r2.journal = r.journal
      /\ r2.left = r.left /\ r2.sessions = r.sessions /\ r2.canary = r.canary
      /\ r2.machine = r.machine /\ r2.version = r.version /\ r2.failed = r.failed
      /\ ~r2.calm /\ r2.outcome = r.outcome
  BY <1>1 DEF RolloutRunType
<1> HIDE DEF x
<1>6. /\ cNew \in [Rollout!Ids -> VmType] /\ cNew[m] = x
      /\ \A i \in Rollout!Ids : i # m => cNew[i] = c[i]
  BY <1>2, <1>3
<1> HIDE DEF cNew, r2
<1>7. Journal(r2) = Journal(r) /\ Left(r2) = Left(r) /\ CanaryOf(r2) = CanaryOf(r)
  BY <1>5 DEF Journal, Left, CanaryOf
<1>8. m \notin Journal(r)
  BY DEF Stands, WorldOK, LeasesOK, RunOK, EarlyOK, Active, RolloutSteps, Before, AtMachine,
         Closing, OnlyForward
<1>9. RunOK(r2)
  BY <1>5, <1>7 DEF Stands, RunOK, EarlyOK, CanaryOK, Active, MachineOK, BackOK
<1>10. FlyingOK(cNew, f, r2)
  <2> SUFFICES ASSUME NEW call \in f PROVE CreateOK(cNew, r2, call) \/ UpdateOK(cNew, r2, call)
    BY DEF FlyingOK
  <2>1. CASE CreateOK(c, r, call)
    BY <1>1, <1>5, <1>6, <1>7, <2>1 DEF CreateOK, Stands, RunOK, EarlyOK
  <2>2. CASE UpdateOK(c, r, call)
    BY <1>1, <1>2, <1>8, <2>2, <1>6, <1>5, <1>7 DEF UpdateOK
  <2> QED BY <2>1, <2>2 DEF Stands, FlyingOK
<1>11. CloudOK(cNew, l, t2)
  BY <1>2, <1>3, <1>6 DEF Stands, WorldOK, CloudOK
<1>12. LeasesOK(l, r2)
  BY <1>5, <1>7 DEF Stands, WorldOK, LeasesOK, Active
<1>13. OthersOK(cNew, r2, t2)
  <2>1. r.snapshot[m].instance \in Nat /\ r.snapshot[m].instance <= c[m].instance
    BY <1>1 DEF Stands, WorldOK, OthersOK, RolloutRunType, VmType
  <2>2. r.snapshot[m].instance < x.instance /\ r.snapshot[m].instance <= x.instance
    BY <1>3, <2>1
  <2>3. \A n \in t2 : /\ cNew[n].image = "other" /\ n \notin Journal(r)
                      /\ r.snapshot # << >> /\ r.snapshot[n].instance < cNew[n].instance
    BY <1>2, <1>3, <1>6, <1>8, <2>2 DEF Stands, WorldOK, OthersOK
  <2>4. \A n \in Machines :
              /\ r.snapshot[n].instance <= cNew[n].instance
              /\ n \notin t2 /\ n \notin Journal(r) => Rollout!Same(cNew[n], r.snapshot[n])
    BY <1>2, <1>6, <2>2 DEF Stands, WorldOK, OthersOK
  <2> QED BY <1>5, <1>7, <2>3, <2>4 DEF OthersOK
<1>14. FleetOK(cNew, r2, t2)
  BY <1>6, <1>5, <1>2 DEF NoCanaries, Goal, Settled, Stands, WorldOK, FleetOK
<1>15. PeerOK(cNew, r2)
  BY <1>1, <1>2, <1>8, <1>5, <1>6 DEF Stands, RunOK, MachineOK, WorldOK, PeerOK
<1>16. Stands(cNew, l, f, r2, t2)
  BY <1>9, <1>10, <1>11, <1>12, <1>13, <1>14, <1>15 DEF Stands, WorldOK
<1> QED BY <1>16 DEF cNew, r2, t2, x

\* The rollout dies.
LEMMA DeadStands ==
    ASSUME NEW c, NEW l, NEW f, NEW r, NEW t, Stands(c, l, f, r, t), Active(r)
    PROVE  Stands(c, l, f, [r EXCEPT !.pc = "dead"], t)
<1> DEFINE r2 == [r EXCEPT !.pc = "dead"]
<1>1. /\ r2 \in RolloutRunType /\ r2.pc = "dead" /\ r2.mode = r.mode /\ r2.id = r.id
      /\ r2.snapshot = r.snapshot /\ r2.done = r.done /\ r2.journal = r.journal
      /\ r2.left = r.left /\ r2.sessions = r.sessions /\ r2.canary = r.canary
      /\ r2.machine = r.machine /\ r2.version = r.version /\ r2.failed = r.failed
      /\ r2.calm = r.calm /\ r2.outcome = r.outcome
  BY DEF Stands, RunOK, RolloutRunType
<1>2. r.pc # "idle"
  BY DEF Active, RolloutSteps, Before, AtMachine, Closing, OnlyForward
<1> HIDE DEF r2
<1>3. Journal(r2) = Journal(r) /\ Left(r2) = Left(r) /\ CanaryOf(r2) = CanaryOf(r)
  BY <1>1 DEF Journal, Left, CanaryOf
<1>4. ~Active(r2) /\ ~Settled(r2) /\ r2.pc \notin RolloutSteps
  BY <1>1 DEF Active, Settled, RolloutSteps, Before, AtMachine, Closing, OnlyForward
<1>5. EarlyOK(r2)
  BY <1>1, <1>2, <1>4 DEF EarlyOK, Stands, RunOK, Before
<1>6. CanaryOK(r2) /\ MachineOK(r2)
  BY <1>1 DEF CanaryOK, MachineOK, AtMachine, Stands, RunOK
<1>7. BackOK(r2)
  BY <1>1, <1>3 DEF BackOK, AtMachine, Closing, OnlyForward, Stands, RunOK
<1>8. FlyingOK(c, f, r2)
  BY <1>1, <1>3 DEF FlyingOK, CreateOK, UpdateOK, Stands
<1>9. LeasesOK(l, r2) /\ FleetOK(c, r2, t) /\ PeerOK(c, r2)
  BY <1>1, <1>4 DEF LeasesOK, FleetOK, PeerOK, AtMachine
<1>10. OthersOK(c, r2, t)
  BY <1>1, <1>3 DEF Stands, WorldOK, OthersOK
<1>11. Stands(c, l, f, r2, t)
  BY <1>1, <1>5, <1>6, <1>7, <1>8, <1>9, <1>10 DEF Stands, RunOK, WorldOK
<1> QED BY <1>11 DEF r2

\* The next rollout begins with nothing.
LEMMA FreshStands ==
    ASSUME NEW c, NEW l, CloudOK(c, l, {}), NEW pc \in {"idle", "preflight"},
           NEW id \in Nat, pc = "preflight" => id \in DOMAIN Canaries /\ id # 0,
           NEW r, \/ r = Rollout!Idle /\ id = 0 /\ pc = "idle"
                  \/ r = [Rollout!Idle EXCEPT !.id = id, !.pc = pc]
    PROVE  Stands(c, l, {}, r, {})
<1>0. << >> \in Seq(Machines) /\ << >> \in Seq(PlanStepType)
  BY EmptySeq
<1> DEFINE Fresh == /\ r.id = id /\ r.pc = pc /\ r.mode = "forward" /\ r.snapshot = << >>
                   /\ r.journal = << >> /\ r.left = << >> /\ r.sessions = {}
                   /\ r.canary = "none" /\ r.failed = {} /\ r.calm = FALSE
                   /\ r.outcome = "none"
<1>1. Fresh /\ r \in RolloutRunType
  <2>1. CASE r = Rollout!Idle /\ id = 0 /\ pc = "idle"
    BY <2>1, <1>0 DEF Rollout!Idle, RolloutRunType
  <2>2. CASE r = [Rollout!Idle EXCEPT !.id = id, !.pc = pc]
    BY <2>2, <1>0 DEF Rollout!Idle, RolloutRunType, RolloutSteps, Before
  <2> QED BY <2>1, <2>2
<1>2. Journal(r) = {} /\ Left(r) = {}
  BY <1>1 DEF Journal, Left
<1>3. EarlyOK(r) /\ CanaryOK(r)
  BY <1>1 DEF EarlyOK, CanaryOK, RolloutSteps, Before, AtMachine, Closing, OnlyForward, Active
<1>4. MachineOK(r) /\ BackOK(r)
  BY <1>1, <1>2 DEF MachineOK, BackOK, AtMachine, Closing, OnlyForward
<1>5. LeasesOK(l, r) /\ OthersOK(c, r, {}) /\ PeerOK(c, r)
  BY <1>1, <1>2 DEF LeasesOK, OthersOK, PeerOK, AtMachine
<1>6. FleetOK(c, r, {})
  BY <1>1 DEF FleetOK, Settled, RolloutSteps, Before, AtMachine, Closing, OnlyForward
<1> QED
  BY <1>1, <1>3, <1>4, <1>5, <1>6 DEF Stands, RunOK, WorldOK, FlyingOK

-----------------------------------------------------------------------------
\* The steps of the rollout.  What a call does stands while the run waits for its
\* answer; then the run goes on, or a failure leads it elsewhere.
LEMMA Leads ==
    ASSUME Active(run), Stands(cloud', lease', flying', run, touched'),
           run' = Rollout!Thrown(run) \/ Stands(cloud', lease', flying', run', touched')
    PROVE  RolloutInv'
BY ThrownStands DEF RolloutInv

\* The call changed nothing.
LEMMA LeadsOn ==
    ASSUME RolloutInv, Active(run), UNCHANGED <<cloud, lease, flying, touched>>,
           run' = Rollout!Thrown(run) \/ Stands(cloud, lease, flying, run', touched)
    PROVE  RolloutInv'
BY Leads DEF RolloutInv

LEMMA BeginStep ==
    ASSUME RolloutInv, Rollout!Begin
    PROVE  RolloutInv'
<1> DEFINE r == IF Rollout!NeedsCanary THEN [run EXCEPT !.pc = "create", !.canary = "intended"]
                ELSE [run EXCEPT !.pc = "next"]
<1>1. /\ run.pc = "begin" /\ UNCHANGED <<cloud, lease, flying, touched>>
      /\ run' = r \/ run' = Rollout!Thrown(run)
  BY DEF Rollout!Begin, Rollout!Reading
<1>2. /\ \/ r.pc = "create" /\ r.canary = "intended"
         \/ r.pc = "next" /\ r.canary = run.canary
      /\ r \in RolloutRunType /\ SameBooks(run, r) /\ r.machine = run.machine
      /\ r.done = run.done /\ r.calm = run.calm
  BY DEF RolloutInv, Stands, RunOK, RolloutRunType, RolloutSteps, OnlyForward, SameBooks
<1>3. /\ run.mode = "forward" /\ run.canary = "none" /\ run.journal = << >> /\ ~run.calm
      /\ run.snapshot \in [Machines -> VmType] /\ run.id \in DOMAIN Canaries /\ run.id # 0
      /\ run.outcome = "none" /\ Left(run) \subseteq Journal(run) /\ Active(run)
  BY <1>1 DEF RolloutInv, Stands, RunOK, EarlyOK, BackOK, Before, RolloutSteps, Active
<1>4. NoCanaries(cloud)
  BY <1>1, <1>3 DEF RolloutInv, Stands, WorldOK, FleetOK, RolloutSteps, Before
<1> HIDE DEF r
<1>5. Active(r) /\ Journal(r) = Journal(run) /\ Left(r) = Left(run)
  BY <1>2 DEF Active, RolloutSteps, OnlyForward, SameBooks, Journal, Left
<1>6. RunOK(r)
  <2>1. EarlyOK(r) /\ CanaryOK(r)
    BY <1>2, <1>3 DEF EarlyOK, CanaryOK, SameBooks, Before, AtMachine
  <2>2. MachineOK(r) /\ BackOK(r)
    BY <1>2, <1>3, <1>5 DEF MachineOK, BackOK, SameBooks, AtMachine, Closing, OnlyForward
  <2> QED BY <1>2, <2>1, <2>2 DEF RunOK
<1>7. PeerOK(cloud, r)
  BY <1>2, <1>3 DEF PeerOK, AtMachine
<1>8. Stands(cloud, lease, flying, r, touched)
  BY <1>1, <1>2, <1>3, <1>4, <1>5, <1>6, <1>7, GoesOn DEF RolloutInv, SameBooks
<1> QED BY <1>1, <1>3, <1>8, LeadsOn

LEMMA Turns ==
    ASSUME NEW r, NEW r2, RunOK(r), Active(r), r.pc # "preflight",
           r2 \in RolloutRunType, SameBooks(r, r2), r2.pc \in RolloutSteps \ Before,
           CanaryOK(r2), MachineOK(r2),
           r2.pc \in OnlyForward => r.mode = "forward",
           r2.pc = "restore" => r.mode = "back",
           r.mode = "back" /\ r2.pc \in AtMachine =>
               r.left # << >> /\ r2.machine = r.left[Len(r.left)],
           r.mode = "back" /\ r2.pc \in Closing => r.left = << >>,
           r.mode = "back" /\ r2.pc \in {"remove", "confirm", "release"} => r.failed = {}
    PROVE  RunOK(r2) /\ Active(r2)
<1>1. /\ r.snapshot \in [Machines -> VmType] /\ r.id \in DOMAIN Canaries /\ r.id # 0
      /\ r.outcome = "none" /\ Left(r) \subseteq Journal(r)
  BY DEF RunOK, EarlyOK, BackOK, Active, RolloutSteps, Before, AtMachine, Closing, OnlyForward
<1>2. Journal(r2) = Journal(r) /\ Left(r2) = Left(r)
  BY DEF SameBooks, Journal, Left
<1>3. EarlyOK(r2)
  BY <1>1 DEF EarlyOK, SameBooks, RolloutSteps, Before, AtMachine, Closing, OnlyForward
<1>4. BackOK(r2)
  BY <1>1, <1>2
  DEF BackOK, SameBooks, RolloutSteps, Before, AtMachine, Closing, OnlyForward
<1> QED BY <1>3, <1>4 DEF RunOK, Active

\* It goes on from one machine or call to the next, with nothing new to say of the
\* world but what holds of any run.
LEMMA PassesOn ==
    ASSUME RolloutInv, Active(run), NEW r, RunOK(r), Active(r), SameBooks(run, r),
           UNCHANGED <<cloud, lease, flying, touched>>,
           run' = r \/ run' = Rollout!Thrown(run),
           r.canary = run.canary \/ (r.canary \notin {"none", "intended"}
                                     /\ (run.canary = "unknown" => CanaryOf(run) \in Rollout!Present)),
           run.pc \notin {"preflight", "clean", "recheck"},
           r.pc \notin {"await", "inspect", "update", "adjust", "release", "remove"},
           r.pc = "lease" /\ r.mode = "forward" /\ r.calm =>
               \E p \in Rollout!Ids \ {r.machine} : Rollout!Serving(cloud[p])
    PROVE  RolloutInv'
<1>1. PeerOK(cloud, r)
  BY DEF PeerOK, AtMachine
<1>2. run.canary \in {"none", "intended"} => NoCanaries(cloud)
  BY DEF RolloutInv, Stands, WorldOK, FleetOK, Active
<1>3. CanaryOf(run) \in Rollout!Present => cloud[CanaryOf(run)].state # "absent"
  BY DEF Rollout!Present
<1>4. Stands(cloud, lease, flying, r, touched)
  BY <1>1, <1>2, <1>3, GoesOn DEF RolloutInv
<1> QED BY <1>4, LeadsOn

LEMMA LocateStep ==
    ASSUME RolloutInv, Rollout!LocateCanary
    PROVE  RolloutInv'
<1> DEFINE r == [run EXCEPT !.canary = "tracked", !.pc = "adopt"]
<1>1. /\ run.pc = "locate" /\ UNCHANGED <<cloud, lease, flying, touched>>
      /\ (run' = r /\ CanaryOf(run) \in Rollout!Present) \/ run' = Rollout!Thrown(run)
  BY DEF Rollout!LocateCanary, Rollout!Polled, Rollout!Reading, Rollout!Canary, CanaryOf
<1>2. /\ r.pc = "adopt" /\ r.canary = "tracked"
      /\ r \in RolloutRunType /\ SameBooks(run, r) /\ r.machine = run.machine
      /\ r.done = run.done /\ r.calm = run.calm
  BY DEF RolloutInv, Stands, RunOK, RolloutRunType, RolloutSteps, Closing, SameBooks
<1>3. RunOK(run) /\ Active(run)
  BY <1>1 DEF RolloutInv, Stands, Active, RolloutSteps, Closing
<1> HIDE DEF r
<1>4. CanaryOK(r) /\ MachineOK(r)
  BY <1>1, <1>2, <1>3 DEF RunOK, CanaryOK, MachineOK, AtMachine, SameBooks
<1>5. run.mode = "back" => run.left = << >>
  BY <1>1, <1>3 DEF RunOK, BackOK, Closing
<1>6. RunOK(r) /\ Active(r)
  BY <1>1, <1>2, <1>3, <1>4, <1>5, Turns
  DEF RolloutSteps, Before, AtMachine, Closing, OnlyForward
<1>7. CASE run' = Rollout!Thrown(run)
  BY <1>1, <1>3, <1>7, LeadsOn
<1>8. CASE run' # Rollout!Thrown(run)
  BY <1>1, <1>2, <1>3, <1>6, <1>8, PassesOn
<1> QED BY <1>7, <1>8

LEMMA AwaitCanaryStep ==
    ASSUME RolloutInv, Rollout!AwaitCanary
    PROVE  RolloutInv'
<1> DEFINE r == [run EXCEPT !.canary = "serving", !.pc = "next"]
<1>1. /\ run.pc = "warm" /\ UNCHANGED <<cloud, lease, flying, touched>>
      /\ run' = r \/ run' = Rollout!Thrown(run)
  BY DEF Rollout!AwaitCanary, Rollout!Polled, Rollout!Reading
<1>2. /\ r.pc = "next" /\ r.canary = "serving"
      /\ r \in RolloutRunType /\ SameBooks(run, r) /\ r.machine = run.machine
      /\ r.done = run.done /\ r.calm = run.calm
  BY DEF RolloutInv, Stands, RunOK, RolloutRunType, RolloutSteps, OnlyForward, SameBooks
<1>3. RunOK(run) /\ Active(run) /\ run.mode = "forward" /\ run.canary # "unknown"
  BY <1>1 DEF RolloutInv, Stands, RunOK, BackOK, CanaryOK, Active, RolloutSteps, OnlyForward,
              AtMachine
<1> HIDE DEF r
<1>4. CanaryOK(r) /\ MachineOK(r)
  BY <1>1, <1>2, <1>3 DEF RunOK, CanaryOK, MachineOK, AtMachine, SameBooks
<1>5. RunOK(r) /\ Active(r)
  BY <1>1, <1>2, <1>3, <1>4, Turns DEF RolloutSteps, Before, AtMachine, Closing, OnlyForward
<1> QED BY <1>1, <1>2, <1>3, <1>5, PassesOn

LEMMA NextMachineStep ==
    ASSUME RolloutInv, Rollout!NextMachine
    PROVE  RolloutInv'
<1> DEFINE todo == Rollout!Outdated \ run.done
           first == {m \in todo : run.snapshot[m].state \in Rollout!NonRunning}
           At(m) == [run EXCEPT !.machine = m, !.pc = IF m \in first THEN "lease" ELSE "peer"]
<1>1. run.pc = "next" /\ UNCHANGED <<cloud, lease, flying, touched>>
  BY DEF Rollout!NextMachine
<1>2. /\ RunOK(run) /\ Active(run) /\ run.mode = "forward" /\ run.canary # "unknown"
      /\ run \in RolloutRunType /\ run.snapshot \in [Machines -> VmType]
  BY <1>1 DEF RolloutInv, Stands, RunOK, EarlyOK, BackOK, CanaryOK, Active, RolloutSteps,
              OnlyForward, AtMachine
<1>3. CASE todo = {}
  <2> DEFINE r == [run EXCEPT !.pc = "attest"]
  <2>1. run' = r
    BY <1>3 DEF Rollout!NextMachine
  <2>2. /\ r.pc = "attest" /\ r.canary = run.canary /\ r.machine = run.machine
        /\ r.done = run.done /\ r.calm = run.calm /\ r \in RolloutRunType /\ SameBooks(run, r)
    BY <1>2 DEF RolloutRunType, RolloutSteps, OnlyForward, SameBooks
  <2> HIDE DEF r
  <2>3. CanaryOK(r) /\ MachineOK(r)
    BY <1>1, <1>2, <2>2 DEF RunOK, CanaryOK, MachineOK, AtMachine, SameBooks
  <2>4. RunOK(r) /\ Active(r)
    BY <1>1, <1>2, <2>2, <2>3, Turns DEF RolloutSteps, Before, AtMachine, Closing, OnlyForward
  <2> QED BY <1>1, <1>2, <2>1, <2>2, <2>4, PassesOn
<1>4. CASE todo # {}
  <2>1. PICK m \in IF first = {} THEN todo ELSE first : run' = At(m)
    BY <1>4 DEF Rollout!NextMachine
  <2> DEFINE r == At(m)
  <2>2. m \in todo /\ m \in Machines /\ (m \in first \/ first = {})
    BY <2>1 DEF Rollout!Outdated
  <2>3. /\ r.pc = IF m \in first THEN "lease" ELSE "peer"
        /\ r.canary = run.canary /\ r.machine = m
        /\ r.done = run.done /\ r.calm = run.calm /\ r \in RolloutRunType /\ SameBooks(run, r)
    BY <1>2, <2>2 DEF RolloutRunType, RolloutSteps, OnlyForward, SameBooks
  <2>4. /\ m \in first => ~run.calm
        /\ first = {} => \A n \in Machines \ run.done :
               run.snapshot[n].image # "new" => run.snapshot[n].state \notin Rollout!NonRunning
    BY <1>2, <2>2 DEF RunOK, MachineOK, Rollout!Outdated
  <2> HIDE DEF r, first, todo
  <2>5. CanaryOK(r)
    BY <1>2, <2>3 DEF CanaryOK, AtMachine
  <2>6. MachineOK(r)
    BY <1>2, <2>2, <2>3, <2>4 DEF RunOK, MachineOK, AtMachine, SameBooks
  <2>7. RunOK(r) /\ Active(r)
    BY <1>1, <1>2, <2>3, <2>5, <2>6, Turns
    DEF RolloutSteps, Before, AtMachine, Closing, OnlyForward
  <2>8. r.pc = "lease" => ~r.calm
    BY <2>3, <2>4
  <2>9. run' = r
    BY <2>1 DEF r, first, todo
  <2> QED BY <1>1, <1>2, <2>3, <2>7, <2>8, <2>9, PassesOn
<1> QED BY <1>3, <1>4

LEMMA PeerStep ==
    ASSUME RolloutInv, Rollout!RequireServingPeer
    PROVE  RolloutInv'
<1> DEFINE r == [run EXCEPT !.pc = "lease", !.calm = TRUE]
<1>1. /\ run.pc = "peer" /\ UNCHANGED <<cloud, lease, flying, touched>>
      /\ \/ run' = r /\ \E m \in Rollout!Present \ {run.machine} : Rollout!Serving(cloud[m])
         \/ run' = Rollout!Thrown(run)
  BY DEF Rollout!RequireServingPeer, Rollout!Polled, Rollout!Reading
<1>2. /\ r.pc = "lease" /\ r.canary = run.canary
      /\ r \in RolloutRunType /\ SameBooks(run, r) /\ r.machine = run.machine
      /\ r.done = run.done
  BY DEF RolloutInv, Stands, RunOK, RolloutRunType, RolloutSteps, OnlyForward, SameBooks
<1>3. RunOK(run) /\ Active(run) /\ run.mode = "forward" /\ run.canary # "unknown"
  BY <1>1 DEF RolloutInv, Stands, RunOK, BackOK, CanaryOK, Active, RolloutSteps, OnlyForward,
              AtMachine
<1> HIDE DEF r
<1>4. CanaryOK(r) /\ MachineOK(r)
  BY <1>1, <1>2, <1>3 DEF RunOK, CanaryOK, MachineOK, AtMachine, SameBooks
<1>5. RunOK(r) /\ Active(r)
  BY <1>1, <1>2, <1>3, <1>4, Turns DEF RolloutSteps, Before, AtMachine, Closing, OnlyForward
<1>6. CASE run' = Rollout!Thrown(run)
  BY <1>1, <1>3, <1>6, LeadsOn
<1>7. CASE run' # Rollout!Thrown(run)
  BY <1>1, <1>2, <1>7, <1>3, <1>5, PassesOn DEF Rollout!Present
<1> QED BY <1>6, <1>7

\* The rollout learns of a lease.
LEMMA SessionStands ==
    ASSUME NEW c, NEW l, NEW f, NEW r, NEW t, Stands(c, l, f, r, t), Active(r),
           NEW i \in Rollout!Ids
    PROVE  Stands(c, l, f, [r EXCEPT !.sessions = @ \cup {i}], t)
<1> DEFINE r2 == [r EXCEPT !.sessions = @ \cup {i}]
<1>1. /\ r2 \in RolloutRunType /\ SameBooks(r, r2) /\ r2.pc = r.pc /\ r2.canary = r.canary
      /\ r2.machine = r.machine /\ r2.done = r.done /\ r2.calm = r.calm
      /\ r2.version = r.version
  BY DEF Stands, RunOK, RolloutRunType, SameBooks
<1> HIDE DEF r2
<1>2. Journal(r2) = Journal(r) /\ Left(r2) = Left(r) /\ Active(r2)
  BY <1>1 DEF SameBooks, Journal, Left, Active
<1>3. RunOK(r2)
  BY <1>1, <1>2 DEF Stands, RunOK, EarlyOK, CanaryOK, SameBooks, MachineOK, BackOK
<1>4. PeerOK(c, r2)
  BY <1>1 DEF Stands, WorldOK, PeerOK, SameBooks
<1>5. r2.mode = "back" /\ r2.failed = {} /\ r2.pc \in {"await", "adjust"} =>
          \A call \in f : call.op = "update" /\ call.machine = r2.machine =>
                              call.version < c[call.machine].instance
  BY <1>1 DEF Stands, FlyingOK, CreateOK, UpdateOK, SameBooks
<1>6. r2.pc = "inspect" => r2.machine \in r2.sessions /\ l[r2.machine] = r.id
  BY <1>1 DEF Stands, WorldOK, LeasesOK, SameBooks
<1>7. \A m \in Machines : Goal(r2, m) = Goal(r, m)
  BY <1>1 DEF Goal, SameBooks
<1>8. /\ r2.pc = "release" =>
             NoCanaries(c) /\ \A m \in Machines \ t : Rollout!Same(c[m], Goal(r2, m))
      /\ r2.canary \in {"none", "intended"} /\ r2.pc \notin {"preflight", "clean", "recheck"} =>
             NoCanaries(c)
      /\ r2.mode = "back" /\ r2.pc = "remove" =>
             \A m \in Machines \ t : /\ Rollout!Same(c[m], r.snapshot[m])
                                     /\ c[m].state = "started" => c[m].healthy
  BY <1>1, <1>7 DEF Stands, WorldOK, FleetOK, Settled, SameBooks, Active
<1>9. Stands(c, l, f, r2, t)
  BY <1>1, <1>2, <1>3, <1>4, <1>5, <1>6, <1>8, GoesOn
<1> QED BY <1>9 DEF r2

\* A lease is asked for: granted, granted with the answer lost, or not.
LEMMA LeaseSteps ==
    ASSUME RolloutInv, Active(run), NEW i \in Rollout!Ids, NEW next,
           Rollout!AcquireLease(i, next),
           lease' = [lease EXCEPT ![i] = run.id] =>
               Stands(cloud, lease', flying, [next EXCEPT !.sessions = @ \cup {i}], touched)
    PROVE  RolloutInv'
<1>1. UNCHANGED <<cloud, flying, touched>>
  BY DEF Rollout!AcquireLease
<1>2. Stands(cloud, lease, flying, run, touched)
  BY DEF RolloutInv
<1>3. CASE lease' = [lease EXCEPT ![i] = run.id]
  <2>1. Stands(cloud', lease', flying', run, touched')
    BY <1>1, <1>2, <1>3, LeaseStands
  <2>2. \/ run' = [next EXCEPT !.sessions = @ \cup {i}]
        \/ run' = Rollout!Thrown(run)
        \/ run' = Rollout!Thrown([run EXCEPT !.sessions = @ \cup {i}])
    BY DEF Rollout!AcquireLease
  <2>3. CASE run' = [next EXCEPT !.sessions = @ \cup {i}] \/ run' = Rollout!Thrown(run)
    BY <1>1, <1>3, <2>1, <2>3, Leads
  <2>4. CASE /\ run' = Rollout!Thrown([run EXCEPT !.sessions = @ \cup {i}])
             /\ run' # [next EXCEPT !.sessions = @ \cup {i}]
    <3> DEFINE r == [run EXCEPT !.sessions = @ \cup {i}]
    <3>1. Stands(cloud', lease', flying', r, touched')
      BY <2>1, SessionStands
    <3>2. r.pc = run.pc
      BY DEF RolloutInv, Stands, RunOK, RolloutRunType
    <3>3. Active(r)
      BY <3>2 DEF Active
    <3> HIDE DEF r
    <3>4. Stands(cloud', lease', flying', Rollout!Thrown(r), touched')
      BY <3>1, <3>3, ThrownStands
    <3>5. run' = Rollout!Thrown(r)
      BY <2>4 DEF r
    <3> QED BY <3>4, <3>5 DEF RolloutInv
  <2> QED BY <2>2, <2>3, <2>4
<1>4. CASE lease' # [lease EXCEPT ![i] = run.id]
  BY <1>4, <1>1, LeadsOn DEF Rollout!AcquireLease
<1> QED BY <1>3, <1>4

\* The canary is leased, in a rollout or in its rollback.
LEMMA AdoptStep ==
    ASSUME RolloutInv, Rollout!AdoptCanary
    PROVE  RolloutInv'
<1> DEFINE next == [run EXCEPT !.pc = IF run.mode = "forward" THEN "warm" ELSE "verify"]
           i == CanaryOf(run)
           r == [next EXCEPT !.sessions = @ \cup {i}]
<1>1. run.pc = "adopt" /\ Rollout!AcquireLease(i, next)
  BY DEF Rollout!AdoptCanary, Rollout!Canary, CanaryOf
<1>2. RunOK(run) /\ Active(run) /\ run.canary # "unknown" /\ run \in RolloutRunType
  BY <1>1 DEF RolloutInv, Stands, RunOK, CanaryOK, Active, RolloutSteps, Closing, AtMachine
<1>3. i \in Rollout!Ids
  BY <1>1, <1>2, RunTypes
<1>4. /\ r.pc = IF run.mode = "forward" THEN "warm" ELSE "verify"
      /\ r.canary = run.canary /\ r.machine = run.machine /\ r.done = run.done
      /\ r.calm = run.calm /\ r \in RolloutRunType /\ SameBooks(run, r)
  <2>1. /\ next \in RolloutRunType /\ next.canary = run.canary /\ next.machine = run.machine
        /\ next.done = run.done /\ next.calm = run.calm /\ next.sessions = run.sessions
        /\ next.pc = (IF run.mode = "forward" THEN "warm" ELSE "verify") /\ SameBooks(run, next)
    <3> DEFINE pc == IF run.mode = "forward" THEN "warm" ELSE "verify"
    <3>1. next = [run EXCEPT !.pc = pc] /\ pc \in RolloutSteps
      BY DEF RolloutSteps, OnlyForward, Closing
    <3> HIDE DEF next, pc
    <3>2. /\ next \in RolloutRunType /\ next.pc = pc
      BY <1>2, <3>1 DEF RolloutRunType
    <3>3. /\ next.canary = run.canary /\ next.machine = run.machine /\ next.done = run.done
          /\ next.calm = run.calm /\ next.sessions = run.sessions
      BY <1>2, <3>1 DEF RolloutRunType
    <3>4. SameBooks(run, next)
      BY <1>2, <3>1 DEF RolloutRunType, SameBooks
    <3> QED BY <3>2, <3>3, <3>4 DEF pc
  <2>2. r = [next EXCEPT !.sessions = next.sessions \cup {i}]
    OBVIOUS
  <2> HIDE DEF next, r
  <2>3. r \in RolloutRunType /\ r.sessions = next.sessions \cup {i}
    BY <1>3, <2>1, <2>2 DEF RolloutRunType
  <2> QED BY <1>3, <2>1, <2>2, <2>3 DEF RolloutRunType, SameBooks
<1>5. run.mode = "back" => run.left = << >>
  BY <1>1, <1>2 DEF RunOK, BackOK, Closing
<1> HIDE DEF r
<1>6. CanaryOK(r) /\ MachineOK(r)
  BY <1>2, <1>4 DEF RunOK, CanaryOK, MachineOK, AtMachine, SameBooks
<1>7. run.mode \in {"forward", "back"}
  BY <1>2 DEF RolloutRunType
<1>8. RunOK(r) /\ Active(r)
  BY <1>1, <1>2, <1>4, <1>5, <1>6, <1>7, Turns
  DEF RolloutSteps, Before, AtMachine, Closing, OnlyForward
<1>9. PeerOK(cloud, r)
  BY <1>4 DEF PeerOK, AtMachine
<1>10. run.canary \in {"none", "intended"} => NoCanaries(cloud)
  BY <1>1 DEF RolloutInv, Stands, WorldOK, FleetOK, RolloutSteps, Closing
<1>11. ASSUME lease' = [lease EXCEPT ![i] = run.id]
       PROVE  Stands(cloud, lease', flying, r, touched)
  BY <1>2, <1>3, <1>11, LeaseStands, <1>4, <1>8, <1>9, <1>10, GoesOn DEF RolloutInv
<1> HIDE DEF next
<1> QED BY <1>1, <1>2, <1>3, <1>11, LeaseSteps DEF r

\* The machine at hand is leased.
LEMMA AcquireStep ==
    ASSUME RolloutInv, Rollout!Acquire
    PROVE  RolloutInv'
<1> DEFINE next == [run EXCEPT !.pc = "inspect"]
           i == run.machine
           r == [next EXCEPT !.sessions = @ \cup {i}]
<1>1. run.pc = "lease" /\ Rollout!AcquireLease(i, next)
  BY DEF Rollout!Acquire
<1>2. /\ RunOK(run) /\ Active(run) /\ run.mode = "forward" /\ run.canary # "unknown"
      /\ run \in RolloutRunType /\ i \in Machines /\ i \in Rollout!Ids
  BY <1>1 DEF RolloutInv, Stands, RunOK, BackOK, MachineOK, CanaryOK, Active, RolloutSteps,
              OnlyForward, AtMachine, Rollout!Ids
<1>3. /\ r.pc = "inspect" /\ i \in r.sessions /\ r.machine = i
      /\ r.canary = run.canary /\ r.done = run.done
      /\ r.calm = run.calm /\ r \in RolloutRunType /\ SameBooks(run, r)
  BY <1>2 DEF RolloutRunType, RolloutSteps, AtMachine, SameBooks
<1> HIDE DEF r
<1>4. CanaryOK(r) /\ MachineOK(r)
  BY <1>2, <1>3 DEF RunOK, CanaryOK, MachineOK, AtMachine, SameBooks
<1>5. RunOK(r) /\ Active(r)
  BY <1>1, <1>2, <1>3, <1>4, Turns
  DEF RolloutSteps, Before, AtMachine, Closing, OnlyForward
<1>6. PeerOK(cloud, r)
  BY <1>1, <1>3 DEF RolloutInv, Stands, WorldOK, PeerOK, SameBooks
<1>7. run.canary \in {"none", "intended"} => NoCanaries(cloud)
  BY <1>1 DEF RolloutInv, Stands, WorldOK, FleetOK, RolloutSteps, OnlyForward
<1>8. ASSUME lease' = [lease EXCEPT ![i] = run.id]
      PROVE  Stands(cloud, lease', flying, r, touched)
  <2>1. Stands(cloud, lease', flying, run, touched)
    BY <1>2, <1>8, LeaseStands DEF RolloutInv
  <2>2. lease'[i] = run.id
    BY <1>2, <1>8 DEF RolloutInv, Stands, WorldOK, CloudOK
  <2> QED BY <1>2, <1>3, <1>5, <1>6, <1>7, <2>1, <2>2, GoesOn
<1> HIDE DEF next
<1> QED BY <1>1, <1>2, <1>8, LeaseSteps DEF r

\* The fleet is seen, when nobody has changed it yet.
LEMMA FleetSeen ==
    ASSUME RolloutInv, run.pc \in {"preflight", "recheck"}, touched = {},
           NEW pc \in {"begin", "clean"}, pc = "begin" => NoCanaries(cloud)
    PROVE  Stands(cloud, lease, flying, [run EXCEPT !.snapshot = Rollout!Snapshot, !.pc = pc],
                  touched)
<1> DEFINE r == [run EXCEPT !.snapshot = Rollout!Snapshot, !.pc = pc]
<1>1. /\ run \in RolloutRunType /\ run.mode = "forward" /\ run.canary = "none"
      /\ run.journal = << >> /\ ~run.calm /\ run.id \in DOMAIN Canaries /\ run.id # 0
      /\ run.outcome = "none" /\ Left(run) \subseteq Journal(run)
  BY DEF RolloutInv, Stands, RunOK, EarlyOK, BackOK, Before, RolloutSteps, Active
<1>2. /\ cloud \in [Rollout!Ids -> VmType] /\ Machines \subseteq Rollout!Ids
  BY DEF RolloutInv, Stands, WorldOK, CloudOK, Rollout!Ids
<1>3. /\ Rollout!Snapshot \in [Machines -> VmType]
      /\ \A m \in Machines : Rollout!Snapshot[m] = cloud[m]
  BY <1>2 DEF Rollout!Snapshot
<1>4. /\ r \in RolloutRunType /\ r.pc = pc /\ r.snapshot = Rollout!Snapshot /\ r.id = run.id
      /\ r.mode = run.mode /\ r.journal = run.journal /\ r.left = run.left
      /\ r.sessions = run.sessions /\ r.canary = run.canary /\ r.failed = run.failed
      /\ r.calm = run.calm /\ r.outcome = run.outcome /\ r.machine = run.machine
  BY <1>1, <1>3 DEF RolloutRunType, RolloutSteps, Before
<1> HIDE DEF r
<1>5. Journal(r) = Journal(run) /\ Left(r) = Left(run) /\ Active(r) /\ Journal(run) = {}
  BY <1>1, <1>4, RunTypes DEF Journal, Left, Active, RolloutSteps, Before, RolloutInv, Stands
<1>6. RunOK(r)
  BY <1>1, <1>3, <1>4, <1>5
  DEF RunOK, EarlyOK, CanaryOK, MachineOK, BackOK, RolloutSteps, Before, AtMachine, Closing,
      OnlyForward
<1>7. FlyingOK(cloud, flying, r)
  BY <1>1, <1>5 DEF RolloutInv, Stands, FlyingOK, CreateOK, UpdateOK
<1>8. CloudOK(cloud, lease, touched)
  BY DEF RolloutInv, Stands, WorldOK
<1>9. LeasesOK(lease, r) /\ FleetOK(cloud, r, touched) /\ PeerOK(cloud, r)
  BY <1>4, <1>5 DEF LeasesOK, FleetOK, PeerOK, AtMachine, Settled
<1>10. OthersOK(cloud, r, touched)
  BY <1>2, <1>3, <1>4 DEF VmType, Rollout!Same, OthersOK
<1>11. Stands(cloud, lease, flying, r, touched)
  BY <1>6, <1>7, <1>8, <1>9, <1>10 DEF Stands, WorldOK
<1> QED BY <1>11 DEF r

LEMMA PreflightStep ==
    ASSUME RolloutInv, Rollout!Preflight
    PROVE  RolloutInv'
<1> DEFINE pc == IF Rollout!Present = Machines THEN "begin" ELSE "clean"
           r == [run EXCEPT !.snapshot = Rollout!Snapshot, !.pc = pc]
<1>1. /\ run.pc = "preflight" /\ UNCHANGED <<cloud, lease, flying, touched>>
      /\ run' = r \/ run' = Rollout!Thrown(run)
  BY DEF Rollout!Preflight, Rollout!Polled, Rollout!Reading
<1>2. touched = {}
  BY <1>1 DEF RolloutInv, Stands, RunOK, EarlyOK, WorldOK, OthersOK
<1>3. pc = "begin" => NoCanaries(cloud)
  BY DEF NoCanaries, Rollout!Present
<1>4. pc \in {"begin", "clean"} /\ Active(run)
  BY <1>1 DEF Active, RolloutSteps, Before
<1> HIDE DEF pc
<1>5. Stands(cloud, lease, flying, r, touched)
  BY <1>1, <1>2, <1>3, <1>4, FleetSeen
<1> QED BY <1>1, <1>4, <1>5, LeadsOn

LEMMA RecheckStep ==
    ASSUME RolloutInv, Rollout!Recheck
    PROVE  RolloutInv'
<1> DEFINE r == [run EXCEPT !.snapshot = Rollout!Snapshot, !.pc = "begin"]
<1>1. /\ run.pc = "recheck" /\ UNCHANGED <<cloud, lease, flying, touched>>
      /\ \/ /\ run' = r /\ Rollout!Present = Machines
            /\ \A m \in Machines : cloud[m].instance = run.snapshot[m].instance
         \/ run' = Rollout!Thrown(run)
  BY DEF Rollout!Recheck, Rollout!Polled, Rollout!Reading
<1>2. Active(run)
  BY <1>1 DEF Active, RolloutSteps, Before
<1>3. CASE run' = Rollout!Thrown(run)
  BY <1>1, <1>2, <1>3, LeadsOn
<1>4. CASE run' # Rollout!Thrown(run)
  <2>1. \A m \in Machines : cloud[m].instance \in Nat
    BY DEF RolloutInv, Stands, WorldOK, CloudOK, VmType, Rollout!Ids
  <2>2. touched = {}
    BY <1>1, <1>4, <2>1 DEF RolloutInv, Stands, WorldOK, CloudOK, OthersOK
  <2>3. NoCanaries(cloud)
    BY <1>1, <1>4 DEF NoCanaries, Rollout!Present
  <2>4. Stands(cloud, lease, flying, r, touched)
    BY <1>1, <2>2, <2>3, FleetSeen
  <2> QED BY <1>1, <1>2, <1>4, <2>4, LeadsOn
<1> QED BY <1>3, <1>4

\* A stale canary is leased, then destroyed.
LEMMA CleanStep ==
    ASSUME RolloutInv, Rollout!CleanStale
    PROVE  RolloutInv'
<1>1. PICK i \in Rollout!Present \ Machines :
          \/ i \notin run.sessions /\ Rollout!AcquireLease(i, run)
          \/ /\ \/ /\ cloud' = [cloud EXCEPT ![i] = Rollout!Absent]
                   /\ lease' = [lease EXCEPT ![i] = 0]
                   /\ \/ run' = [run EXCEPT !.pc = IF Rollout!Present = Machines \cup {i}
                                                   THEN "recheck" ELSE "clean"]
                      \/ run' = Rollout!Thrown(run)
                \/ run' = Rollout!Thrown(run) /\ UNCHANGED <<cloud, lease>>
             /\ UNCHANGED <<flying, touched>>
  BY DEF Rollout!CleanStale
<1>2. /\ run.pc = "clean" /\ Active(run) /\ RunOK(run) /\ i \in Rollout!Ids \ Machines
      /\ Stands(cloud, lease, flying, run, touched)
  BY <1>1 DEF Rollout!CleanStale, Active, RolloutSteps, Before, RolloutInv, Stands, Rollout!Present
<1>3. CASE i \notin run.sessions /\ Rollout!AcquireLease(i, run)
  <2>1. ASSUME lease' = [lease EXCEPT ![i] = run.id]
        PROVE  Stands(cloud, lease', flying, [run EXCEPT !.sessions = @ \cup {i}], touched)
    BY <1>2, <2>1, LeaseStands, SessionStands
  <2> QED BY <1>2, <1>3, <2>1, LeaseSteps
<1>4. CASE /\ cloud' = [cloud EXCEPT ![i] = Rollout!Absent]
           /\ lease' = [lease EXCEPT ![i] = 0] /\ UNCHANGED <<flying, touched>>
           /\ \/ run' = [run EXCEPT !.pc = IF Rollout!Present = Machines \cup {i}
                                           THEN "recheck" ELSE "clean"]
              \/ run' = Rollout!Thrown(run)
  <2> DEFINE pc == IF Rollout!Present = Machines \cup {i} THEN "recheck" ELSE "clean"
             r == [run EXCEPT !.pc = pc]
  <2>1. Stands(cloud', lease', flying', run, touched')
    BY <1>2, <1>4, DestroyStands
  <2>2. pc \in {"recheck", "clean"}
    OBVIOUS
  <2> HIDE DEF pc
  <2>3. /\ r \in RolloutRunType /\ SameBooks(run, r) /\ r.pc \in {"recheck", "clean"}
        /\ r.canary = run.canary /\ r.machine = run.machine /\ r.calm = run.calm
    BY <1>2, <2>2 DEF RunOK, RolloutRunType, RolloutSteps, Before, SameBooks
  <2>4. run' = r \/ run' = Rollout!Thrown(run)
    BY <1>4 DEF pc
  <2> HIDE DEF r
  <2>5. /\ run.mode = "forward" /\ run.canary = "none" /\ run.journal = << >> /\ ~run.calm
        /\ run.id \in DOMAIN Canaries /\ run.id # 0 /\ run.snapshot \in [Machines -> VmType]
        /\ run.outcome = "none" /\ Left(run) \subseteq Journal(run)
    BY <1>2 DEF RunOK, EarlyOK, BackOK, Before, RolloutSteps, Active
  <2>6. Journal(r) = Journal(run) /\ Left(r) = Left(run) /\ Active(r)
    BY <2>3 DEF SameBooks, Journal, Left, Active, RolloutSteps, Before
  <2>7. RunOK(r)
    BY <2>3, <2>5, <2>6
    DEF RunOK, EarlyOK, CanaryOK, MachineOK, BackOK, RolloutSteps, Before, AtMachine, Closing,
        OnlyForward, SameBooks
  <2>8. PeerOK(cloud', r)
    BY <2>3 DEF PeerOK, AtMachine
  <2>9. r.pc \notin {"await", "adjust", "inspect", "release", "remove"}
        /\ r.pc \in {"preflight", "clean", "recheck"} /\ run.canary # "unknown"
    BY <2>3, <2>5
  <2>10. Stands(cloud', lease', flying', r, touched')
    BY <1>2, <2>1, <2>3, <2>6, <2>7, <2>8, <2>9, GoesOn
  <2> QED BY <1>2, <2>1, <2>4, <2>10, Leads
<1>5. CASE run' = Rollout!Thrown(run) /\ UNCHANGED <<cloud, lease, flying, touched>>
  BY <1>2, <1>5, LeadsOn
<1> QED BY <1>1, <1>3, <1>4, <1>5

\* The canary is made, perhaps later, and perhaps it is not known.
LEMMA CreateCanaryStep ==
    ASSUME RolloutInv, Rollout!CreateCanary
    PROVE  RolloutInv'
<1> DEFINE lost == [run EXCEPT !.canary = "unknown", !.pc = "locate"]
           seen == [run EXCEPT !.canary = "tracked", !.pc = "adopt"]
           i == CanaryOf(run)
           call == [op |-> "create", machine |-> i]
<1>1. /\ run.pc = "create" /\ UNCHANGED <<lease, touched>>
      /\ \/ run' = Rollout!Thrown(run) /\ UNCHANGED <<cloud, flying>>
         \/ /\ cloud' = [cloud EXCEPT ![i] = Rollout!NewCanary]
            /\ run' = seen \/ run' = lost
            /\ UNCHANGED flying
         \/ run' = lost /\ UNCHANGED cloud /\ flying' \in {flying, flying \cup {call}}
  BY DEF Rollout!CreateCanary, Rollout!Canary, CanaryOf
<1>2. /\ RunOK(run) /\ Active(run) /\ run.mode = "forward" /\ run.canary = "intended"
      /\ run \in RolloutRunType /\ i \in Rollout!Ids \ Machines
      /\ Stands(cloud, lease, flying, run, touched)
  BY <1>1, RunTypes DEF RolloutInv, Stands, RunOK, BackOK, CanaryOK, Active, RolloutSteps,
                        OnlyForward
<1>3. NoCanaries(cloud) /\ cloud[i].state = "absent"
  BY <1>1, <1>2 DEF Stands, WorldOK, FleetOK, RolloutSteps, OnlyForward, NoCanaries
<1>4. /\ lost.pc = "locate" /\ lost.canary = "unknown"
      /\ lost \in RolloutRunType /\ SameBooks(run, lost) /\ lost.machine = run.machine
      /\ lost.done = run.done /\ lost.calm = run.calm
      /\ seen.pc = "adopt" /\ seen.canary = "tracked"
      /\ seen \in RolloutRunType /\ SameBooks(run, seen) /\ seen.machine = run.machine
      /\ seen.done = run.done /\ seen.calm = run.calm
      /\ SameBooks(lost, seen)
  BY <1>2 DEF RolloutRunType, RolloutSteps, Closing, SameBooks
<1> HIDE DEF lost, seen
<1>5. CanaryOK(lost) /\ MachineOK(lost) /\ CanaryOK(seen) /\ MachineOK(seen)
  BY <1>2, <1>4 DEF RunOK, CanaryOK, MachineOK, AtMachine, SameBooks
<1>6. RunOK(lost) /\ Active(lost) /\ RunOK(seen) /\ Active(seen)
  BY <1>1, <1>2, <1>4, <1>5, Turns
  DEF RolloutSteps, Before, AtMachine, Closing, OnlyForward
<1>7. \A c : PeerOK(c, lost) /\ PeerOK(c, seen)
  BY <1>4 DEF PeerOK, AtMachine
<1>8. Stands(cloud, lease, flying, lost, touched)
  BY <1>2, <1>4, <1>6, <1>7, GoesOn
<1>9. CanaryOf(lost) = i
  BY <1>4 DEF CanaryOf, SameBooks
<1>10. CASE run' = Rollout!Thrown(run) /\ UNCHANGED <<cloud, flying>>
  BY <1>1, <1>2, <1>10, LeadsOn
<1>11. CASE /\ cloud' = [cloud EXCEPT ![i] = Rollout!NewCanary]
            /\ run' = seen \/ run' = lost
            /\ UNCHANGED flying
  <2>1. \A x \in flying : ~CreateOK(cloud, lost, x)
    BY <1>2 DEF Stands, FlyingOK, CreateOK, UpdateOK
  <2>2. Stands(cloud', lease, flying, lost, touched)
    BY <1>4, <1>8, <1>9, <1>11, <2>1, CreateStands
  <2>3. cloud'[i].state # "absent"
    BY <1>2, <1>11 DEF Stands, WorldOK, CloudOK, Rollout!NewCanary
  <2>4. Stands(cloud', lease, flying, seen, touched)
    BY <1>4, <1>6, <1>7, <1>9, <2>2, <2>3, GoesOn
  <2> QED BY <1>1, <1>11, <2>2, <2>4 DEF RolloutInv
<1>12. CASE run' = lost /\ UNCHANGED cloud /\ flying' \in {flying, flying \cup {call}}
  BY <1>3, <1>4, <1>9, <1>8, <1>12, <1>1 DEF CreateOK, Stands, FlyingOK, RolloutInv
<1> QED BY <1>1, <1>10, <1>11, <1>12

\* The canary is leased if need be, destroyed, and seen to be gone.
LEMMA RemoveStep ==
    ASSUME RolloutInv, Rollout!RemoveCanary
    PROVE  RolloutInv'
<1> DEFINE r == [run EXCEPT !.canary = "gone", !.pc = "confirm"]
           i == CanaryOf(run)
<1>1. /\ run.pc = "remove"
      /\ \/ run' \in {r, Rollout!Thrown(run)} /\ UNCHANGED <<cloud, lease, flying, touched>>
         \/ Rollout!AcquireLease(i, run)
         \/ /\ cloud' = [cloud EXCEPT ![i] = Rollout!Absent]
            /\ lease' = [lease EXCEPT ![i] = 0]
            /\ run' \in {r, Rollout!Thrown(run)} /\ UNCHANGED <<flying, touched>>
         \/ run' = Rollout!Thrown(run) /\ UNCHANGED <<cloud, lease, flying, touched>>
  BY DEF Rollout!RemoveCanary, Rollout!Reading, Rollout!Canary, CanaryOf
<1>2. /\ RunOK(run) /\ Active(run) /\ run.canary # "unknown"
      /\ run \in RolloutRunType /\ i \in Rollout!Ids \ Machines
      /\ Stands(cloud, lease, flying, run, touched)
      /\ run.mode = "back" => run.left = << >> /\ run.failed = {}
  BY <1>1, RunTypes DEF RolloutInv, Stands, RunOK, CanaryOK, BackOK, Active, RolloutSteps, Closing,
                        AtMachine
<1>3. /\ r.pc = "confirm" /\ r.canary = "gone"
      /\ r \in RolloutRunType /\ SameBooks(run, r) /\ r.machine = run.machine
      /\ r.done = run.done /\ r.calm = run.calm
  BY <1>2 DEF RolloutRunType, RolloutSteps, Closing, SameBooks
<1> HIDE DEF r
<1>4. CanaryOK(r) /\ MachineOK(r)
  BY <1>2, <1>3 DEF RunOK, CanaryOK, MachineOK, AtMachine, SameBooks
<1>5. RunOK(r) /\ Active(r)
  BY <1>1, <1>2, <1>3, <1>4, Turns
  DEF RolloutSteps, Before, AtMachine, Closing, OnlyForward
<1>6. \A c : PeerOK(c, r)
  BY <1>3 DEF PeerOK, AtMachine
<1>7. ASSUME NEW c, NEW l, Stands(c, l, flying, run, touched)
      PROVE  Stands(c, l, flying, r, touched)
  BY <1>2, <1>3, <1>5, <1>6, <1>7, GoesOn
<1>8. CASE run' \in {r, Rollout!Thrown(run)} /\ UNCHANGED <<cloud, lease, flying, touched>>
  BY <1>2, <1>7, <1>8, LeadsOn
<1>9. CASE Rollout!AcquireLease(i, run)
  <2>1. ASSUME lease' = [lease EXCEPT ![i] = run.id]
        PROVE  Stands(cloud, lease', flying, [run EXCEPT !.sessions = @ \cup {i}], touched)
    BY <1>2, <2>1, LeaseStands, SessionStands
  <2> QED BY <1>2, <1>9, <2>1, LeaseSteps
<1>10. CASE /\ cloud' = [cloud EXCEPT ![i] = Rollout!Absent]
            /\ lease' = [lease EXCEPT ![i] = 0]
            /\ run' \in {r, Rollout!Thrown(run)} /\ UNCHANGED <<flying, touched>>
  BY <1>1, <1>2, <1>10, DestroyStands, <1>7, Leads
<1> QED BY <1>1, <1>2, <1>8, <1>9, <1>10, LeadsOn

\* Under its lease the machine is as it was seen: nobody else has changed it.
LEMMA InspectStep ==
    ASSUME RolloutInv, Rollout!Inspect
    PROVE  RolloutInv'
<1> DEFINE m == run.machine
           seen == [run EXCEPT !.version = cloud[m].instance, !.pc = "update"]
           r == [seen EXCEPT !.journal = Append(@, m)]
<1>1. /\ run.pc = "inspect" /\ UNCHANGED <<cloud, lease, flying, touched>>
      /\ \/ run' = Rollout!Thrown(run)
         \/ run.mode = "forward" /\ run' = r /\ cloud[m].instance = run.snapshot[m].instance
         \/ run.mode = "back" /\ run' = seen
  BY DEF Rollout!Inspect, Rollout!Polled, Rollout!Reading
<1>2. /\ RunOK(run) /\ Active(run) /\ run \in RolloutRunType /\ m \in Machines
      /\ Stands(cloud, lease, flying, run, touched)
      /\ m \in run.sessions /\ lease[m] = run.id
  BY <1>1 DEF RolloutInv, Stands, RunOK, MachineOK, Active, RolloutSteps, AtMachine, WorldOK,
              LeasesOK
<1>3. cloud[m] \in VmType /\ cloud[m].instance \in Nat
  BY <1>2 DEF Stands, WorldOK, CloudOK, VmType, Rollout!Ids
<1>4. run.journal \in Seq(Machines)
  BY <1>2 DEF RolloutRunType
<1>5. Append(run.journal, m) \in Seq(Machines)
  BY <1>2, <1>4, LongerJournal
<1>6. CASE run.mode = "forward" /\ run' = r /\ cloud[m].instance = run.snapshot[m].instance
  <2>1. /\ r \in RolloutRunType /\ r.pc = "update" /\ r.machine = m /\ r.id = run.id
        /\ r.mode = run.mode /\ r.snapshot = run.snapshot /\ r.left = run.left
        /\ r.journal = Append(run.journal, m) /\ r.version = cloud[m].instance
        /\ r.sessions = run.sessions /\ r.canary = run.canary /\ r.failed = run.failed
        /\ r.calm = run.calm /\ r.outcome = run.outcome /\ r.done = run.done
    BY <1>2, <1>3, <1>5 DEF RolloutRunType, RolloutSteps, AtMachine
  <2> HIDE DEF r
  <2>2. /\ Journal(r) = Journal(run) \cup {m} /\ Left(r) = Left(run) /\ Active(r)
        /\ ~Settled(r)
    BY <1>2, <1>4, <2>1, LongerJournal DEF Journal, Left, Active, RolloutSteps, AtMachine, Settled
  <2>3. /\ run.canary # "unknown" /\ run.outcome = "none" /\ run.id \in DOMAIN Canaries
        /\ run.id # 0 /\ run.snapshot \in [Machines -> VmType] /\ Left(run) \subseteq Journal(run)
    BY <1>1, <1>2, <1>6
    DEF RunOK, EarlyOK, CanaryOK, BackOK, RolloutSteps, Before, AtMachine
  <2>4. RunOK(r)
    <3>1. EarlyOK(r) /\ CanaryOK(r)
      BY <2>1, <2>3 DEF EarlyOK, CanaryOK, RolloutSteps, Before, AtMachine
    <3>2. MachineOK(r)
      BY <1>2, <2>1, <2>2 DEF RunOK, MachineOK, AtMachine
    <3>3. BackOK(r)
      BY <1>6, <2>1, <2>2, <2>3 DEF BackOK, AtMachine, Closing, OnlyForward
    <3> QED BY <2>1, <3>1, <3>2, <3>3 DEF RunOK
  <2>5. FlyingOK(cloud, flying, r)
    BY <1>2, <1>6, <2>3 DEF Stands, FlyingOK, CreateOK, UpdateOK
  <2>6. LeasesOK(lease, r)
    BY <1>2, <2>1, <2>2 DEF Stands, WorldOK, LeasesOK
  <2>7. OthersOK(cloud, r, touched)
    BY <1>3, <1>2, <1>6, <2>1, <2>2 DEF Stands, WorldOK, OthersOK
  <2>8. FleetOK(cloud, r, touched)
    BY <1>1, <1>2, <2>1, <2>2 DEF Stands, WorldOK, FleetOK, RolloutSteps, AtMachine
  <2>9. PeerOK(cloud, r)
    BY <1>1, <1>2, <1>3, <2>1 DEF Stands, WorldOK, PeerOK, AtMachine
  <2>10. Stands(cloud, lease, flying, r, touched)
    BY <1>2, <2>4, <2>5, <2>6, <2>7, <2>8, <2>9 DEF Stands, WorldOK
  <2> QED BY <1>1, <1>2, <1>6, <2>10, LeadsOn
<1>7. CASE run.mode = "back" /\ run' = seen
  <2>1. /\ seen \in RolloutRunType /\ seen.pc = "update" /\ SameBooks(run, seen)
        /\ seen.machine = m /\ seen.version = cloud[m].instance
        /\ seen.canary = run.canary /\ seen.calm = run.calm /\ seen.done = run.done
    BY <1>2, <1>3 DEF RolloutRunType, RolloutSteps, AtMachine, SameBooks
  <2> HIDE DEF seen
  <2>2. run.left # << >> /\ m = run.left[Len(run.left)] /\ m \in Left(run)
        /\ Left(run) \subseteq Journal(run)
    BY <1>1, <1>2, <1>7, ShorterLeft DEF RunOK, BackOK, AtMachine, RolloutRunType, Left
  <2>3. Journal(seen) = Journal(run)
    BY <2>1 DEF SameBooks, Journal
  <2>4. CanaryOK(seen) /\ MachineOK(seen)
    BY <1>2, <1>7, <2>1, <2>2, <2>3 DEF RunOK, CanaryOK, MachineOK, AtMachine, SameBooks
  <2>5. RunOK(seen) /\ Active(seen)
    BY <1>1, <1>2, <1>7, <2>1, <2>2, <2>4, Turns
    DEF RolloutSteps, Before, AtMachine, Closing, OnlyForward
  <2>6. PeerOK(cloud, seen)
    BY <1>3, <1>7, <2>1 DEF PeerOK, SameBooks
  <2>7. run.canary \in {"none", "intended"} => NoCanaries(cloud)
    BY <1>1, <1>2 DEF Stands, WorldOK, FleetOK, RolloutSteps, AtMachine
  <2>8. Stands(cloud, lease, flying, seen, touched)
    BY <1>2, <2>1, <2>5, <2>6, <2>7, GoesOn
  <2> QED BY <1>1, <1>2, <1>7, <2>8, LeadsOn
<1>8. CASE run' = Rollout!Thrown(run)
  BY <1>1, <1>2, <1>8, LeadsOn
<1> QED BY <1>1, <1>6, <1>7, <1>8

\* A call that changes the machine at hand.
LEMMA WriteSteps ==
    ASSUME RolloutInv, run.pc \in {"update", "adjust"}, NEW x \in VmType, NEW next,
           Rollout!Writing(run.machine, x, next), x.state # "absent",
           cloud[run.machine].instance <= x.instance,
           ASSUME cloud' = [cloud EXCEPT ![run.machine] = x], cloud'[run.machine] = x,
                  Stands(cloud', lease, flying, run, touched)
           PROVE  next = Rollout!Thrown(run) \/ Stands(cloud', lease, flying, next, touched)
    PROVE  RolloutInv'
<1> DEFINE m == run.machine
<1>1. /\ UNCHANGED <<lease, flying, touched>>
      /\ \/ UNCHANGED cloud /\ run' = Rollout!Thrown(run)
         \/ /\ cloud' = [cloud EXCEPT ![m] = x]
            /\ run' = next \/ run' = Rollout!Thrown(run)
  BY DEF Rollout!Writing
<1>2. /\ RunOK(run) /\ Active(run) /\ run \in RolloutRunType /\ m \in Journal(run)
      /\ Stands(cloud, lease, flying, run, touched) /\ m \in Machines
  BY DEF RolloutInv, Stands, RunOK, MachineOK, Active, RolloutSteps, AtMachine
<1>3. \/ run.mode = "forward" /\ run.pc \in {"update", "adjust"} /\ m = run.machine
      \/ run.mode = "back" /\ (run.failed # {} \/ run.left # << >>)
  BY <1>2 DEF RunOK, BackOK, AtMachine, RolloutRunType
<1>4. CASE /\ cloud' = [cloud EXCEPT ![m] = x]
           /\ run' = next \/ run' = Rollout!Thrown(run)
  <2>1. Stands(cloud', lease, flying, run, touched)
    BY <1>2, <1>3, <1>4, WriteStands
  <2>2. cloud'[m] = x
    BY <1>2, <1>4 DEF Stands, WorldOK, CloudOK, Rollout!Ids
  <2>3. next = Rollout!Thrown(run) \/ Stands(cloud', lease, flying, next, touched)
    BY <1>4, <2>1, <2>2
  <2> QED BY <1>1, <1>2, <1>4, <2>1, <2>3, Leads
<1> QED BY <1>1, <1>2, <1>4, LeadsOn

\* An update that was given up is still to be undone.
LEMMA LateUpdate ==
    ASSUME RolloutInv, run.pc = "update", NEW call, call.op = "update",
           call.machine = run.machine, call.version = run.version,
           call.image \in {None, "old", "new", "other"}, call.launch \in BOOLEAN
    PROVE  Stands(cloud, lease, flying \cup {call}, Rollout!Thrown(run), touched)
<1> DEFINE r == Rollout!Thrown(run)
<1>1. /\ RunOK(run) /\ Active(run) /\ run \in RolloutRunType /\ run.machine \in Journal(run)
      /\ run.mode \in {"forward", "back"}
      /\ run.version \in Nat /\ run.version <= cloud[run.machine].instance
  BY DEF RolloutInv, Stands, RunOK, MachineOK, Active, RolloutSteps, AtMachine, RolloutRunType,
         WorldOK, PeerOK
<1>2. Stands(cloud, lease, flying, r, touched)
  BY <1>1, ThrownStands DEF RolloutInv
<1>3. Journal(r) = Journal(run) /\ r.mode = "back" /\ r.pc = "restore"
      /\ (r.failed # {} \/ run.machine \in Left(r))
  <2>1. CASE run.mode = "forward"
    BY <1>1, <2>1, RunTypes
       DEF Rollout!Thrown, Rollout!RolledBack, RolloutRunType, Journal, Left
  <2>2. CASE run.mode = "back"
    <3>1. r = [Rollout!Tail1(run) EXCEPT !.failed = @ \cup {run.machine}]
      BY <2>2 DEF Rollout!Thrown
    <3>2. r.failed = run.failed \cup {run.machine}
      BY <1>1, <3>1 DEF Rollout!Tail1, RolloutRunType
    <3>3. r.journal = run.journal /\ r.mode = "back" /\ r.pc = "restore"
      BY <1>1, <2>2, <3>1 DEF Rollout!Tail1, RolloutRunType
    <3> QED BY <3>2, <3>3 DEF Journal
  <2> QED BY <1>1, <2>1, <2>2
<1> HIDE DEF r
<1>4. UpdateOK(cloud, r, call)
  BY <1>1, <1>3 DEF UpdateOK
<1>5. Stands(cloud, lease, flying \cup {call}, r, touched)
  BY <1>2, <1>4 DEF Stands, FlyingOK
<1> QED BY <1>5 DEF r

LEMMA UpdateStep ==
    ASSUME RolloutInv, Rollout!Update
    PROVE  RolloutInv'
<1> DEFINE m == run.machine
           wanted == Rollout!Wanted(m)
           launch == wanted.state = "started"
           next == [run EXCEPT !.version = @ + 1, !.pc = "await"]
           call == [op |-> "update", machine |-> m, run |-> run.id, version |-> run.version,
                    image |-> wanted.image, launch |-> launch]
<1>1. /\ run.pc = "update"
      /\ \/ \E state \in Rollout!NonRunning :
                Rollout!Writing(m, Rollout!Updated(cloud[m], wanted.image, launch, state), next)
         \/ run' = Rollout!Thrown(run) /\ UNCHANGED <<cloud, lease, flying, touched>>
         \/ Rollout!Late(call)
  BY DEF Rollout!Update
<1>2. /\ RunOK(run) /\ Active(run) /\ run \in RolloutRunType /\ m \in Machines
      /\ m \in Journal(run) /\ run.snapshot \in [Machines -> VmType] /\ run.version + 1 \in Nat
  BY <1>1 DEF RolloutInv, Stands, RunOK, EarlyOK, MachineOK, Active, RolloutSteps, AtMachine,
              RolloutRunType
<1>3. wanted.image \in {None, "old", "new", "other"}
  BY <1>2 DEF Rollout!Wanted, Rollout!TargetOf, VmType
<1>4. cloud[m] \in VmType /\ cloud[m].instance \in Nat
  BY <1>2 DEF RolloutInv, Stands, WorldOK, CloudOK, VmType, Rollout!Ids
<1>5. /\ next \in RolloutRunType /\ next.pc = "await" /\ SameBooks(run, next)
      /\ next.machine = m
      /\ next.canary = run.canary /\ next.calm = run.calm /\ next.done = run.done
  BY <1>2 DEF RolloutRunType, RolloutSteps, AtMachine, SameBooks
<1> HIDE DEF wanted, next
<1>6. Journal(next) = Journal(run)
  BY <1>5 DEF SameBooks, Journal
<1>7. CanaryOK(next) /\ MachineOK(next)
  BY <1>1, <1>2, <1>5, <1>6 DEF RunOK, CanaryOK, MachineOK, AtMachine, SameBooks
<1>8. run.mode = "back" => run.left # << >> /\ m = run.left[Len(run.left)]
  BY <1>1, <1>2 DEF RunOK, BackOK, AtMachine
<1>9. RunOK(next) /\ Active(next)
  BY <1>1, <1>2, <1>5, <1>7, <1>8, Turns
  DEF RolloutSteps, Before, AtMachine, Closing, OnlyForward
<1>10. ASSUME NEW state \in Rollout!NonRunning,
              Rollout!Writing(m, Rollout!Updated(cloud[m], wanted.image, launch, state), next)
       PROVE  RolloutInv'
  <2> DEFINE x == Rollout!Updated(cloud[m], wanted.image, launch, state)
  <2>1. /\ x \in VmType /\ x.state # "absent" /\ x.instance = cloud[m].instance + 1
        /\ cloud[m].instance <= x.instance
    <3>1. cloud[m].instance + 1 \in Nat /\ cloud[m].instance <= cloud[m].instance + 1
      BY <1>4
    <3> QED BY <1>3, <1>4, <3>1 DEF Rollout!Updated, VmType, Rollout!NonRunning
  <2> HIDE DEF x
  <2>2. ASSUME cloud' = [cloud EXCEPT ![m] = x], cloud'[m] = x,
               Stands(cloud', lease, flying, run, touched)
        PROVE  Stands(cloud', lease, flying, next, touched)
    <3>1. PeerOK(cloud', next)
      BY <1>1, <1>5, <2>2 DEF Stands, WorldOK, PeerOK, AtMachine, SameBooks
    <3>2. \A y \in flying : y.op = "update" /\ y.machine = m =>
                                y.version < cloud'[y.machine].instance
      BY <1>4, <2>1, <2>2 DEF RolloutInv, Stands, FlyingOK, CreateOK, UpdateOK
    <3>3. run.canary \in {"none", "intended"} => NoCanaries(cloud')
      BY <1>1, <2>2 DEF Stands, WorldOK, FleetOK, RolloutSteps, AtMachine
    <3> QED BY <1>2, <1>5, <1>9, <2>2, <3>1, <3>2, <3>3, GoesOn
  <2>3. Rollout!Writing(run.machine, x, next)
    BY <1>10 DEF x
  <2> QED BY <1>1, <2>1, <2>2, <2>3, WriteSteps
<1>11. CASE run' = Rollout!Thrown(run) /\ UNCHANGED <<cloud, lease, flying, touched>>
  BY <1>2, <1>11, LeadsOn
<1>12. CASE Rollout!Late(call)
  <2>1. /\ UNCHANGED <<cloud, lease, touched>> /\ flying' = flying \cup {call}
        /\ run' = Rollout!Thrown(run)
    BY <1>12 DEF Rollout!Late
  <2>2. /\ call.op = "update" /\ call.machine = run.machine /\ call.version = run.version
        /\ call.image = wanted.image /\ call.launch \in BOOLEAN
    OBVIOUS
  <2> HIDE DEF call
  <2> QED BY <1>1, <1>3, <2>1, <2>2, LateUpdate DEF RolloutInv
<1> QED BY <1>1, <1>10, <1>11, <1>12

\* The plan for a machine is one of steps.
LEMMA PlanIsOfSteps ==
    ASSUME NEW current, NEW wanted
    PROVE  Rollout!Transition(current, wanted) \in Seq(PlanStepType)
<1>1. \A a, b : Rollout!CordonTo(a, b) \in Seq(PlanStepType)
  <2> SUFFICES ASSUME NEW a, NEW b PROVE Rollout!CordonTo(a, b) \in Seq(PlanStepType)
    OBVIOUS
  <2>1. << >> \in Seq(PlanStepType) /\ <<"cordon">> \in Seq(PlanStepType)
        /\ <<"uncordon">> \in Seq(PlanStepType)
    BY DEF PlanStepType
  <2> QED BY <2>1 DEF Rollout!CordonTo
<1>2. <<"recreate">> \in Seq(PlanStepType) /\ <<"start", "stop">> \in Seq(PlanStepType)
  BY DEF PlanStepType
<1>3. \A s, u \in Seq(PlanStepType) : s \o u \in Seq(PlanStepType)
  BY ConcatProperties
<1>4. Rollout!CordonTo(current.cordoned, wanted.cordoned) \o <<"recreate">> \in Seq(PlanStepType)
  BY <1>1, <1>2, <1>3
<1>5. Rollout!CordonTo(current.cordoned, TRUE) \o <<"start", "stop">>
         \o Rollout!CordonTo(TRUE, wanted.cordoned) \in Seq(PlanStepType)
  BY <1>1, <1>2, <1>3
<1> QED BY <1>1, <1>4, <1>5 DEF Rollout!Transition

\* The machine at hand stays at hand.
LEMMA StaysAtMachine ==
    ASSUME NEW c, NEW l, NEW f, NEW r, NEW t, NEW r2, Stands(c, l, f, r, t),
           r.pc \in {"await", "adjust"}, r2.pc = "adjust", r2 \in RolloutRunType,
           SameBooks(r, r2), r2.machine = r.machine, r2.canary = r.canary, r2.calm = r.calm,
           r2.done = r.done
    PROVE  Stands(c, l, f, r2, t)
<1>1. RunOK(r) /\ Active(r) /\ Journal(r2) = Journal(r) /\ r.machine \in Machines
  BY DEF Stands, RunOK, MachineOK, Active, RolloutSteps, AtMachine, SameBooks, Journal
<1>2. CanaryOK(r2) /\ MachineOK(r2)
  BY <1>1 DEF RunOK, CanaryOK, MachineOK, AtMachine, SameBooks
<1>3. r.mode = "back" => r.left # << >> /\ r.machine = r.left[Len(r.left)]
  BY <1>1 DEF RunOK, BackOK, AtMachine
<1>4. RunOK(r2) /\ Active(r2)
  BY <1>1, <1>2, <1>3, Turns DEF RolloutSteps, Before, AtMachine, Closing, OnlyForward
<1>5. PeerOK(c, r2)
  BY DEF Stands, WorldOK, PeerOK, AtMachine, SameBooks
<1>6. r2.mode = "back" /\ r2.failed = {} => \A call \in f :
          call.op = "update" /\ call.machine = r2.machine => call.version < c[call.machine].instance
  BY DEF Stands, FlyingOK, CreateOK, UpdateOK, SameBooks
<1>7. r.canary \in {"none", "intended"} => NoCanaries(c)
  BY DEF Stands, WorldOK, FleetOK, RolloutSteps, AtMachine
<1> QED BY <1>1, <1>4, <1>5, <1>6, <1>7, GoesOn

LEMMA AwaitStep ==
    ASSUME RolloutInv, Rollout!AwaitUpdated
    PROVE  RolloutInv'
<1>1. /\ run.pc = "await" /\ UNCHANGED <<cloud, lease, flying, touched>>
      /\ \/ run' = Rollout!Thrown(run)
         \/ run' = [run EXCEPT !.plan = << >>, !.pc = "adjust"]
         \/ run' = [run EXCEPT !.plan = Rollout!Transition(cloud[run.machine],
                                                           Rollout!Wanted(run.machine)),
                               !.pc = "adjust"]
  BY DEF Rollout!AwaitUpdated, Rollout!Polled, Rollout!Reading
<1>2. run \in RolloutRunType /\ Active(run)
  BY <1>1 DEF RolloutInv, Stands, RunOK, Active, RolloutSteps, AtMachine
<1>3. ASSUME NEW plan \in Seq(PlanStepType)
      PROVE  Stands(cloud, lease, flying, [run EXCEPT !.plan = plan, !.pc = "adjust"], touched)
  <2> DEFINE r == [run EXCEPT !.plan = plan, !.pc = "adjust"]
  <2>1. /\ r \in RolloutRunType /\ r.pc = "adjust" /\ SameBooks(run, r)
        /\ r.machine = run.machine /\ r.canary = run.canary /\ r.calm = run.calm
        /\ r.done = run.done
    BY <1>2 DEF RolloutRunType, RolloutSteps, AtMachine, SameBooks
  <2> HIDE DEF r
  <2>2. Stands(cloud, lease, flying, r, touched)
    BY <1>1, <2>1, StaysAtMachine DEF RolloutInv
  <2> QED BY <2>2 DEF r
<1>4. << >> \in Seq(PlanStepType)
  BY EmptySeq
<1>5. run' = Rollout!Thrown(run) \/ Stands(cloud, lease, flying, run', touched)
  BY <1>1, <1>3, <1>4, PlanIsOfSteps
<1> QED BY <1>1, <1>2, <1>5, LeadsOn

LEMMA AdjustStep ==
    ASSUME RolloutInv, Rollout!Adjust
    PROVE  RolloutInv'
<1> DEFINE m == run.machine
           next == [run EXCEPT !.plan = Tail(@)]
           again == [next EXCEPT !.version = @ + 1]
           Anew(state) == Rollout!Updated(cloud[m], cloud[m].image, FALSE, state)
<1>1. /\ run.pc = "adjust" /\ run.plan # << >>
      /\ \/ \E cordoned \in BOOLEAN :
                Rollout!Writing(m, [cloud[m] EXCEPT !.cordoned = cordoned], next)
         \/ Rollout!Writing(m, [cloud[m] EXCEPT !.state = "started"], next)
         \/ Rollout!Writing(m, [cloud[m] EXCEPT !.state = "stopped", !.healthy = FALSE], next)
         \/ \E state \in Rollout!NonRunning :
                Rollout!Writing(m, Anew(state),
                                IF state = "created" THEN again ELSE Rollout!Thrown(run))
  <2>1. run.pc = "adjust" /\ run.plan # << >>
    BY DEF Rollout!Adjust
  <2> DEFINE step == Head(run.plan)
  <2>2. CASE /\ step \in {"cordon", "uncordon"}
             /\ Rollout!Writing(m, [cloud[m] EXCEPT !.cordoned = step = "cordon"], next)
    BY <2>1, <2>2
  <2>3. CASE ~(/\ step \in {"cordon", "uncordon"}
               /\ Rollout!Writing(m, [cloud[m] EXCEPT !.cordoned = step = "cordon"], next))
    BY <2>1, <2>3 DEF Rollout!Adjust
  <2> QED BY <2>2, <2>3
<1>2. /\ RunOK(run) /\ Active(run) /\ run \in RolloutRunType /\ m \in Machines
  BY <1>1 DEF RolloutInv, Stands, RunOK, MachineOK, Active, RolloutSteps, AtMachine
<1>3. cloud[m] \in VmType /\ cloud[m].instance \in Nat /\ cloud[m].state # "absent"
  BY <1>2 DEF RolloutInv, Stands, WorldOK, CloudOK, VmType, Rollout!Ids
<1>4. Tail(run.plan) \in Seq(PlanStepType) /\ run.version + 1 \in Nat
  BY <1>1, <1>2 DEF RolloutRunType
<1>5. /\ next \in RolloutRunType /\ next.pc = "adjust" /\ SameBooks(run, next)
      /\ next.machine = m
      /\ next.canary = run.canary /\ next.calm = run.calm /\ next.done = run.done
      /\ again \in RolloutRunType /\ again.pc = "adjust" /\ SameBooks(run, again)
      /\ again.machine = m
      /\ again.canary = run.canary /\ again.calm = run.calm /\ again.done = run.done
  BY <1>1, <1>2, <1>4 DEF RolloutRunType, SameBooks
<1> HIDE DEF next, again
<1>6. ASSUME NEW c, Stands(c, lease, flying, run, touched)
      PROVE  /\ Stands(c, lease, flying, next, touched)
             /\ Stands(c, lease, flying, again, touched)
  BY <1>1, <1>5, <1>6, StaysAtMachine
<1>7. ASSUME NEW x \in VmType, x.state # "absent", cloud[m].instance <= x.instance,
             NEW r \in {next, again, Rollout!Thrown(run)}, Rollout!Writing(m, x, r)
      PROVE  RolloutInv'
  BY <1>6, <1>1, <1>7, WriteSteps
<1>8. ASSUME NEW cordoned \in BOOLEAN,
             Rollout!Writing(m, [cloud[m] EXCEPT !.cordoned = cordoned], next)
      PROVE  RolloutInv'
  <2> DEFINE x == [cloud[m] EXCEPT !.cordoned = cordoned]
  <2>1. x \in VmType /\ x.state # "absent" /\ x.instance = cloud[m].instance
    BY <1>3 DEF VmType
  <2>2. cloud[m].instance <= x.instance
    BY <1>3, <2>1
  <2> HIDE DEF x
  <2>3. Rollout!Writing(m, x, next)
    BY <1>8 DEF x
  <2> QED BY <1>7, <2>1, <2>2, <2>3
<1>9. ASSUME NEW state \in {"started", "stopped"}, NEW healthy \in {cloud[m].healthy, FALSE},
             NEW x, x = [cloud[m] EXCEPT !.state = state, !.healthy = healthy],
             Rollout!Writing(m, x, next)
      PROVE  RolloutInv'
  <2>0. healthy \in BOOLEAN
    BY <1>3 DEF VmType
  <2>1. x \in VmType /\ x.state # "absent" /\ x.instance = cloud[m].instance
    BY <1>3, <1>9, <2>0 DEF VmType, Rollout!NonRunning
  <2>2. cloud[m].instance <= x.instance
    BY <1>3, <2>1
  <2> QED BY <1>7, <1>9, <2>1, <2>2
<1>10. ASSUME NEW state \in Rollout!NonRunning,
              Rollout!Writing(m, Anew(state),
                              IF state = "created" THEN again ELSE Rollout!Thrown(run))
       PROVE  RolloutInv'
  <2> DEFINE x == Anew(state)
             r == IF state = "created" THEN again ELSE Rollout!Thrown(run)
  <2>1. /\ x \in VmType /\ x.state # "absent" /\ cloud[m].instance <= x.instance
    <3>1. cloud[m].instance + 1 \in Nat /\ cloud[m].instance <= cloud[m].instance + 1
      BY <1>3
    <3> QED BY <1>3, <3>1 DEF Rollout!Updated, VmType, Rollout!NonRunning
  <2>2. r \in {next, again, Rollout!Thrown(run)}
    OBVIOUS
  <2>3. Rollout!Writing(m, x, r)
    BY <1>10
  <2> HIDE DEF x, r
  <2> QED BY <1>7, <2>1, <2>2, <2>3
<1>11. CASE Rollout!Writing(m, [cloud[m] EXCEPT !.state = "started"], next)
  BY <1>3, <1>9, <1>11 DEF VmType
<1>12. CASE Rollout!Writing(m, [cloud[m] EXCEPT !.state = "stopped", !.healthy = FALSE], next)
  BY <1>9, <1>12
<1> QED BY <1>1, <1>8, <1>10, <1>11, <1>12

LEMMA AdjustedStep ==
    ASSUME RolloutInv, Rollout!Adjusted
    PROVE  RolloutInv'
<1>1. run.pc = "adjust" /\ UNCHANGED <<cloud, lease, flying, touched>>
  BY DEF Rollout!Adjusted
<1>2. /\ RunOK(run) /\ Active(run) /\ run \in RolloutRunType /\ run.machine \in Machines
      /\ run.mode \in {"forward", "back"}
  BY <1>1 DEF RolloutInv, Stands, RunOK, MachineOK, Active, RolloutSteps, AtMachine,
              RolloutRunType
<1>3. CASE run.mode = "forward"
  <2> DEFINE r == [run EXCEPT !.done = @ \cup {run.machine}, !.pc = "next"]
  <2>1. run' = r
    BY <1>3 DEF Rollout!Adjusted
  <2>2. /\ r \in RolloutRunType /\ r.pc = "next" /\ SameBooks(run, r)
        /\ r.machine = run.machine /\ r.canary = run.canary /\ r.calm = run.calm
        /\ run.done \subseteq r.done
    BY <1>2 DEF RolloutRunType, RolloutSteps, OnlyForward, SameBooks
  <2> HIDE DEF r
  <2>3. run.canary # "unknown"
    BY <1>1, <1>2, <1>3 DEF RunOK, CanaryOK
  <2>4. CanaryOK(r) /\ MachineOK(r)
    BY <1>2, <2>2, <2>3 DEF RunOK, CanaryOK, MachineOK, AtMachine, SameBooks
  <2>5. RunOK(r) /\ Active(r)
    BY <1>1, <1>2, <1>3, <2>2, <2>4, Turns
    DEF RolloutSteps, Before, AtMachine, Closing, OnlyForward
  <2> QED BY <1>1, <1>2, <2>1, <2>2, <2>5, PassesOn
<1>4. CASE run.mode = "back"
  BY <1>4, <1>1, NextLeft, <1>2, LeadsOn DEF Rollout!Adjusted, RolloutInv, AtMachine
<1> QED BY <1>2, <1>3, <1>4

\* Every machine has the image: the canary is to go, or it never was.
LEMMA AttestStep ==
    ASSUME RolloutInv, Rollout!Attest
    PROVE  RolloutInv'
<1> DEFINE pc == IF Rollout!CanaryActive THEN "remove" ELSE "confirm"
           r == [run EXCEPT !.pc = pc]
<1>1. /\ run.pc = "attest" /\ UNCHANGED <<cloud, lease, flying, touched>>
      /\ run' = r \/ run' = Rollout!Thrown(run)
  BY DEF Rollout!Attest, Rollout!Polled, Rollout!Reading
<1>2. /\ RunOK(run) /\ Active(run) /\ run.mode = "forward" /\ run.canary # "unknown"
      /\ run \in RolloutRunType /\ pc \in {"remove", "confirm"}
  BY <1>1 DEF RolloutInv, Stands, RunOK, BackOK, CanaryOK, Active, RolloutSteps, OnlyForward,
              AtMachine
<1> HIDE DEF pc
<1>3. /\ r.pc = pc /\ r \in RolloutRunType /\ SameBooks(run, r)
      /\ r.machine = run.machine /\ r.canary = run.canary /\ r.calm = run.calm
      /\ r.done = run.done
  BY <1>2 DEF RolloutRunType, RolloutSteps, Closing, SameBooks
<1> HIDE DEF r
<1>4. CanaryOK(r) /\ MachineOK(r)
  BY <1>2, <1>3 DEF RunOK, CanaryOK, MachineOK, AtMachine, SameBooks
<1>5. RunOK(r) /\ Active(r)
  BY <1>1, <1>2, <1>3, <1>4, Turns
  DEF RolloutSteps, Before, AtMachine, Closing, OnlyForward
<1>6. PeerOK(cloud, r)
  BY <1>2, <1>3 DEF PeerOK, AtMachine
<1>7. run.canary \in {"none", "intended"} => NoCanaries(cloud)
  BY <1>1 DEF RolloutInv, Stands, WorldOK, FleetOK, RolloutSteps, OnlyForward
<1>8. r.mode = "forward" /\ r.pc \notin {"await", "adjust", "inspect", "release"}
  BY <1>2, <1>3 DEF SameBooks
<1>9. Stands(cloud, lease, flying, r, touched)
  BY <1>2, <1>3, <1>5, <1>6, <1>7, <1>8, GoesOn DEF RolloutInv
<1> QED BY <1>1, <1>2, <1>9, LeadsOn

\* The next machine that is to be restored is one of the journal, and leased.
LEMMA RestoreStep ==
    ASSUME RolloutInv, Rollout!Restore
    PROVE  RolloutInv'
<1>1. run.pc = "restore" /\ UNCHANGED <<cloud, lease, flying, touched>>
  BY DEF Rollout!Restore
<1>2. /\ RunOK(run) /\ Active(run) /\ run.mode = "back" /\ run \in RolloutRunType
      /\ Left(run) \subseteq Journal(run) /\ Journal(run) \subseteq Machines
  BY <1>1, RunTypes DEF RolloutInv, Stands, RunOK, BackOK, Active, RolloutSteps
<1>3. CASE run.left # << >>
  <2> DEFINE m == run.left[Len(run.left)]
             r == [run EXCEPT !.machine = m, !.pc = "inspect"]
  <2>1. run' = r
    BY <1>3 DEF Rollout!Restore
  <2>2. m \in Left(run)
    BY <1>2, <1>3, ShorterLeft DEF RolloutRunType, Left
  <2>3. m \in Machines /\ m \in run.sessions /\ lease[m] = run.id
    BY <1>2, <2>2 DEF RolloutInv, Stands, WorldOK, LeasesOK
  <2>4. /\ r.pc = "inspect" /\ r \in RolloutRunType /\ SameBooks(run, r)
        /\ r.machine = m /\ r.canary = run.canary /\ r.calm = run.calm /\ r.done = run.done
    BY <1>2, <2>3 DEF RolloutRunType, RolloutSteps, AtMachine, SameBooks
  <2>5. m = run.left[Len(run.left)]
    OBVIOUS
  <2> HIDE DEF r, m
  <2>6. CanaryOK(r) /\ MachineOK(r)
    BY <1>2, <2>3, <2>4 DEF RunOK, CanaryOK, MachineOK, AtMachine, SameBooks
  <2>7. RunOK(r) /\ Active(r)
    BY <1>1, <1>2, <1>3, <2>4, <2>5, <2>6, Turns
    DEF RolloutSteps, Before, AtMachine, Closing, OnlyForward
  <2>8. PeerOK(cloud, r)
    BY <1>2, <2>4 DEF PeerOK, SameBooks
  <2>9. run.canary \in {"none", "intended"} => NoCanaries(cloud)
    BY <1>1 DEF RolloutInv, Stands, WorldOK, FleetOK, RolloutSteps
  <2>10. r.machine \in r.sessions /\ lease[r.machine] = run.id
    BY <2>3, <2>4 DEF SameBooks
  <2>11. Stands(cloud, lease, flying, r, touched)
    BY <1>2, <2>4, <2>7, <2>8, <2>9, <2>10, GoesOn DEF RolloutInv
  <2> QED BY <1>1, <1>2, <2>1, <2>11, LeadsOn
<1>4. CASE run.left = << >>
  <2> DEFINE pc == IF run.canary = "unknown" THEN "locate" ELSE "verify"
             r == [run EXCEPT !.pc = pc]
  <2>1. run' = r
    BY <1>4 DEF Rollout!Restore
  <2>2. pc \in {"locate", "verify"} /\ (pc = "locate" <=> run.canary = "unknown")
    OBVIOUS
  <2> HIDE DEF pc
  <2>3. /\ r.pc = pc /\ r \in RolloutRunType /\ SameBooks(run, r)
        /\ r.machine = run.machine /\ r.canary = run.canary /\ r.calm = run.calm
        /\ r.done = run.done
    BY <1>2, <2>2 DEF RolloutRunType, RolloutSteps, Closing, SameBooks
  <2> HIDE DEF r
  <2>4. CanaryOK(r) /\ MachineOK(r)
    BY <1>2, <2>2, <2>3 DEF RunOK, CanaryOK, MachineOK, AtMachine, SameBooks
  <2>5. RunOK(r) /\ Active(r)
    BY <1>1, <1>2, <1>4, <2>2, <2>3, <2>4, Turns
    DEF RolloutSteps, Before, AtMachine, Closing, OnlyForward
  <2>6. r.pc \notin {"await", "inspect", "update", "adjust", "release", "remove", "lease"}
    BY <2>2, <2>3
  <2> QED BY <1>1, <1>2, <2>1, <2>3, <2>5, <2>6, PassesOn
<1> QED BY <1>3, <1>4

\* The fleet is what it was, so its stand-in may go.
LEMMA VerifyStep ==
    ASSUME RolloutInv, Rollout!VerifyOriginals
    PROVE  RolloutInv'
<1> DEFINE pc == IF run.canary \in {"none", "gone"} THEN "confirm" ELSE "remove"
           r == [run EXCEPT !.pc = pc]
<1>1. /\ run.pc = "verify" /\ UNCHANGED <<cloud, lease, flying, touched>>
      /\ \/ /\ run' = r /\ run.failed = {}
            /\ \A m \in Machines : Rollout!Same(cloud[m], run.snapshot[m])
            /\ Rollout!Healthy
         \/ run' = Rollout!Thrown(run)
  BY DEF Rollout!VerifyOriginals, Rollout!OriginalFleet, Rollout!Polled, Rollout!Reading
<1>2. /\ RunOK(run) /\ Active(run) /\ run.canary # "unknown"
      /\ run \in RolloutRunType /\ pc \in {"remove", "confirm"}
      /\ run.mode = "back" => run.left = << >>
  BY <1>1 DEF RolloutInv, Stands, RunOK, BackOK, CanaryOK, Active, RolloutSteps, Closing, AtMachine
<1> HIDE DEF pc
<1>3. /\ r.pc = pc /\ r \in RolloutRunType /\ SameBooks(run, r)
      /\ r.machine = run.machine /\ r.canary = run.canary /\ r.calm = run.calm
      /\ r.done = run.done
  BY <1>2 DEF RolloutRunType, RolloutSteps, Closing, SameBooks
<1> HIDE DEF r
<1>4. CanaryOK(r) /\ MachineOK(r)
  BY <1>2, <1>3 DEF RunOK, CanaryOK, MachineOK, AtMachine, SameBooks
<1>5. CASE run' = Rollout!Thrown(run)
  BY <1>1, <1>2, <1>5, LeadsOn
<1>6. CASE run' # Rollout!Thrown(run)
  <2>1. RunOK(r) /\ Active(r)
    BY <1>1, <1>2, <1>3, <1>4, <1>6, Turns
    DEF RolloutSteps, Before, AtMachine, Closing, OnlyForward
  <2>2. PeerOK(cloud, r)
    BY <1>2, <1>3 DEF PeerOK, AtMachine
  <2>3. run.canary \in {"none", "intended"} => NoCanaries(cloud)
    BY <1>1 DEF RolloutInv, Stands, WorldOK, FleetOK, RolloutSteps, Closing
  <2>4. \A m \in Machines \ touched : /\ Rollout!Same(cloud[m], run.snapshot[m])
                                      /\ cloud[m].state = "started" => cloud[m].healthy
    BY <1>1, <1>6 DEF Rollout!Healthy
  <2>5. r.pc \notin {"await", "adjust", "inspect", "release"}
    BY <1>2, <1>3
  <2>6. Stands(cloud, lease, flying, r, touched)
    BY <1>2, <1>3, <2>1, <2>2, <2>3, <2>4, <2>5, GoesOn DEF RolloutInv
  <2> QED BY <1>1, <1>2, <1>6, <2>6, LeadsOn
<1> QED BY <1>5, <1>6

\* The fleet without the canary is what the outcome will say.
LEMMA ConfirmStep ==
    ASSUME RolloutInv, Rollout!Confirm
    PROVE  RolloutInv'
<1> DEFINE r == [run EXCEPT !.pc = "release"]
           wanted(m) == IF run.mode = "forward" THEN Rollout!TargetOf(run.snapshot[m])
                        ELSE run.snapshot[m]
<1>1. /\ run.pc = "confirm" /\ UNCHANGED <<cloud, lease, flying, touched>>
      /\ \/ /\ run' = r /\ Rollout!Present = Machines
            /\ \A m \in Machines : Rollout!Same(cloud[m], wanted(m))
         \/ run' = Rollout!Thrown(run)
  BY DEF Rollout!Confirm, Rollout!OriginalFleet, Rollout!ReleaseFleet, Rollout!Polled,
         Rollout!Reading
<1>2. /\ RunOK(run) /\ Active(run) /\ run.canary # "unknown" /\ run.outcome = "none"
      /\ run \in RolloutRunType
      /\ run.mode = "back" => run.left = << >> /\ run.failed = {}
  BY <1>1 DEF RolloutInv, Stands, RunOK, EarlyOK, BackOK, CanaryOK, Active, RolloutSteps, Closing,
              AtMachine
<1>3. /\ r.pc = "release" /\ r \in RolloutRunType /\ SameBooks(run, r)
      /\ r.machine = run.machine /\ r.canary = run.canary /\ r.calm = run.calm
      /\ r.done = run.done
  BY <1>2 DEF RolloutRunType, RolloutSteps, Closing, SameBooks
<1> HIDE DEF r
<1>4. CanaryOK(r) /\ MachineOK(r)
  BY <1>2, <1>3 DEF RunOK, CanaryOK, MachineOK, AtMachine, SameBooks
<1>5. CASE run' = Rollout!Thrown(run)
  BY <1>1, <1>2, <1>5, LeadsOn
<1>6. CASE run' # Rollout!Thrown(run)
  <2>1. RunOK(r) /\ Active(r)
    BY <1>1, <1>2, <1>3, <1>4, Turns
    DEF RolloutSteps, Before, AtMachine, Closing, OnlyForward
  <2>2. PeerOK(cloud, r)
    BY <1>3 DEF PeerOK, AtMachine
  <2>3. NoCanaries(cloud)
    BY <1>1, <1>6 DEF NoCanaries, Rollout!Present
  <2>4. \A m \in Machines : Goal(r, m) = wanted(m)
    BY <1>2, <1>3 DEF Goal, SameBooks
  <2>5. \A m \in Machines \ touched : Rollout!Same(cloud[m], Goal(r, m))
    BY <1>1, <1>6, <2>4
  <2>6. Stands(cloud, lease, flying, r, touched)
    BY <1>2, <1>3, <2>1, <2>2, <2>3, <2>5, GoesOn DEF RolloutInv
  <2> QED BY <1>1, <1>2, <1>6, <2>6, LeadsOn
<1> QED BY <1>5, <1>6

\* The leases are released and the rollout ends, or it does not know.
LEMMA ReleaseStep ==
    ASSUME RolloutInv, Rollout!Release
    PROVE  RolloutInv'
<1>1. PICK kept \in SUBSET run.sessions :
          /\ lease' = [m \in Rollout!Ids |-> IF m \in run.sessions \ kept /\ Rollout!Ours(m)
                                             THEN 0 ELSE lease[m]]
          /\ \/ kept = {} /\ run' = Rollout!Ended(run, Rollout!Outcome)
             \/ run' = Rollout!Thrown(run)
  BY DEF Rollout!Release
<1>2. run.pc = "release" /\ UNCHANGED <<cloud, flying, touched>>
  BY DEF Rollout!Release
<1>3. /\ RunOK(run) /\ Active(run) /\ run \in RolloutRunType /\ run.canary # "unknown"
      /\ run.mode = "back" => run.left = << >> /\ run.failed = {}
      /\ run.outcome = "none" /\ run.id \in DOMAIN Canaries /\ run.id # 0
      /\ Stands(cloud, lease, flying, run, touched) /\ run.mode \in {"forward", "back"}
  BY <1>2 DEF RolloutInv, Stands, RunOK, EarlyOK, BackOK, CanaryOK, Active, RolloutSteps, Closing,
              AtMachine, RolloutRunType
<1>4. lease' \in [Rollout!Ids -> Nat] /\ \A i \in Rollout!Ids : lease'[i] # lease[i] => lease'[i] = 0
  BY <1>1, <1>3 DEF Stands, WorldOK, CloudOK
<1>5. CASE run' = Rollout!Thrown(run)
  <2> DEFINE r == Rollout!Ended(run, "emergency")
  <2>1. run' = r
    BY <1>2, <1>5 DEF Rollout!Thrown
  <2>2. Stands(cloud, lease, flying, r, touched)
    BY <1>3, Emergency
  <2>3. r.pc = "ended"
    BY <1>3 DEF RolloutRunType, Rollout!Ended
  <2> HIDE DEF r
  <2>4. ~Active(r)
    BY <2>3 DEF Active, RolloutSteps, Before, AtMachine, Closing, OnlyForward
  <2>5. Stands(cloud, lease', flying, r, touched)
    BY <1>4, <2>2, <2>4, LeasesGo
  <2> QED BY <1>2, <2>1, <2>5 DEF RolloutInv
<1>6. CASE kept = {} /\ run' = Rollout!Ended(run, Rollout!Outcome)
  <2> DEFINE r == Rollout!Ended(run, Rollout!Outcome)
  <2>1. /\ Rollout!Outcome \in {"passed", "failed", "reverted"}
        /\ Rollout!Outcome = "passed" <=> run.mode = "forward"
    BY <1>3 DEF Rollout!Outcome
  <2>2. /\ r \in RolloutRunType /\ r.pc = "ended" /\ r.outcome = Rollout!Outcome
        /\ r.id = run.id /\ r.mode = run.mode /\ r.snapshot = run.snapshot /\ r.done = run.done
        /\ r.journal = run.journal /\ r.left = run.left /\ r.failed = run.failed
        /\ r.sessions = run.sessions /\ r.canary = run.canary /\ r.calm = run.calm
        /\ r.machine = run.machine
    BY <1>3, <2>1 DEF RolloutRunType, Rollout!Ended
  <2> HIDE DEF r
  <2>3. Journal(r) = Journal(run) /\ Left(r) = Left(run) /\ CanaryOf(r) = CanaryOf(run)
    BY <2>2 DEF Journal, Left, CanaryOf
  <2>4. ~Active(r) /\ r.pc \notin RolloutSteps
    BY <2>2 DEF Active, RolloutSteps, Before, AtMachine, Closing, OnlyForward
  <2>5. RunOK(r)
    <3>1. EarlyOK(r)
      BY <1>3, <2>1, <2>2, <2>4 DEF EarlyOK, Before, RolloutSteps
    <3>2. CanaryOK(r) /\ MachineOK(r)
      BY <1>3, <2>2 DEF CanaryOK, MachineOK, AtMachine, RunOK
    <3>3. BackOK(r)
      BY <1>3, <2>1, <2>2, <2>3 DEF BackOK, RunOK, AtMachine, Closing, OnlyForward
    <3> QED BY <2>2, <3>1, <3>2, <3>3 DEF RunOK
  <2>6. FlyingOK(cloud, flying, r)
    BY <2>2, <2>3, <1>3 DEF FlyingOK, CreateOK, UpdateOK, Stands
  <2>7. LeasesOK(lease', r)
    BY <1>3, <1>1, <1>6, <2>2, <2>4 DEF RolloutRunType, Rollout!Ours, LeasesOK
  <2>8. OthersOK(cloud, r, touched)
    BY <1>3, <2>2, <2>3 DEF Stands, WorldOK, OthersOK
  <2>9. FleetOK(cloud, r, touched)
    BY <1>3, <2>1, <2>2, <1>2, <2>4 DEF Goal, Settled, Stands, WorldOK, FleetOK
  <2>10. PeerOK(cloud, r) /\ CloudOK(cloud, lease', touched)
    BY <1>3, <1>4, <2>2 DEF PeerOK, AtMachine, Stands, WorldOK, CloudOK
  <2>11. Stands(cloud, lease', flying, r, touched)
    BY <2>5, <2>6, <2>7, <2>8, <2>9, <2>10 DEF Stands, WorldOK
  <2> QED BY <1>2, <1>6, <2>11 DEF RolloutInv, r
<1> QED BY <1>1, <1>5, <1>6

\* A call that was given up lands where it does no harm, or is refused.
LEMMA LandStep ==
    ASSUME RolloutInv, NEW call \in flying, Rollout!Land(call)
    PROVE  RolloutInv'
<1>1. UNCHANGED <<lease, run, touched>> /\ flying' = flying \ {call}
  BY DEF Rollout!Land
<1>2. /\ Stands(cloud, lease, flying, run, touched)
      /\ Stands(cloud, lease, flying \ {call}, run, touched)
  BY FlyingDrops DEF RolloutInv
<1>3. CreateOK(cloud, run, call) \/ UpdateOK(cloud, run, call)
  BY <1>2 DEF Stands, FlyingOK
<1>4. CASE call.op = "create" /\ cloud' = [cloud EXCEPT ![call.machine] = Rollout!NewCanary]
  <2>1. call = [op |-> "create", machine |-> CanaryOf(run)] /\ run.canary = "unknown"
    BY <1>3, <1>4 DEF CreateOK, UpdateOK
  <2>2. \A x \in flying \ {call} : ~CreateOK(cloud, run, x)
    BY <2>1 DEF CreateOK
  <2>3. call.machine = CanaryOf(run)
    BY <2>1
  <2>4. Stands(cloud', lease, flying \ {call}, run, touched)
    BY <1>2, <1>4, <2>1, <2>2, <2>3, CreateStands
  <2> QED BY <1>1, <2>4 DEF RolloutInv
<1>5. CASE /\ call.op = "update" /\ cloud[call.machine].instance = call.version
           /\ \E state \in Rollout!NonRunning :
                 cloud' = [cloud EXCEPT ![call.machine] =
                             Rollout!Updated(@, call.image, call.launch, state)]
  <2> DEFINE m == call.machine
  <2>1. UpdateOK(cloud, run, call)
    BY <1>3, <1>5 DEF CreateOK
  <2>2. m \in Journal(run) /\ m \in Machines /\ call.version \in Nat /\ m \in Rollout!Ids
    BY <1>2, <2>1, RunTypes DEF UpdateOK, Stands, Rollout!Ids
  <2>3. cloud \in [Rollout!Ids -> VmType] /\ cloud[m] \in VmType /\ cloud[m].instance \in Nat
    BY <1>2, <2>2 DEF Stands, WorldOK, CloudOK, VmType
  <2>4. run.mode = "back" /\ (run.failed # {} \/ run.left # << >>)
    BY <1>5, <2>2, <1>2, <2>1, RunTypes DEF UpdateOK, Stands
  <2>5. PICK state \in Rollout!NonRunning :
            cloud' = [cloud EXCEPT ![m] = Rollout!Updated(cloud[m], call.image, call.launch, state)]
    BY <1>5, <2>2, <2>3
  <2> DEFINE x == Rollout!Updated(cloud[m], call.image, call.launch, state)
  <2>6. x \in VmType /\ x.state # "absent" /\ cloud[m].instance <= x.instance
    <3>1. cloud[m].instance + 1 \in Nat /\ cloud[m].instance <= cloud[m].instance + 1
      BY <2>3
    <3> QED BY <2>1, <2>3, <3>1 DEF UpdateOK, Rollout!Updated, VmType, Rollout!NonRunning
  <2>7. cloud' = [cloud EXCEPT ![m] = x]
    BY <2>5
  <2> HIDE DEF x, m
  <2>8. Stands(cloud', lease, flying \ {call}, run, touched)
    BY <1>2, <2>2, <2>4, <2>6, <2>7, WriteStands
  <2> QED BY <1>1, <2>8 DEF RolloutInv
<1>6. CASE UNCHANGED cloud
  BY <1>1, <1>2, <1>6 DEF RolloutInv
<1> QED BY <1>4, <1>5, <1>6 DEF Rollout!Land

\* The steps of others: a health check, a lease that runs out, a deployment, the
\* death of the rollout and the next one.
LEMMA WorldSteps ==
    ASSUME RolloutInv,
           \/ \E m \in Rollout!Ids : Rollout!Warm(m) \/ Rollout!Lapse(m)
           \/ \E m \in Machines : Rollout!Touch(m)
           \/ Rollout!Crash \/ Rollout!StartRun
    PROVE  RolloutInv'
<1>1. /\ Stands(cloud, lease, flying, run, touched) /\ run \in RolloutRunType
      /\ Rollout!Running <=> Active(run)
  BY DEF RolloutInv, Stands, RunOK, RolloutRunType, Rollout!Running, Active, RolloutSteps, Before,
         AtMachine, Closing, OnlyForward
<1>2. ASSUME NEW m \in Rollout!Ids, Rollout!Warm(m)
      PROVE  RolloutInv'
  BY <1>2, <1>1, WarmStands DEF Rollout!Warm, RolloutInv
<1>3. ASSUME NEW m \in Rollout!Ids, Rollout!Lapse(m)
      PROVE  RolloutInv'
  <2>1. /\ lease' = [lease EXCEPT ![m] = 0] /\ UNCHANGED <<cloud, flying, run, touched>>
        /\ ~(Rollout!Running /\ Rollout!Ours(m))
    BY <1>3 DEF Rollout!Lapse
  <2>2. /\ lease \in [Rollout!Ids -> Nat] /\ lease' \in [Rollout!Ids -> Nat]
        /\ \A i \in Rollout!Ids : lease'[i] # lease[i] => i = m /\ lease'[i] = 0
    BY <1>1, <2>1 DEF Stands, WorldOK, CloudOK
  <2>3. Stands(cloud, lease', flying, run, touched)
    BY <1>1, <2>1, <2>2, LeasesGo DEF Rollout!Ours
  <2> QED BY <2>1, <2>3 DEF RolloutInv
<1>4. ASSUME NEW m \in Machines, Rollout!Touch(m)
      PROVE  RolloutInv'
  <2>1. /\ Active(run) /\ run.snapshot # << >> /\ lease[m] = 0
        /\ touched' = touched \cup {m} /\ run' = [run EXCEPT !.calm = FALSE]
        /\ UNCHANGED <<lease, flying>>
    BY <1>1, <1>4 DEF Rollout!Touch
  <2>2. cloud' = [cloud EXCEPT ![m] = Meddled(cloud[m])]
    BY <1>1, <1>4 DEF Stands, WorldOK, CloudOK, Rollout!Ids, Rollout!Touch, Meddled, VmType
  <2>3. Stands(cloud', lease, flying, run', touched')
    BY <1>1, <2>1, <2>2, TouchStands
  <2> QED BY <2>1, <2>3 DEF RolloutInv
<1>5. CASE Rollout!Crash
  BY <1>1, <1>5, DeadStands DEF Rollout!Crash, RolloutInv
<1>6. CASE Rollout!StartRun
  <2>1. /\ run.id < Len(Canaries) /\ flying = {} /\ touched' = {}
        /\ run' = [Rollout!Idle EXCEPT !.id = run.id + 1, !.pc = "preflight"]
        /\ UNCHANGED <<cloud, lease, flying>>
    BY <1>6 DEF Rollout!StartRun
  <2>2. run.id \in Nat /\ Len(Canaries) \in Nat /\ DOMAIN Canaries = 1..Len(Canaries)
    BY <1>1, RolloutAssumption DEF RolloutRunType
  <2>3. run.id + 1 \in Nat /\ run.id + 1 \in DOMAIN Canaries /\ run.id + 1 # 0
    BY <2>1, <2>2
  <2>4. CloudOK(cloud, lease, {})
    BY <1>1 DEF Stands, WorldOK, CloudOK
  <2> DEFINE id == run.id + 1
  <2> HIDE DEF id
  <2>5. Stands(cloud, lease, {}, [Rollout!Idle EXCEPT !.id = id, !.pc = "preflight"], {})
    BY <2>3, <2>4, FreshStands DEF id
  <2> QED BY <2>1, <2>5 DEF RolloutInv, id
<1> QED BY <1>2, <1>3, <1>4, <1>5, <1>6

LEMMA RolloutInit == Rollout!Init => RolloutInv
<1> SUFFICES ASSUME Rollout!Init PROVE RolloutInv
  OBVIOUS
<1>1. CloudOK(cloud, lease, {})
  <2>1. Rollout!Absent \in VmType /\ Rollout!Absent.state = "absent"
    BY DEF Rollout!Absent, VmType
  <2>2. cloud \in [Rollout!Ids -> [state : {"started"} \cup Rollout!NonRunning,
                                   image : {"old", "new"}, cordoned : BOOLEAN,
                                   healthy : BOOLEAN, instance : {1}] \cup {Rollout!Absent}]
        /\ lease = [m \in Rollout!Ids |-> 0] /\ \A m \in Machines : cloud[m].state # "absent"
    BY DEF Rollout!Init
  <2>3. \A v \in [state : {"started"} \cup Rollout!NonRunning, image : {"old", "new"},
                  cordoned : BOOLEAN, healthy : BOOLEAN, instance : {1}] : v \in VmType
    BY DEF VmType
  <2>4. cloud \in [Rollout!Ids -> VmType] /\ lease \in [Rollout!Ids -> Nat]
    BY <2>1, <2>2, <2>3
  <2> QED BY <2>2, <2>4 DEF CloudOK
<1>2. flying = {} /\ touched = {} /\ run = Rollout!Idle
  BY DEF Rollout!Init
<1>3. Stands(cloud, lease, {}, run, {})
  BY <1>1, <1>2, FreshStands
<1> QED BY <1>2, <1>3 DEF RolloutInv

LEMMA RolloutNext == RolloutInv /\ Rollout!Next => RolloutInv'
BY LandStep, WorldSteps, BeginStep, LocateStep, AwaitCanaryStep, NextMachineStep, PeerStep,
   AdoptStep, AcquireStep, PreflightStep, RecheckStep, CleanStep, CreateCanaryStep, RemoveStep,
   InspectStep, UpdateStep, AwaitStep, AdjustStep, AdjustedStep, AttestStep, RestoreStep,
   VerifyStep, ConfirmStep, ReleaseStep
DEF Rollout!Next, Rollout!Forward

LEMMA RolloutRest == RolloutInv /\ UNCHANGED RolloutVars => RolloutInv'
BY DEF RolloutVars, RolloutInv

\* What the exit of a rollout says is so, and nobody is overwritten or left in the
\* dark.
LEMMA RolloutSafe ==
    ASSUME RolloutInv
    PROVE  Rollout!OutcomeHolds /\ Rollout!OthersKept /\ Rollout!PeerServes
<1>1. /\ Stands(cloud, lease, flying, run, touched) /\ run \in RolloutRunType
      /\ Journal(run) \subseteq Machines
  BY RunTypes DEF RolloutInv, Stands, RunOK
<1>2. Rollout!OthersKept
  BY <1>1 DEF Rollout!OthersKept, Stands, WorldOK, OthersOK
<1>3. Rollout!PeerServes
  BY <1>1
     DEF Stands, WorldOK, PeerOK, AtMachine, Rollout!Present, Rollout!Serving, Rollout!SomeServing,
         FleetOK, Rollout!PeerServes, Rollout!Restored
<1>4. Rollout!OutcomeHolds
  <2> SUFFICES ASSUME run.pc = "ended", run.outcome # "emergency", run.snapshot # << >>
               PROVE  /\ \A m \in Machines \ touched :
                            Rollout!Same(cloud[m], IF run.outcome = "passed"
                                                   THEN Rollout!TargetOf(run.snapshot[m])
                                                   ELSE run.snapshot[m])
                      /\ run.outcome # "refused" =>
                            /\ Rollout!Present = Machines
                            /\ \A m \in run.sessions : lease[m] # run.id
    BY DEF Rollout!OutcomeHolds
  <2>1. CASE run.outcome = "refused"
    BY <1>1, <2>1, RunTypes DEF Stands, RunOK, EarlyOK, WorldOK, OthersOK
  <2>2. CASE run.outcome # "refused"
    <3>1. Settled(run)
      BY <2>2 DEF Settled
    <3>2. NoCanaries(cloud) /\ \A m \in Machines \ touched : Rollout!Same(cloud[m], Goal(run, m))
      BY <1>1, <3>1 DEF Stands, WorldOK, FleetOK
    <3>3. \A m \in Machines : Goal(run, m) = IF run.outcome = "passed"
                                             THEN Rollout!TargetOf(run.snapshot[m])
                                             ELSE run.snapshot[m]
      BY <1>1, <2>2 DEF Goal, Stands, RunOK, BackOK
    <3>4. Rollout!Present = Machines
      BY <1>1, <3>2 DEF NoCanaries, Rollout!Present, Rollout!Ids, Stands, WorldOK, CloudOK
    <3>5. \A m \in run.sessions : lease[m] # run.id
      BY <1>1, <2>2 DEF Stands, WorldOK, LeasesOK
    <3>6. \A m \in Machines \ touched :
              Rollout!Same(cloud[m], IF run.outcome = "passed"
                                     THEN Rollout!TargetOf(run.snapshot[m])
                                     ELSE run.snapshot[m])
      BY <3>2, <3>3
    <3> QED BY <3>4, <3>5, <3>6
  <2> QED BY <2>1, <2>2
<1> QED BY <1>2, <1>3, <1>4

-----------------------------------------------------------------------------
(***************************************************************************)
(* The rollout that the deploy tool does.                                  *)
(*                                                                         *)
(* Whatever the tool left undone, the last sample of the fleet has seen    *)
(* what it is, and until somebody else deploys it stays so (SampleStands). *)
(* The version is raised only over such a fleet.                           *)
(***************************************************************************)
Sampling == {"converge", "start", "attest", "probe"}
HostType ==
    [state : {"none", "started", "stopped"}, writer : {"old", "transition", "v6"},
     release : Nat, healthy : BOOLEAN]
ManagedJobType ==
    [pc : {"plan", "deploy", "done", "failed"} \cup Sampling, phase : {None, "transition", "v6"},
     index : Nat, ids : (SUBSET Hosts) \cup {None}, release : Nat \cup {None},
     left : SUBSET Hosts, up : SUBSET Hosts]

ManagedTypeOK ==
    /\ fleet \in [Hosts -> HostType]
    /\ protocol \in {"missing", "5", "6"}
    /\ job \in ManagedJobType
    /\ meddled \in BOOLEAN

NoneOld == \A m \in Managed!Fleet : fleet[m].writer # "old"

SampleStands ==
    /\ job.pc \in {"deploy"} \cup Sampling => job.phase \in {"transition", "v6"}
    /\ job.pc = "deploy" /\ job.phase = "v6" /\ ~meddled => NoneOld
    /\ job.pc \in Sampling /\ job.phase = "v6" => protocol = "6"
    /\ job.pc = "probe" /\ ~meddled =>
          /\ Managed!Fleet = job.ids
          /\ \A m \in Managed!Fleet :
                fleet[m].writer = job.phase /\ fleet[m].release = job.release

ManagedInv ==
    /\ ManagedTypeOK
    /\ SampleStands
    /\ receipt # None => job.pc = "done"
    /\ Managed!NoOldWriters
    /\ Managed!ReceiptHolds

LEMMA ManagedInit == Managed!Init => ManagedInv
<1> SUFFICES ASSUME Managed!Init PROVE ManagedInv
  OBVIOUS
<1>1. /\ protocol \in {"missing", "5", "6"} /\ receipt = None /\ meddled = FALSE
      /\ job = Managed!At("plan", None)
      /\ fleet \in [Hosts -> {[state |-> s, writer |-> w, release |-> 0, healthy |-> TRUE] :
                        s \in {"none", "started", "stopped"}, w \in Managed!Writers(protocol)}]
  BY DEF Managed!Init
<1>2. \A m \in Hosts : fleet[m] \in HostType /\ (protocol = "6" => fleet[m].writer # "old")
  <2> SUFFICES ASSUME NEW m \in Hosts
               PROVE  fleet[m] \in HostType /\ (protocol = "6" => fleet[m].writer # "old")
    OBVIOUS
  <2>1. PICK s \in {"none", "started", "stopped"}, w \in Managed!Writers(protocol) :
            fleet[m] = [state |-> s, writer |-> w, release |-> 0, healthy |-> TRUE]
    BY <1>1
  <2>2. w \in {"old", "transition", "v6"} /\ (protocol = "6" => w # "old")
    BY DEF Managed!Writers
  <2> QED BY <2>1, <2>2 DEF HostType
<1>3. ManagedTypeOK
  <2>1. fleet \in [Hosts -> HostType]
    BY <1>1, <1>2
  <2>2. job \in ManagedJobType
    BY <1>1 DEF Managed!At, ManagedJobType
  <2>3. meddled \in BOOLEAN
    BY <1>1
  <2> QED BY <1>1, <2>1, <2>2, <2>3 DEF ManagedTypeOK
<1>4. job.pc = "plan"
  BY <1>1 DEF Managed!At
<1> QED
  BY <1>1, <1>2, <1>3, <1>4
  DEF ManagedInv, SampleStands, Sampling, Managed!NoOldWriters, Managed!ReceiptHolds, Managed!Fleet

\* A step of the workflow that leaves the fleet and the protocol as they are.
LEMMA JobMoves ==
    ASSUME ManagedInv, UNCHANGED <<fleet, protocol, receipt, meddled>>, job.pc # "done",
           job' \in ManagedJobType, SampleStands'
    PROVE  ManagedInv'
BY DEF ManagedInv, ManagedTypeOK, Managed!NoOldWriters, Managed!ReceiptHolds, Managed!Fleet

LEMMA PlanStep ==
    ASSUME ManagedInv, Managed!Plan
    PROVE  ManagedInv'
<1> DEFINE phase == IF protocol = "6" THEN "v6" ELSE "transition"
<1>1. /\ job.pc = "plan" /\ job' = Managed!At("deploy", phase)
      /\ UNCHANGED <<fleet, protocol, receipt, meddled>>
  BY DEF Managed!Plan
<1>2. job' \in ManagedJobType /\ job'.pc = "deploy" /\ job'.phase = phase
  BY <1>1 DEF Managed!At, ManagedJobType
<1>3. SampleStands'
  BY <1>1, <1>2 DEF ManagedInv, SampleStands, Sampling, NoneOld, Managed!NoOldWriters, Managed!Fleet
<1> QED BY <1>1, <1>2, <1>3, JobMoves

LEMMA ManagedFails ==
    ASSUME ManagedInv, Managed!Fails
    PROVE  ManagedInv'
BY JobMoves
   DEF Managed!Fails, Managed!At, ManagedJobType, ManagedInv, ManagedTypeOK, SampleStands, Sampling

\* The version is raised over a fleet without old writers.
LEMMA DeployStep ==
    ASSUME ManagedInv, Managed!Deploy
    PROVE  ManagedInv'
<1>1. PICK updated \in SUBSET Managed!Fleet :
          fleet' = [m \in Hosts |-> IF m \in updated
                       THEN [fleet[m] EXCEPT !.writer = job.phase,
                                             !.release = IF job.phase = "v6" THEN 2 ELSE 1]
                       ELSE fleet[m]]
  BY DEF Managed!Deploy
<1>2. /\ job.pc = "deploy" /\ protocol' = IF job.phase = "v6" THEN "6" ELSE "5"
      /\ job' = Managed!At("converge", job.phase) /\ UNCHANGED <<receipt, meddled>>
  BY DEF Managed!Deploy
<1>3. job.phase \in {"transition", "v6"} /\ receipt = None
  BY <1>2 DEF ManagedInv, SampleStands
<1>4. job' \in ManagedJobType /\ job'.pc = "converge" /\ job'.phase = job.phase
  BY <1>2, <1>3 DEF Managed!At, ManagedJobType, Sampling
<1>5. \A m \in Hosts : /\ fleet'[m] \in HostType
                       /\ fleet'[m].state = fleet[m].state
                       /\ fleet'[m].writer \in {fleet[m].writer, job.phase}
  BY <1>1, <1>3 DEF ManagedInv, ManagedTypeOK, HostType
<1>6. fleet' \in [Hosts -> HostType]
  BY <1>1, <1>5
<1>7. Managed!Fleet' = Managed!Fleet
  BY <1>5 DEF Managed!Fleet
<1>8. ManagedTypeOK'
  BY <1>2, <1>3, <1>4, <1>6 DEF ManagedInv, ManagedTypeOK
<1>9. SampleStands'
  BY <1>2, <1>3, <1>4 DEF SampleStands, Sampling
<1>10. Managed!NoOldWriters'
  BY <1>2, <1>7, <1>3, <1>5
     DEF Managed!NoOldWriters, ManagedInv, SampleStands, NoneOld, Managed!Fleet
<1> QED BY <1>2, <1>3, <1>8, <1>9, <1>10 DEF ManagedInv, Managed!ReceiptHolds

\* What converges is polled, and started, without a change to its writers.
LEMMA ConvergeSteps ==
    ASSUME ManagedInv, Managed!Converge \/ Managed!Poll
    PROVE  ManagedInv'
<1>1. /\ job.pc \in {"converge", "start"} /\ UNCHANGED <<fleet, protocol, receipt, meddled>>
      /\ \/ job' = Managed!At("attest", job.phase)
         \/ job' = [Managed!At("start", job.phase) EXCEPT !.ids = Managed!Fleet,
                       !.left = Managed!Fleet \ Managed!Up, !.up = Managed!Up]
         \/ job.pc = "start" /\ job' = [job EXCEPT !.index = @ + 1, !.up = @ \cup Managed!Up]
  BY DEF Managed!Converge, Managed!Poll
<1>2. /\ job \in ManagedJobType /\ Managed!Fleet \subseteq Hosts /\ Managed!Up \subseteq Hosts
  BY DEF ManagedInv, ManagedTypeOK, Managed!Fleet, Managed!Up
<1>3. /\ job' \in ManagedJobType /\ job'.pc \in {"attest", "start"} /\ job'.phase = job.phase
  <2>1. job.index + 1 \in Nat /\ job.up \cup Managed!Up \in SUBSET Hosts
    BY <1>2 DEF ManagedJobType
  <2>2. job.phase \in {None, "transition", "v6"} /\ Managed!Fleet \in SUBSET Hosts
        /\ Managed!Up \in SUBSET Hosts /\ Managed!Fleet \ Managed!Up \in SUBSET Hosts
    BY <1>2 DEF ManagedJobType
  <2>3. CASE job' = Managed!At("attest", job.phase)
    BY <2>2, <2>3 DEF Managed!At, ManagedJobType, Sampling
  <2>4. CASE job' = [Managed!At("start", job.phase) EXCEPT !.ids = Managed!Fleet,
                       !.left = Managed!Fleet \ Managed!Up, !.up = Managed!Up]
    BY <2>2, <2>4 DEF Managed!At, ManagedJobType, Sampling
  <2>5. CASE job.pc = "start" /\ job' = [job EXCEPT !.index = @ + 1, !.up = @ \cup Managed!Up]
    BY <1>2, <2>1, <2>5 DEF ManagedJobType
  <2> QED BY <1>1, <2>3, <2>4, <2>5
<1>4. SampleStands'
  BY <1>1, <1>3 DEF ManagedInv, SampleStands, Sampling
<1> QED BY <1>1, <1>3, <1>4, JobMoves

LEMMA ProbeStep ==
    ASSUME ManagedInv, NEW m \in Hosts, Managed!Probe(m)
    PROVE  ManagedInv'
BY JobMoves
   DEF Managed!Probe, ManagedInv, ManagedTypeOK, ManagedJobType, SampleStands, NoneOld, Managed!Fleet

\* A sample has seen the whole fleet: of its writers, and of one release.
LEMMA SampleStep ==
    ASSUME ManagedInv, Managed!Sample
    PROVE  ManagedInv'
<1>1. PICK m \in Managed!Fleet :
          job' = [job EXCEPT !.pc = "probe", !.ids = Managed!Fleet, !.left = Managed!Fleet,
                             !.release = fleet[m].release]
  BY DEF Managed!Sample
<1>2. /\ job.pc = "attest" /\ meddled' = FALSE /\ UNCHANGED <<fleet, protocol, receipt>>
      /\ \A n \in Managed!Fleet : fleet[n].writer = job.phase
      /\ \A n \in Managed!Fleet : fleet[n].release = fleet[m].release
  BY <1>1 DEF Managed!Sample, Managed!Convergent, Managed!OneRelease
<1>3. m \in Hosts /\ fleet[m].release \in Nat /\ Managed!Fleet \subseteq Hosts
  BY <1>1 DEF ManagedInv, ManagedTypeOK, HostType, Managed!Fleet
<1>4. /\ job' \in ManagedJobType /\ job'.pc = "probe" /\ job'.phase = job.phase
      /\ job'.ids = Managed!Fleet /\ job'.release = fleet[m].release
  BY <1>1, <1>3 DEF ManagedInv, ManagedTypeOK, ManagedJobType, Sampling
<1>5. Managed!Fleet' = Managed!Fleet
  BY <1>2 DEF Managed!Fleet
<1>6. job.phase \in {"transition", "v6"} /\ receipt = None
  BY <1>2 DEF ManagedInv, SampleStands, Sampling
<1>7. SampleStands'
  BY <1>2, <1>4, <1>5, <1>6 DEF ManagedInv, SampleStands, Sampling
<1>8. Managed!NoOldWriters'
  BY <1>2, <1>5, <1>6 DEF Managed!NoOldWriters
<1> QED
  BY <1>2, <1>4, <1>6, <1>7, <1>8 DEF ManagedInv, ManagedTypeOK, Managed!ReceiptHolds

LEMMA ReadyStep ==
    ASSUME ManagedInv, Managed!Ready
    PROVE  ManagedInv'
<1>1. job.pc = "probe" /\ UNCHANGED <<fleet, protocol, meddled>>
  BY DEF Managed!Ready
<1>2. job \in ManagedJobType /\ job.phase \in {"transition", "v6"} /\ receipt = None
  BY <1>1 DEF ManagedInv, ManagedTypeOK, SampleStands, Sampling
<1>3. CASE job' = [job EXCEPT !.pc = "attest", !.index = @ + 1] /\ UNCHANGED receipt
  <2>0. job.index + 1 \in Nat
    BY <1>2 DEF ManagedJobType
  <2>1. job' \in ManagedJobType /\ job'.pc = "attest" /\ job'.phase = job.phase
    BY <1>2, <1>3, <2>0 DEF ManagedJobType, Sampling
  <2>2. SampleStands'
    BY <1>1, <2>1 DEF ManagedInv, SampleStands, Sampling
  <2> QED BY <1>1, <1>3, <2>1, <2>2, JobMoves
<1>4. CASE job.phase = "transition" /\ job' = Managed!At("deploy", "v6") /\ UNCHANGED receipt
  BY <1>4, <1>1, JobMoves
     DEF ManagedJobType, Managed!At, ManagedInv, SampleStands, Sampling, NoneOld, Managed!Fleet
<1>5. CASE /\ job.phase = "v6" /\ job' = Managed!At("done", "v6")
           /\ receipt' = [ids |-> job.ids, release |-> job.release]
  <2>1. job' \in ManagedJobType /\ job'.pc = "done"
    BY <1>5 DEF ManagedJobType, Managed!At
  <2>2. SampleStands'
    BY <2>1 DEF SampleStands, Sampling
  <2>3. Managed!ReceiptHolds'
    BY <1>1, <1>5 DEF ManagedInv, SampleStands, Sampling, Managed!ReceiptHolds, Managed!Fleet
  <2>4. ManagedTypeOK' /\ Managed!NoOldWriters'
    BY <1>1, <2>1 DEF ManagedInv, ManagedTypeOK, Managed!NoOldWriters, Managed!Fleet
  <2> QED BY <2>1, <2>2, <2>3, <2>4 DEF ManagedInv
<1> QED BY <1>2, <1>3, <1>4, <1>5 DEF Managed!Ready

\* What the cloud does with a machine is not a change of its writer.
LEMMA MachineMoves ==
    ASSUME ManagedInv, NEW m \in Hosts, NEW machine \in HostType,
           fleet' = [fleet EXCEPT ![m] = machine], fleet[m].state # "none",
           machine.state # "none", machine.writer = fleet[m].writer,
           machine.release = fleet[m].release, UNCHANGED <<protocol, receipt, meddled>>,
           job' \in ManagedJobType, job'.pc = job.pc, job'.phase = job.phase, job'.ids = job.ids,
           job'.release = job.release
    PROVE  ManagedInv'
BY DEF ManagedInv, ManagedTypeOK, Managed!Fleet, SampleStands, NoneOld, Managed!NoOldWriters,
       Managed!ReceiptHolds

LEMMA CloudSteps ==
    ASSUME ManagedInv, NEW m \in Hosts,
           \/ Managed!StartMachine(m)
           \/ \E state \in {"started", "stopped"}, healthy \in BOOLEAN :
                  Managed!Moves(m, state, healthy)
           \/ \E state \in {"none", "started", "stopped"} : Managed!Meddle(m, state)
    PROVE  ManagedInv'
<1>1. fleet \in [Hosts -> HostType] /\ fleet[m] \in HostType /\ job \in ManagedJobType
  BY DEF ManagedInv, ManagedTypeOK
<1>2. CASE Managed!StartMachine(m)
  <2> DEFINE new == [fleet[m] EXCEPT !.state = "started"]
  <2>1. /\ fleet' = [fleet EXCEPT ![m] = new] /\ fleet[m].state # "none"
        /\ job' = [job EXCEPT !.left = @ \ {m}] /\ UNCHANGED <<protocol, receipt, meddled>>
    BY <1>2 DEF Managed!StartMachine
  <2>2. /\ new \in HostType /\ new.state = "started" /\ new.writer = fleet[m].writer
        /\ new.release = fleet[m].release
    BY <1>1 DEF HostType
  <2>3. /\ job' \in ManagedJobType /\ job'.pc = job.pc /\ job'.phase = job.phase /\ job'.ids = job.ids
        /\ job'.release = job.release
    BY <1>1, <2>1 DEF ManagedJobType
  <2> HIDE DEF new
  <2> QED BY <2>1, <2>2, <2>3, MachineMoves
<1>3. ASSUME NEW state \in {"started", "stopped"}, NEW healthy \in BOOLEAN,
             Managed!Moves(m, state, healthy)
      PROVE  ManagedInv'
  <2> DEFINE new == [fleet[m] EXCEPT !.state = state, !.healthy = healthy]
  <2>1. /\ fleet' = [fleet EXCEPT ![m] = new] /\ fleet[m].state # "none"
        /\ UNCHANGED <<job, protocol, receipt, meddled>>
    BY <1>3 DEF Managed!Moves
  <2>2. /\ new \in HostType /\ new.state # "none" /\ new.writer = fleet[m].writer
        /\ new.release = fleet[m].release
    BY <1>1 DEF HostType
  <2> HIDE DEF new
  <2> QED BY <1>1, <2>1, <2>2, MachineMoves
<1>4. ASSUME NEW state \in {"none", "started", "stopped"}, Managed!Meddle(m, state)
      PROVE  ManagedInv'
  <2> DEFINE new == [state |-> state, writer |-> IF state = "none" THEN "transition" ELSE "old",
                     release |-> 0, healthy |-> TRUE]
  <2>1. /\ fleet' = [fleet EXCEPT ![m] = new] /\ meddled' = TRUE
        /\ UNCHANGED <<job, protocol, receipt>>
    BY <1>4 DEF Managed!Meddle
  <2>2. new \in HostType
    BY DEF HostType
  <2> HIDE DEF new
  <2>3. fleet' \in [Hosts -> HostType]
    BY <1>1, <2>1, <2>2
  <2> QED
    BY <2>1, <2>3
    DEF ManagedInv, ManagedTypeOK, SampleStands, Managed!NoOldWriters, Managed!ReceiptHolds
<1> QED BY <1>2, <1>3, <1>4

LEMMA ManagedNext == ManagedInv /\ Managed!Next => ManagedInv'
BY PlanStep, ManagedFails, DeployStep, ConvergeSteps, ProbeStep, SampleStep, ReadyStep, CloudSteps
DEF Managed!Next

LEMMA ManagedRest == ManagedInv /\ UNCHANGED ManagedVars => ManagedInv'
BY DEF ManagedVars, ManagedInv, ManagedTypeOK, SampleStands, NoneOld, Managed!NoOldWriters,
       Managed!ReceiptHolds, Managed!Fleet

-----------------------------------------------------------------------------
(***************************************************************************)
(* The behaviours of all parts.                                            *)
(***************************************************************************)
\* What a phase of a release has reported stays so, and no late write comes in,
\* for any releases and servers (activate-provider-snapshot-writer-protocol.js).
THEOREM ReleaseHoldsCorrect == Spec => []ReleaseHolds
<1> DEFINE Inv == part = "release" => ReleaseInv
<1>1. Init => Inv
  BY ReleaseInit DEF Init
<1>2. Inv /\ [Next]_vars => Inv'
  <2> SUFFICES ASSUME Inv, [Next]_vars, part' = "release" PROVE ReleaseInv'
    OBVIOUS
  <2>1. CASE ReleaseMoves
    BY <2>1, ReleaseNext DEF ReleaseMoves
  <2>2. CASE UNCHANGED vars
    BY <2>2, ReleaseRest DEF vars
  <2> QED
    BY <2>1, <2>2 DEF Next, RolloutMoves, ProvisionMoves, LifeMoves, TraktMoves, ManagedMoves,
                      PageMoves
<1>3. Inv => ReleaseHolds
  BY DEF ReleaseInv, ReleaseHolds
<1> QED BY <1>1, <1>2, <1>3, PTL DEF Spec

\* Whatever was revoked or erased is gone for good once its row is, for any
\* devices, requests and cleanups, however many calls fail
\* (profile-lifecycle-service.js).
THEOREM GoneForGoodCorrect == Spec => []GoneForGood
<1> DEFINE Inv == part = "lifecycle" => LifeInv
<1>1. Init => Inv
  BY LifeInit DEF Init
<1>2. Inv /\ [Next]_vars => Inv'
  <2> SUFFICES ASSUME Inv, [Next]_vars, part' = "lifecycle" PROVE LifeInv'
    OBVIOUS
  <2>1. CASE LifeMoves
    BY <2>1, LifeNext DEF LifeMoves
  <2>2. CASE UNCHANGED vars
    BY <2>2, OutsideSteps DEF vars
  <2> QED
    BY <2>1, <2>2 DEF Next, RolloutMoves, ReleaseMoves, ProvisionMoves, TraktMoves, ManagedMoves,
                      PageMoves
<1>3. Inv => GoneForGood
  BY LifeGone DEF GoneForGood
<1> QED BY <1>1, <1>2, <1>3, PTL DEF Spec

\* A code and a refresh token are sent to Trakt once, and what the owner
\* disconnected stays so, for any servers and answers lost
\* (trakt OAuth in index.js, oauth-state-repository.js).
THEOREM ConsentHoldsCorrect == Spec => []ConsentHolds
<1> DEFINE Inv == part = "trakt" => TraktInv
<1>1. Init => Inv
  BY TraktInit DEF Init
<1>2. Inv /\ [Next]_vars => Inv'
  <2> SUFFICES ASSUME Inv, [Next]_vars, part' = "trakt" PROVE TraktInv'
    OBVIOUS
  <2>1. CASE TraktMoves
    BY <2>1, TraktNext DEF TraktMoves
  <2>2. CASE UNCHANGED vars
    BY <2>2, PassingSteps DEF vars
  <2> QED
    BY <2>1, <2>2 DEF Next, RolloutMoves, ReleaseMoves, ProvisionMoves, LifeMoves, ManagedMoves,
                      PageMoves
<1>3. Inv => ConsentHolds
  BY DEF TraktInv, ConsentHolds
<1> QED BY <1>1, <1>2, <1>3, PTL DEF Spec

\* The token that an account has been told of opens its profile for as long as
\* the profile lives, and a profile that a request has taken back is revoked,
\* for any servers and requests, however many answers are lost
\* (profile-provisioner.js).
THEOREM TokensHoldCorrect == Spec => []TokensHold
<1> DEFINE Inv == part = "provisioning" => ProvisionInv
<1>1. Init => Inv
  BY ProvisionInit DEF Init
<1>2. Inv /\ [Next]_vars => Inv'
  <2> SUFFICES ASSUME Inv, [Next]_vars, part' = "provisioning" PROVE ProvisionInv'
    OBVIOUS
  <2>1. CASE ProvisionMoves
    BY <2>1, ProvisionNext DEF ProvisionMoves
  <2>2. CASE UNCHANGED vars
    BY <2>2, ProvisionRest DEF vars
  <2> QED
    BY <2>1, <2>2 DEF Next, RolloutMoves, ReleaseMoves, LifeMoves, TraktMoves, ManagedMoves,
                      PageMoves
<1>3. Inv => TokensHold
  BY DEF ProvisionInv, ToldOpens, GivenUp, TokensHold, Provision!TokenStands, Provision!TakenBack,
         Provision!Active
<1> QED BY <1>1, <1>2, <1>3, PTL DEF Spec

\* The page acts for one authority at a time, shows the install links only of providers that
\* were imported, with a backup, and forgets no pairing whose answer it does not know, for any
\* profiles, codes and bounds and whatever answers are lost or come late (configure.js).
THEOREM PageHoldsCorrect == Spec => []PageHolds
<1> DEFINE Inv == part = "page" => PageInv
<1>1. Init => Inv
  BY PageInit DEF Init
<1>2. Inv /\ [Next]_vars => Inv'
  <2> SUFFICES ASSUME Inv, [Next]_vars PROVE Inv'
    OBVIOUS
  <2>1. CASE PageMoves
    BY <2>1, PageNext DEF PageMoves
  <2>2. ASSUME UNCHANGED <<part, PageVars>> PROVE Inv'
    BY <2>2, PageRest
  <2> QED
    BY <2>1, <2>2
    DEF Next, RolloutMoves, ReleaseMoves, ProvisionMoves, LifeMoves, TraktMoves, ManagedMoves, vars
<1>3. Inv => PageHolds
  BY OneAuthorityHolds
  DEF PageInv, ImportsInv, PairingInv, PageHolds, Page!ReadyIsImported
<1> QED BY <1>1, <1>2, <1>3, PTL DEF Spec

\* What the exit of a rollout says of the fleet is so, what others deployed is
\* kept and the fleet never goes dark (fly-machines-rollout.js); the deploy tool
\* raises no version over an old writer (fly-managed-rollout.js).
THEOREM RolloutHoldsCorrect == Spec => []RolloutHolds
<1> DEFINE Inv == /\ part = "rollout" => RolloutInv
                  /\ part = "managed" => ManagedInv
<1>1. Init => Inv
  BY RolloutInit, ManagedInit DEF Init
<1>2. Inv /\ [Next]_vars => Inv'
  <2> SUFFICES ASSUME Inv, [Next]_vars PROVE Inv'
    OBVIOUS
  <2>1. CASE RolloutMoves
    BY <2>1, RolloutNext DEF RolloutMoves
  <2>2. CASE ManagedMoves
    BY <2>2, ManagedNext DEF ManagedMoves
  <2>3. ASSUME UNCHANGED <<part, RolloutVars, ManagedVars>> PROVE Inv'
    BY <2>3, RolloutRest, ManagedRest
  <2> QED
    BY <2>1, <2>2, <2>3
    DEF Next, ReleaseMoves, ProvisionMoves, LifeMoves, TraktMoves, PageMoves, vars
<1>3. Inv => RolloutHolds
  BY RolloutSafe DEF RolloutHolds, ManagedInv
<1> QED BY <1>1, <1>2, <1>3, PTL DEF Spec
=============================================================================
