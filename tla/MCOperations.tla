---------------------------- MODULE MCOperations ----------------------------
(***************************************************************************)
(* Operations of several servers and tools on the state of a deployment    *)
(* and of a profile, as TLC checks them: each behaviour is of one part,    *)
(* which part says, and the variables of the others rest.                  *)
(***************************************************************************)
EXTENDS Naturals, Sequences, TLC

CONSTANTS
    None,
    \* the rollout of an image, its fleet and the canary of each rollout
    Machines, c1, c2, Canaries, MaxRolloutFaults,
    \* the release runs and the servers of both modes, with their bounds
    Releases, Legacy, Fenced, MaxRuns, MaxWrites, MaxOrders,
    \* the servers, and the requests to them that provision a profile
    Bridges, Configs, Contents, MaxRequests, MaxMishaps, MaxTries,
    \* the devices of a profile, and who ends them
    Devices, Runners, MaxFaults, MaxClaims,
    \* the account at Trakt
    MaxLaunches, MaxDisconnects, MaxStale, MaxTraktMishaps,
    \* the fleet of the deploy tool
    Hosts, Intervals, Polls, MaxMeddles,
    \* the owner's page
    Codes, MaxEpochs, MaxGenerates, MaxAttempts, MaxSends, MaxReloads, MaxOperations,
    MaxChanges

\* A rollout creates its canary itself: it is no machine of the fleet it found.
ASSUME RolloutAssumption ==
    /\ Canaries \in Seq({Canaries[i] : i \in DOMAIN Canaries})
    /\ \A i \in DOMAIN Canaries : Canaries[i] \notin Machines

\* A server runs in one mode.
ASSUME ReleaseAssumption == Legacy \cap Fenced = {}

\* What is missing is not taken for a number: null and an epoch or a revision.
ASSUME PageAssumption == None \notin Nat

TwoCanaries == <<c1, c2>>

VARIABLES
    part,        \* the part that this behaviour is of
    \* the rollout of an image to the fleet
    cloud, lease, flying, run, touched, faults,
    \* the release runs that raise the protocols
    database, collection, claimKey, runs, servers, done, refusals, started,
    written, ordered,
    \* the provisioning of profiles
    people, aliases, attempts, told, gaveUp, served, mishaps,
    \* the end of a profile and of its devices
    profile, devices, rows, manifests, redis, sessions, runners, claiming,
    faulted, claimsTried,
    \* the account at Trakt
    row, states, linked, jobs, grants, launched, disconnects, staled, mishap,
    \* the rollout that the deploy tool does
    fleet, protocol, job, receipt, meddles, meddled,
    \* the owner's page
    page, operation, flows, generating, record, pairings, sent, tried, codes,
    dead, providers, backups, imports, applied, given, overlapped, spent

Rollout == INSTANCE MachinesRollout WITH MaxFaults <- MaxRolloutFaults

Release == INSTANCE ReleaseProtocols

Provision == INSTANCE Provisioning WITH Servers <- Bridges

Life == INSTANCE Lifecycle

Trakt == INSTANCE TraktCredential
    WITH Servers <- Bridges, MaxMishaps <- MaxTraktMishaps, profile <- linked

Managed == INSTANCE ManagedRollout WITH Machines <- Hosts, claimKey <- protocol

Page == INSTANCE ConfigurePage WITH flying <- sent, attempts <- tried

RolloutVars == <<cloud, lease, flying, run, touched, faults>>

RolloutRests ==
    /\ cloud = None /\ lease = None /\ flying = None /\ run = None
    /\ touched = None /\ faults = None

ReleaseVars == <<database, collection, claimKey, runs, servers, done,
                 refusals, started, written, ordered>>

ReleaseRests ==
    /\ database = None /\ collection = None /\ claimKey = None /\ runs = None
    /\ servers = None /\ done = None /\ refusals = None /\ started = None
    /\ written = None /\ ordered = None

ProvisionVars == <<people, aliases, attempts, told, gaveUp, served, mishaps>>

ProvisionRests ==
    /\ people = None /\ aliases = None /\ attempts = None /\ told = None
    /\ gaveUp = None /\ served = None /\ mishaps = None

LifeVars == <<profile, devices, rows, manifests, redis, sessions, runners,
              claiming, faulted, claimsTried>>

LifeRests ==
    /\ profile = None /\ devices = None /\ rows = None /\ manifests = None
    /\ redis = None /\ sessions = None /\ runners = None /\ claiming = None
    /\ faulted = None /\ claimsTried = None

TraktVars == <<row, states, linked, jobs, grants, launched, disconnects,
               staled, mishap>>

TraktRests ==
    /\ row = None /\ states = None /\ linked = None /\ jobs = None
    /\ grants = None /\ launched = None /\ disconnects = None /\ staled = None
    /\ mishap = None

ManagedVars == <<fleet, protocol, job, receipt, meddles, meddled>>

ManagedRests ==
    /\ fleet = None /\ protocol = None /\ job = None /\ receipt = None
    /\ meddles = None /\ meddled = None

PageVars == <<page, operation, flows, generating, record, pairings, sent,
              tried, codes, dead, providers, backups, imports, applied,
              given, overlapped, spent>>

PageRests ==
    /\ page = None /\ operation = None /\ flows = None /\ generating = None
    /\ record = None /\ pairings = None /\ sent = None /\ tried = None
    /\ codes = None /\ dead = None /\ providers = None /\ backups = None
    /\ imports = None /\ applied = None /\ given = None /\ overlapped = None
    /\ spent = None

Init ==
    /\ part \in {"rollout", "release", "provisioning", "lifecycle", "trakt", "managed", "page"}
    /\ IF part = "rollout" THEN Rollout!Init ELSE RolloutRests
    /\ IF part = "release" THEN Release!Init ELSE ReleaseRests
    /\ IF part = "provisioning" THEN Provision!Init ELSE ProvisionRests
    /\ IF part = "lifecycle" THEN Life!Init ELSE LifeRests
    /\ IF part = "trakt" THEN Trakt!Init ELSE TraktRests
    /\ IF part = "managed" THEN Managed!Init ELSE ManagedRests
    /\ IF part = "page" THEN Page!Init ELSE PageRests

RolloutMoves ==
    /\ part = "rollout" /\ Rollout!Next
    /\ UNCHANGED <<part, ReleaseVars, ProvisionVars, LifeVars, TraktVars,
                    ManagedVars, PageVars>>

ReleaseMoves ==
    /\ part = "release" /\ Release!Next
    /\ UNCHANGED <<part, RolloutVars, ProvisionVars, LifeVars, TraktVars,
                    ManagedVars, PageVars>>

ProvisionMoves ==
    /\ part = "provisioning" /\ Provision!Next
    /\ UNCHANGED <<part, RolloutVars, ReleaseVars, LifeVars, TraktVars,
                    ManagedVars, PageVars>>

LifeMoves ==
    /\ part = "lifecycle" /\ Life!Next
    /\ UNCHANGED <<part, RolloutVars, ReleaseVars, ProvisionVars, TraktVars,
                    ManagedVars, PageVars>>

TraktMoves ==
    /\ part = "trakt" /\ Trakt!Next
    /\ UNCHANGED <<part, RolloutVars, ReleaseVars, ProvisionVars, LifeVars,
                    ManagedVars, PageVars>>

ManagedMoves ==
    /\ part = "managed" /\ Managed!Next
    /\ UNCHANGED <<part, RolloutVars, ReleaseVars, ProvisionVars, LifeVars,
                    TraktVars, PageVars>>

PageMoves ==
    /\ part = "page" /\ Page!Next
    /\ UNCHANGED <<part, RolloutVars, ReleaseVars, ProvisionVars, LifeVars,
                    TraktVars, ManagedVars>>

Next ==
    \/ RolloutMoves
    \/ ReleaseMoves
    \/ ProvisionMoves
    \/ LifeMoves
    \/ TraktMoves
    \/ ManagedMoves
    \/ PageMoves

vars == <<part, RolloutVars, ReleaseVars, ProvisionVars, LifeVars, TraktVars,
          ManagedVars, PageVars>>

Spec == Init /\ [][Next]_vars

-----------------------------------------------------------------------------
\* What the exit of a rollout says of the fleet is so, what somebody else
\* deployed is kept, and on the way forward another machine serves, whatever
\* calls are lost or land late and wherever a rollout dies
\* (fly-machines-rollout.js); no version is raised over a machine of the old
\* writers, and the receipt is of the whole fleet, whatever the deploy tool left
\* undone (fly-managed-rollout.js).
RolloutHolds ==
    /\ part = "rollout" => Rollout!OutcomeHolds /\ Rollout!OthersKept /\ Rollout!PeerServes
    /\ part = "managed" => Managed!NoOldWriters /\ Managed!ReceiptHolds

\* The rollback restarts no machine without another one that serves, but for
\* what it finds changed, cannot restore or has taken away before, and leaves no
\* machine out for another that it cannot restore (rollbackTransaction).
RollbackHolds == part = "rollout" => Rollout!RollbackServes

\* What a phase of a release has reported stays so whatever older phases and
\* servers do, and no write that began before the fence comes in after it
\* (scripts/activate-provider-snapshot-writer-protocol.js and the claims').
ReleaseHolds == part = "release" => Release!ReleaseHolds /\ Release!NoLateWrite

\* A token that was answered opens the profile it was answered for, and a
\* profile that a failed request has taken back is not left active
\* (profile-provisioner.js).
TokensHold == part = "provisioning" => Provision!TokenStands /\ Provision!TakenBack

\* What was revoked or erased is gone for good: no claim or object that was
\* under way comes after the last row of its invalidation
\* (profile-lifecycle-service.js).
GoneForGood == part = "lifecycle" => Life!GoneForGood

\* A code and a refresh token are sent to Trakt once, and an account that the
\* owner disconnected does not come back (trakt OAuth in index.js,
\* oauth-state-repository.js).
ConsentHolds == part = "trakt" => Trakt!GrantsUsedOnce /\ Trakt!ConsentStands

\* The owner's page acts for one authority at a time, shows the install links
\* only of providers that were imported, and forgets no pairing whose answer it
\* has not had (public/configure.js).
PageHolds ==
    part = "page" => Page!OneAuthority /\ Page!ReadyIsImported /\ Page!PairingRecoverable
=============================================================================
