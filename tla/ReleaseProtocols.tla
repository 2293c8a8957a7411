--------------------------- MODULE ReleaseProtocols ---------------------------
(***************************************************************************)
(* The protocols a release switches on before its servers start, while the *)
(* servers of the release before go on writing: the fence of the provider  *)
(* collections, in the database, and the version of the claim writers, in  *)
(* Redis.  Two releases may run at once, an operator may pause, resume and *)
(* activate by hand, and a run may stop anywhere, also after a step whose  *)
(* answer it does not see.  Transitions of the database hold an advisory   *)
(* lock and the table of the collections: each of them is one step.        *)
(***************************************************************************)
EXTENDS Naturals, FiniteSets, TLC

CONSTANTS Releases, Legacy, Fenced,   \* release runs; servers of each mode
    MaxRuns, MaxWrites, MaxOrders     \* runs, writes, and orders of the operator

VARIABLES
    database,    \* its migration, the protocol's row, the allocator of fences
    collection,  \* the fence of a provider collection
    claimKey,    \* playback-claim-writer-protocol
    runs,        \* the release runs
    servers,     \* each server, and the write it is at
    done,        \* what release runs have reported
    refusals,    \* servers that a release should have been fit for
    started, written, ordered

vars == <<database, collection, claimKey, runs, servers, done, refusals, started, written, ordered>>

Servers == Legacy \cup Fenced
Down == [up |-> FALSE, write |-> "none", fence |-> 0, early |-> FALSE]
NotRunning == [pc |-> "idle"]

Init ==
    /\ database = [migrated |-> FALSE, active |-> FALSE, paused |-> FALSE, floor |-> 0, allocator |-> 0]
    /\ collection = [fence |-> 0, late |-> FALSE]
    /\ claimKey = "missing"
    /\ runs = [r \in Releases |-> NotRunning]
    /\ servers = [s \in Servers |-> Down]
    /\ done = {} /\ refusals = {}
    /\ started = 0 /\ written = 0 /\ ordered = 0

-----------------------------------------------------------------------------
(* The transitions of the database *)

Migrated == [database EXCEPT !.migrated = TRUE]

\* An operator pauses always, a release only before the activation.
Pausable(byRelease) == database.migrated /\ ~database.paused /\ (byRelease => ~database.active)

Paused == [database EXCEPT !.paused = TRUE]

\* Mutant: the floor is not raised to the last fence that was given out.
ActivatedAtZero == [database EXCEPT !.active = TRUE, !.paused = FALSE]

\* The allocator is brought up to the collections; its value is the floor.
Activated ==
    LET top == IF database.allocator < collection.fence THEN collection.fence ELSE database.allocator
    IN [database EXCEPT !.active = TRUE, !.paused = FALSE, !.allocator = top, !.floor = top]

\* attestProviderMutationMode
Attested(mode) ==
    IF mode = "legacy" THEN ~database.active
    ELSE database.migrated /\ (database.active \/ database.paused)

\* The trigger of provider_collections.
Accepted(fence) ==
    /\ ~database.paused
    /\ database.active => fence > database.floor /\ fence >= collection.fence

-----------------------------------------------------------------------------
(* The operator *)

Order(act) ==
    /\ ordered < MaxOrders /\ ordered' = ordered + 1 /\ database' = act
    /\ UNCHANGED <<collection, claimKey, runs, servers, done, refusals, started, written>>

PauseByHand == Pausable(FALSE) /\ Order(Paused)
ResumeByHand == database.paused /\ Order([database EXCEPT !.paused = FALSE])
ActivateByHand == database.migrated /\ database.paused /\ ~database.active /\ Order(Activated)

-----------------------------------------------------------------------------
(* The claim writers' key *)

\* Mutant: version 5 is written whatever is there.
InitializedOver == "5"

\* Initializing is refused after the advance, and advancing a key that is missing:
\* the key then stays, and is not the one that was asked for.
Initialized == IF claimKey = "missing" THEN "5" ELSE claimKey

Advanced == IF claimKey = "5" THEN "6" ELSE claimKey

-----------------------------------------------------------------------------
(* A release: production and its two phases, or user acceptance *)

Kinds == {"transition", "v6", "uat"}

UnchangedByRun == UNCHANGED <<collection, servers, written, ordered, refusals>>

To(r, pc) == runs' = [runs EXCEPT ![r].pc = pc]
RunEnds(r) == runs' = [runs EXCEPT ![r] = NotRunning]
RunAt(r, pc) == runs[r].pc = pc
Kind(r) == runs[r].kind

StartRelease(r, kind) ==
    /\ runs[r] = NotRunning /\ started < MaxRuns
    /\ runs' = [runs EXCEPT ![r] = [pc |-> "preflight", kind |-> kind]]
    /\ started' = started + 1
    /\ UnchangedByRun /\ UNCHANGED <<database, claimKey, done>>

\* The preflight refuses a Redis that the last step could not bring forward.
Compatible(kind) ==
    CASE kind = "transition" -> claimKey \in {"missing", "5"}
      [] kind = "v6" -> claimKey \in {"5", "6"}
      [] kind = "uat" -> TRUE

Preflight(r) ==
    /\ RunAt(r, "preflight")
    /\ IF Compatible(Kind(r)) THEN To(r, "migrate") ELSE RunEnds(r)
    /\ UnchangedByRun /\ UNCHANGED <<database, claimKey, done, started>>

MigrateRelease(r) ==
    /\ RunAt(r, "migrate") /\ To(r, "pause")
    /\ database' = Migrated
    /\ UnchangedByRun /\ UNCHANGED <<claimKey, done, started>>

PauseRelease(r) ==
    /\ RunAt(r, "pause") /\ To(r, "activate")
    /\ database' = IF Pausable(TRUE) THEN Paused ELSE database
    /\ UnchangedByRun /\ UNCHANGED <<claimKey, done, started>>

\* Somebody may have resumed meanwhile: then it is not activated.
ActivateRelease(r) ==
    /\ RunAt(r, "activate")
    /\ \/ database.active /\ To(r, "attest") /\ UNCHANGED database
       \/ ~database.active /\ database.paused /\ To(r, "attest") /\ database' = Activated
       \/ ~database.active /\ ~database.paused /\ RunEnds(r) /\ UNCHANGED database
    /\ UnchangedByRun /\ UNCHANGED <<claimKey, done, started>>

\* Production lets an operator's pause stand; user acceptance does not.
AttestRelease(r) ==
    /\ RunAt(r, "attest")
    /\ IF Attested("fenced") /\ database.active /\ (Kind(r) = "uat" => ~database.paused)
       THEN To(r, IF Kind(r) = "uat" THEN "status" ELSE "redis") ELSE RunEnds(r)
    /\ UnchangedByRun /\ UNCHANGED <<database, claimKey, done, started>>

Report(r) == RunEnds(r) /\ done' = done \cup {Kind(r)}

ApplyRedis(r) ==
    /\ RunAt(r, "redis")
    /\ LET key == IF Kind(r) = "transition" THEN Initialized ELSE Advanced
           wanted == IF Kind(r) = "transition" THEN "5" ELSE "6"
       IN /\ claimKey' = key
          /\ IF key = wanted THEN Report(r) ELSE RunEnds(r) /\ UNCHANGED done
    /\ UnchangedByRun /\ UNCHANGED <<database, started>>

\* User acceptance does both, as far as its first look at the key asks for it.
ReadKey(r) ==
    /\ RunAt(r, "status")
    /\ To(r, CASE claimKey = "missing" -> "initialize" [] claimKey = "5" -> "advance" [] OTHER -> "final")
    /\ UnchangedByRun /\ UNCHANGED <<database, claimKey, done, started>>

InitializeKey(r) ==
    /\ RunAt(r, "initialize") /\ claimKey' = Initialized
    /\ IF Initialized = "5" THEN To(r, "advance") ELSE RunEnds(r)
    /\ UnchangedByRun /\ UNCHANGED <<database, done, started>>

AdvanceKey(r) ==
    /\ RunAt(r, "advance") /\ To(r, "final") /\ claimKey' = Advanced
    /\ UnchangedByRun /\ UNCHANGED <<database, done, started>>

FinalStatus(r) ==
    /\ RunAt(r, "final")
    /\ IF claimKey = "6" THEN Report(r) ELSE RunEnds(r) /\ UNCHANGED done
    /\ UnchangedByRun /\ UNCHANGED <<database, claimKey, started>>

\* A run fails or is killed after any step of it.
StopRelease(r) ==
    /\ runs[r] # NotRunning /\ RunEnds(r)
    /\ UnchangedByRun /\ UNCHANGED <<database, claimKey, done, started>>

-----------------------------------------------------------------------------
(* The servers *)

UnchangedByServer == UNCHANGED <<claimKey, runs, done, started, ordered>>

ModeOf(s) == IF s \in Legacy THEN "legacy" ELSE "fenced"

\* A start migrates, and attests the mode it is configured for.  A server of
\* this release that is refused after its release reported success is remembered.
Boot(s) ==
    /\ ~servers[s].up
    /\ IF ~database.migrated THEN database' = Migrated /\ UNCHANGED <<servers, refusals>>
       ELSE /\ UNCHANGED database
            /\ servers' = [servers EXCEPT ![s].up = Attested(ModeOf(s))]
            /\ refusals' = IF ~Attested(ModeOf(s)) /\ s \in Fenced /\ done # {}
                           THEN refusals \cup {s} ELSE refusals
    /\ UnchangedByServer /\ UNCHANGED <<collection, written>>

Shut(s) ==
    /\ servers[s].up /\ servers' = [servers EXCEPT ![s] = Down]
    /\ UnchangedByServer /\ UNCHANGED <<database, collection, written, refusals>>

\* A fenced write takes a fence first, in a transaction of its own.
Allocate(s) ==
    /\ s \in Fenced /\ servers[s].up /\ servers[s].write = "none"
    /\ ~database.paused /\ written < MaxWrites
    /\ written' = written + 1
    /\ database' = [database EXCEPT !.allocator = @ + 1]
    /\ servers' = [servers EXCEPT ![s].write = "fenced", ![s].fence = database.allocator + 1,
                                  ![s].early = ~database.active]
    /\ UnchangedByServer /\ UNCHANGED <<collection, refusals>>

\* The row remembers whether it was written after the activation by a writer
\* that had begun before it, or had no fence.
Write(fence, early) ==
    collection' = [fence |-> fence, late |-> database.active /\ early]

WriteFenced(s) ==
    /\ servers[s].write = "fenced"
    /\ servers' = [servers EXCEPT ![s].write = "none", ![s].fence = 0, ![s].early = FALSE]
    /\ IF Accepted(servers[s].fence) /\ servers[s].fence >= collection.fence
       THEN Write(servers[s].fence, servers[s].early) ELSE UNCHANGED collection
    /\ UnchangedByServer /\ UNCHANGED <<database, written, refusals>>

\* A legacy write leaves the fence of the row as it is.
WriteLegacy(s) ==
    /\ s \in Legacy /\ servers[s].up /\ written < MaxWrites
    /\ written' = written + 1
    /\ IF Accepted(0) THEN Write(collection.fence, TRUE) ELSE UNCHANGED collection
    /\ UnchangedByServer /\ UNCHANGED <<database, servers, refusals>>

-----------------------------------------------------------------------------
Release(r) ==
    \/ (\E kind \in Kinds : StartRelease(r, kind)) \/ Preflight(r) \/ MigrateRelease(r)
    \/ PauseRelease(r) \/ ActivateRelease(r) \/ AttestRelease(r) \/ ApplyRedis(r)
    \/ ReadKey(r) \/ InitializeKey(r) \/ AdvanceKey(r) \/ FinalStatus(r) \/ StopRelease(r)

Server(s) == Boot(s) \/ Shut(s) \/ Allocate(s) \/ WriteFenced(s) \/ WriteLegacy(s)

Next ==
    \/ \E r \in Releases : Release(r)
    \/ \E s \in Servers : Server(s)
    \/ PauseByHand \/ ResumeByHand \/ ActivateByHand

Spec == Init /\ [][Next]_vars

-----------------------------------------------------------------------------
\* What a release has reported stays so, whatever other releases, operators and
\* servers do: the fence is enforced, the claim writers are where it left them
\* or further, and no server of its mode is refused at its start.
ReleaseHolds ==
    /\ done # {} => database.active
    /\ "transition" \in done => claimKey \in {"5", "6"}
    /\ done \cap {"v6", "uat"} # {} => claimKey = "6"
    /\ refusals = {}

\* After the activation no write is taken that had begun before it: neither an
\* unfenced one nor one whose fence had been given out by then.
NoLateWrite == ~collection.late
=============================================================================
