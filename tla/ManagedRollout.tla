---------------------------- MODULE ManagedRollout ----------------------------
(***************************************************************************)
(* The deployment of a release that raises the version of the claim        *)
(* writers: scripts/ci/fly-managed-rollout.js, whose commands plan,        *)
(* converge and attest the workflow runs around two deployments of one     *)
(* image, in transition mode and in v6 mode.  The cloud and its deploy     *)
(* tool are not trusted: a deployment may report success and have updated  *)
(* any of the machines, machines stop, start and fail their checks at any  *)
(* time, and somebody else may deploy.                                     *)
(***************************************************************************)
EXTENDS Naturals, FiniteSets

CONSTANTS Machines, None, Intervals, Polls, MaxMeddles

VARIABLES
    fleet,      \* state, writer, release and health of each machine
    claimKey,   \* playback-claim-writer-protocol
    job,        \* the workflow: where it is and what its command has seen
    receipt,    \* managed-fleet-attestation.json
    meddles,    \* what others have deployed
    meddled     \* they did since the last sample of an attestation

vars == <<fleet, claimKey, job, receipt, meddles, meddled>>

Fleet == {m \in Machines : fleet[m].state # "none"}
At(pc, phase) == [pc |-> pc, phase |-> phase, index |-> 0, ids |-> None, release |-> None,
                  left |-> {}, up |-> {}]
Writers(key) == IF key = "6" THEN {"transition", "v6"} ELSE {"old", "transition"}

Init ==
    /\ claimKey \in {"missing", "5", "6"}
    /\ fleet \in [Machines -> {[state |-> s, writer |-> w, release |-> 0, healthy |-> TRUE] :
                                  s \in {"none", "started", "stopped"}, w \in Writers(claimKey)}]
    /\ \A m \in Machines : fleet[m].state = "none" => fleet[m].writer = "transition"
    /\ job = At("plan", None) /\ receipt = None
    /\ meddles = 0 /\ meddled = FALSE

Fails ==
    /\ job.pc \notin {"done", "failed"} /\ job' = At("failed", job.phase)
    /\ UNCHANGED <<fleet, claimKey, receipt, meddles, meddled>>

\* plan: the candidate image reads the version; a transition comes first unless
\* it is the last one already.
Plan ==
    /\ job.pc = "plan"
    /\ job' = At("deploy", IF claimKey = "6" THEN "v6" ELSE "transition")
    /\ UNCHANGED <<fleet, claimKey, receipt, meddles, meddled>>

\* flyctl deploy: the release command raises the version, then the machines are
\* updated one after the other.
Deploy ==
    /\ job.pc = "deploy"
    /\ claimKey \in IF job.phase = "v6" THEN {"5", "6"} ELSE {"missing", "5"}
    /\ claimKey' = IF job.phase = "v6" THEN "6" ELSE "5"
    /\ \E updated \in SUBSET Fleet :
           fleet' = [m \in Machines |-> IF m \in updated
               THEN [fleet[m] EXCEPT !.writer = job.phase,
                                     !.release = IF job.phase = "v6" THEN 2 ELSE 1]
               ELSE fleet[m]]
    /\ job' = At("converge", job.phase)
    /\ UNCHANGED <<receipt, meddles, meddled>>

-----------------------------------------------------------------------------
(* Samples of the fleet *)

\* Mutant: their mode is not compared.
ConvergentInAnyMode == Cardinality(Fleet) = 2

\* Two machines of the phase's definition, started or stopped.
Convergent == Cardinality(Fleet) = 2 /\ \A m \in Fleet : fleet[m].writer = job.phase

Up == {m \in Fleet : fleet[m].state = "started"}
Passing == \A m \in Fleet : m \in Up /\ fleet[m].healthy
OneRelease == \A m, n \in Fleet : fleet[m].release = fleet[n].release

\* converge: what is stopped is started, then the fleet is polled until all
\* pass; a machine that had started does not stop again.
Converge ==
    /\ job.pc = "converge" /\ Convergent
    /\ job' = IF Passing THEN At("attest", job.phase)
              ELSE [At("start", job.phase) EXCEPT !.ids = Fleet, !.left = Fleet \ Up, !.up = Up]
    /\ UNCHANGED <<fleet, claimKey, receipt, meddles, meddled>>

StartMachine(m) ==
    /\ job.pc = "start" /\ m \in job.left /\ fleet[m].state # "none"
    /\ fleet' = [fleet EXCEPT ![m].state = "started"]
    /\ job' = [job EXCEPT !.left = @ \ {m}]
    /\ UNCHANGED <<claimKey, receipt, meddles, meddled>>

Poll ==
    /\ job.pc = "start" /\ job.left = {} /\ job.index < Polls
    /\ Convergent /\ Fleet = job.ids /\ job.up \subseteq Up
    /\ job' = IF Passing THEN At("attest", job.phase)
              ELSE [job EXCEPT !.index = @ + 1, !.up = @ \cup Up]
    /\ UNCHANGED <<fleet, claimKey, receipt, meddles, meddled>>

\* Later samples see the machines and the versions of the first one.
SameAsFirst ==
    job.index > 0 => Fleet = job.ids /\ \A m \in Fleet : fleet[m].release = job.release

\* attest: a sample of the whole fleet, which stays that of the first one, ...
Sample ==
    /\ job.pc = "attest" /\ Convergent /\ Passing /\ OneRelease
    /\ SameAsFirst
    /\ \E m \in Fleet :
           job' = [job EXCEPT !.pc = "probe", !.ids = Fleet, !.left = Fleet,
                              !.release = fleet[m].release]
    /\ meddled' = FALSE
    /\ UNCHANGED <<fleet, claimKey, receipt, meddles>>

\* What a machine that is asked answers: the version that it sees, its build.
SeesProtocol == claimKey = IF job.phase = "v6" THEN "6" ELSE "5"
RunsBuild(m) == fleet[m].writer # "old"

\* ... then each of its machines says which version of the protocol it sees and
\* which build it runs.
Probe(m) ==
    /\ job.pc = "probe" /\ m \in job.left /\ fleet[m].state = "started"
    /\ SeesProtocol /\ RunsBuild(m)
    /\ job' = [job EXCEPT !.left = @ \ {m}]
    /\ UNCHANGED <<fleet, claimKey, receipt, meddles, meddled>>

ServiceReady == \E m \in Machines : fleet[m].state = "started" /\ fleet[m].healthy

\* The service answers that it is ready; the last interval ends the phase.
Ready ==
    /\ job.pc = "probe" /\ job.left = {}
    /\ ServiceReady
    /\ IF job.index + 1 < Intervals
       THEN job' = [job EXCEPT !.pc = "attest", !.index = @ + 1] /\ UNCHANGED receipt
       ELSE IF job.phase = "transition" THEN job' = At("deploy", "v6") /\ UNCHANGED receipt
       ELSE /\ job' = At("done", "v6")
            /\ receipt' = [ids |-> job.ids, release |-> job.release]
    /\ UNCHANGED <<fleet, claimKey, meddles, meddled>>

-----------------------------------------------------------------------------
(* The cloud *)

\* The proxy or a crash stops a machine, the proxy starts it, its check flaps.
Moves(m, state, healthy) ==
    /\ fleet[m].state # "none"
    /\ fleet' = [fleet EXCEPT ![m].state = state, ![m].healthy = healthy]
    /\ UNCHANGED <<claimKey, job, receipt, meddles, meddled>>

\* Somebody else deploys what was before to a machine, adds one or removes one.
Meddle(m, state) ==
    /\ meddles < MaxMeddles /\ meddles' = meddles + 1 /\ meddled' = TRUE
    /\ fleet' = [fleet EXCEPT ![m] =
           [state |-> state, writer |-> IF state = "none" THEN "transition" ELSE "old",
            release |-> 0, healthy |-> TRUE]]
    /\ UNCHANGED <<claimKey, job, receipt>>

Next ==
    \/ Plan \/ Deploy \/ Converge \/ Poll \/ Sample \/ Ready \/ Fails
    \/ \E m \in Machines :
           \/ StartMachine(m) \/ Probe(m)
           \/ \E state \in {"started", "stopped"}, healthy \in BOOLEAN : Moves(m, state, healthy)
           \/ \E state \in {"none", "started", "stopped"} : Meddle(m, state)

Spec == Init /\ [][Next]_vars

-----------------------------------------------------------------------------
\* When the version is raised no machine of the fleet is of the writers that do
\* not know it, not even one that rests and may start again, whatever part of
\* the fleet a deployment left as it was: unless somebody else deployed after
\* the last sample of the fleet (attestRepeatedly, collectServingMachines).
NoOldWriters ==
    claimKey = "6" /\ ~meddled => \A m \in Fleet : fleet[m].writer # "old"

\* The fleet that the receipt names is the whole fleet, of one release and of
\* the last writers, unless somebody else deployed after the last sample.
ReceiptHolds ==
    receipt # None /\ ~meddled =>
        /\ claimKey = "6" /\ Fleet = receipt.ids
        /\ \A m \in Fleet : fleet[m].writer = "v6" /\ fleet[m].release = receipt.release
=============================================================================
