--------------------------- MODULE MachinesRollout ---------------------------
(***************************************************************************)
(* The rollout of an image to a fleet of virtual machines:                 *)
(* src/scripts/ci/fly-machines-rollout.js, from the removal of what an     *)
(* earlier rollout left behind to the release of the last lease, with the  *)
(* rollback that every failure leads to.  A lone serving machine gets a    *)
(* temporary peer, the canary, while it is restarted.                      *)
(*                                                                         *)
(* The machines are behind an API whose calls fail, are done with their    *)
(* answer lost, or land after they were given up.  An update names the     *)
(* lease and the instance that it was decided on, and is refused when      *)
(* either is no longer the machine's.  Every step is one call with the     *)
(* code around it.  Time is left out: a poll may end as soon as it does    *)
(* not find what it waits for, and a deadline that is missed is a call     *)
(* that fails.  A rollout may die at any step, and another one follows.    *)
(***************************************************************************)
EXTENDS Integers, Sequences, FiniteSets

CONSTANTS
    Machines,    \* the production fleet
    Canaries,    \* sequence: the identity of the canary of each rollout
    MaxFaults,   \* bound on failed calls, crashes and changes by others
    None

VARIABLES
    cloud,     \* each machine: state, image, cordoned, healthy, instance
    lease,     \* the rollout that holds the lease of each machine, or 0
    flying,    \* calls that were given up and may still land
    run,       \* the current rollout and its local variables
    touched,   \* machines that somebody else changed during this rollout
    faults

vars == <<cloud, lease, flying, run, touched, faults>>

Ids == Machines \cup {Canaries[i] : i \in DOMAIN Canaries}
NonRunning == {"created", "stopped"}

Absent == [state |-> "absent", image |-> None, cordoned |-> FALSE,
           healthy |-> FALSE, instance |-> 0]

\* A machine that gets requests.  All of the fleet have the same services.
Serving(machine) ==
    machine.state = "started" /\ ~machine.cordoned /\ machine.healthy

Present == {m \in Ids : cloud[m].state # "absent"}
SomeServing == \E m \in Present : Serving(cloud[m])

\* What must be as it was before: everything but the instance and its health.
Same(machine, other) ==
    /\ machine.state = other.state
    /\ machine.cordoned = other.cordoned
    /\ machine.image = other.image

TargetOf(machine) == [machine EXCEPT !.image = "new"]
-----------------------------------------------------------------------------
(* The rollout.  canary is the record of its canary: "none", "intended",   *)
(* "unknown" after a create whose outcome is not known, "tracked",         *)
(* "serving" or "gone".  journal lists the machines that it set out to     *)
(* change, left those still to be restored, failed those that could not    *)
(* be, plan what is left to do to the machine at hand.  calm is history: nobody else has changed anything *)
(* since the last look for a serving peer.                                 *)

Idle == [id |-> 0, pc |-> "idle", mode |-> "forward", snapshot |-> << >>,
         done |-> {}, journal |-> << >>, left |-> << >>, sessions |-> {},
         canary |-> "none", machine |-> None, version |-> 0, plan |-> << >>,
         failed |-> {}, calm |-> FALSE, outcome |-> "none"]

Canary == Canaries[run.id]
CanaryActive == run.canary \in {"tracked", "serving"}
Ours(m) == m \in run.sessions /\ lease[m] = run.id
Running == run.pc \notin {"idle", "ended", "dead"}

Ended(r, outcome) == [r EXCEPT !.pc = "ended", !.outcome = outcome]

\* The catch of runRollout: nothing to undo, or the rollback.
RolledBack(r) ==
    IF r.sessions = {} /\ r.journal = << >> /\ r.canary = "none"
    THEN Ended(r, "failed")
    ELSE [r EXCEPT !.mode = "back", !.pc = "restore", !.left = r.journal]

\* The rollback goes on with the next machine, from the last one changed.
Tail1(r) == [r EXCEPT !.pc = "restore", !.left = SubSeq(@, 1, Len(@) - 1)]

\* Mutant: the rollback gives up with the first machine that it cannot restore.
ThrownForGood(r) ==
    IF r.pc \in {"preflight", "clean", "recheck", "begin"} THEN Ended(r, "refused")
    ELSE IF r.mode = "forward" /\ r.pc # "release" THEN RolledBack(r)
    ELSE IF r.mode = "back" /\ r.pc \in {"inspect", "update", "await", "adjust"}
    THEN [Ended(r, "emergency") EXCEPT !.failed = @ \cup {r.machine}]
    ELSE Ended(r, "emergency")

\* Where a failed call leads: before the transaction, in it, in the rollback of
\* one machine, or in the rest of the rollback.
Thrown(r) ==
    IF r.pc \in {"preflight", "clean", "recheck", "begin"} THEN Ended(r, "refused")
    ELSE IF r.mode = "forward" /\ r.pc # "release" THEN RolledBack(r)
    ELSE IF r.mode = "back" /\ r.pc \in {"inspect", "update", "await", "adjust"}
    THEN [Tail1(r) EXCEPT !.failed = @ \cup {r.machine}]
    ELSE Ended(r, "emergency")

Fault == faults < MaxFaults /\ faults' = faults + 1

\* A call that reads: it leads on, or it fails.
Reading(next) ==
    /\ \/ run' = next /\ UNCHANGED faults
       \/ run' = Thrown(run) /\ Fault
    /\ UNCHANGED <<cloud, lease, flying, touched>>

\* A poll that saw what it waited for, or has come to its end.
Polled(seen, next) ==
    \/ seen /\ Reading(next)
    \/ ~seen /\ run' = Thrown(run) /\ UNCHANGED <<cloud, lease, flying, touched, faults>>

\* A call that changes a machine: done, done with its answer lost, or refused.
Writing(m, machine, next) ==
    /\ \/ cloud' = [cloud EXCEPT ![m] = machine] /\ run' = next /\ UNCHANGED faults
       \/ cloud' = [cloud EXCEPT ![m] = machine] /\ run' = Thrown(run) /\ Fault
       \/ UNCHANGED cloud /\ run' = Thrown(run) /\ Fault
    /\ UNCHANGED <<lease, flying, touched>>

\* A call that is given up and stays under way.
Late(call) ==
    /\ Fault
    /\ flying' = flying \cup {call}
    /\ run' = Thrown(run)
    /\ UNCHANGED <<cloud, lease, touched>>
-----------------------------------------------------------------------------
(* The API.                                                                *)

\* A new instance, started or left as it is.
Updated(machine, image, launch, state) ==
    [machine EXCEPT !.image = image, !.instance = @ + 1, !.healthy = FALSE,
                    !.state = IF launch THEN "started" ELSE state]

NewCanary == [state |-> "started", image |-> "new", cordoned |-> FALSE,
              healthy |-> FALSE, instance |-> 1]

\* A started machine passes its health checks at last, or never.
Warm(m) ==
    /\ cloud[m].state = "started" /\ ~cloud[m].healthy
    /\ cloud' = [cloud EXCEPT ![m].healthy = TRUE]
    /\ UNCHANGED <<lease, flying, run, touched, faults>>

\* A call that was given up lands, or is refused.
Land(call) ==
    /\ flying' = flying \ {call}
    /\ \/ /\ call.op = "create"
          /\ cloud' = [cloud EXCEPT ![call.machine] = NewCanary]
       \/ /\ call.op = "update"
          /\ lease[call.machine] = call.run
          /\ cloud[call.machine].instance = call.version
          /\ \E state \in NonRunning :
                cloud' = [cloud EXCEPT ![call.machine] =
                            Updated(@, call.image, call.launch, state)]
       \/ /\ call.op = "update"
          /\ \/ lease[call.machine] # call.run
             \/ cloud[call.machine].instance # call.version
          /\ UNCHANGED cloud
    /\ UNCHANGED <<lease, run, touched, faults>>

\* The lease of a rollout that died, or that never learnt of it, runs out.
Lapse(m) ==
    /\ lease[m] # 0 /\ ~(Running /\ Ours(m))
    /\ lease' = [lease EXCEPT ![m] = 0]
    /\ UNCHANGED <<cloud, flying, run, touched, faults>>

\* Somebody else deploys another image to a machine that nobody has leased,
\* after the rollout has seen the fleet.
Touch(m) ==
    /\ Running /\ run.snapshot # << >>
    /\ lease[m] = 0 /\ cloud[m].image # "other"
    /\ Fault
    /\ cloud' = [cloud EXCEPT ![m].image = "other", ![m].instance = @ + 1,
                              ![m].healthy = FALSE]
    /\ touched' = touched \cup {m}
    /\ run' = [run EXCEPT !.calm = FALSE]
    /\ UNCHANGED <<lease, flying>>

\* A lease is granted when there is none.  The answer may be lost, and then
\* nobody can use or release it.
AcquireLease(m, next) ==
    /\ UNCHANGED <<cloud, flying, touched>>
    /\ \/ /\ lease[m] = 0
          /\ lease' = [lease EXCEPT ![m] = run.id]
          /\ \/ run' = [next EXCEPT !.sessions = @ \cup {m}] /\ UNCHANGED faults
             \/ run' = Thrown(run) /\ Fault
             \/ run' = Thrown([run EXCEPT !.sessions = @ \cup {m}]) /\ Fault
       \/ UNCHANGED lease /\ run' = Thrown(run) /\ Fault
       \/ lease[m] # 0 /\ UNCHANGED <<lease, faults>> /\ run' = Thrown(run)
-----------------------------------------------------------------------------
(* Before the transaction.                                                 *)

Init ==
    /\ cloud \in [Ids -> [state : {"started"} \cup NonRunning, image : {"old", "new"},
                          cordoned : BOOLEAN, healthy : BOOLEAN, instance : {1}]
                         \cup {Absent}]
    /\ \A m \in Machines :
          /\ cloud[m].state # "absent"
          /\ cloud[m].healthy => cloud[m].state = "started"
    /\ \A m \in Ids \ Machines : cloud[m] = Absent
    /\ lease = [m \in Ids |-> 0]
    /\ flying = {} /\ run = Idle /\ touched = {} /\ faults = 0

\* The next rollout, of the same image: its calls are over that went before.
StartRun ==
    /\ ~Running /\ run.id < Len(Canaries) /\ flying = {}
    /\ run' = [Idle EXCEPT !.id = run.id + 1, !.pc = "preflight"]
    /\ touched' = {}
    /\ UNCHANGED <<cloud, lease, flying, faults>>

Crash ==
    /\ Running /\ Fault
    /\ run' = [run EXCEPT !.pc = "dead"]
    /\ UNCHANGED <<cloud, lease, flying, touched>>

Snapshot == [m \in Machines |-> cloud[m]]

\* The first list: the fleet, and the canaries of earlier rollouts.
Preflight ==
    /\ run.pc = "preflight"
    /\ Polled(\E m \in Machines : Serving(cloud[m]),
              [run EXCEPT !.snapshot = Snapshot,
                          !.pc = IF Present = Machines THEN "begin" ELSE "clean"])

\* A stale canary is leased, destroyed, and seen to be gone.
CleanStale ==
    /\ run.pc = "clean"
    /\ \E c \in Present \ Machines :
          \/ c \notin run.sessions /\ AcquireLease(c, run)
          \/ /\ c \in run.sessions
             /\ \/ /\ cloud' = [cloud EXCEPT ![c] = Absent]
                   /\ lease' = [lease EXCEPT ![c] = 0]
                   /\ \/ /\ run' = [run EXCEPT !.pc = IF Present = Machines \cup {c}
                                                      THEN "recheck" ELSE "clean"]
                         /\ UNCHANGED faults
                      \/ run' = Thrown(run) /\ Fault
                \/ run' = Thrown(run) /\ Fault /\ UNCHANGED <<cloud, lease>>
             /\ UNCHANGED <<flying, touched>>

\* The fleet must be as the first list found it.
Recheck ==
    /\ run.pc = "recheck"
    /\ Polled(/\ Present = Machines
              /\ \A m \in Machines : /\ Same(cloud[m], run.snapshot[m])
                                     /\ cloud[m].instance = run.snapshot[m].instance
              /\ SomeServing,
              [run EXCEPT !.snapshot = Snapshot, !.pc = "begin"])

Outdated == {m \in Machines : run.snapshot[m].image # "new"}

\* A lone serving machine that needs the new image gets a canary.
NeedsCanary ==
    LET serving == {m \in Machines : Serving(run.snapshot[m])}
    IN  Cardinality(serving) = 1 /\ serving \subseteq Outdated

Begin ==
    /\ run.pc = "begin"
    /\ Reading(IF NeedsCanary
               THEN [run EXCEPT !.pc = "create", !.canary = "intended"]
               ELSE [run EXCEPT !.pc = "next"])
-----------------------------------------------------------------------------
(* The canary.                                                             *)

\* Mutant: a create that failed is taken as not done.
CreateCanaryTrusting ==
    /\ run.pc = "create"
    /\ LET none == [run EXCEPT !.canary = "none"]
           seen == [run EXCEPT !.canary = "tracked", !.pc = "adopt"]
       IN  \/ run' = Thrown(none) /\ Fault /\ UNCHANGED <<cloud, flying>>
           \/ /\ cloud' = [cloud EXCEPT ![Canary] = NewCanary]
              /\ \/ run' = seen /\ UNCHANGED faults
                 \/ run' = Thrown(none) /\ Fault
              /\ UNCHANGED flying
           \/ /\ run' = Thrown(none) /\ Fault /\ UNCHANGED cloud
              /\ flying' = flying \cup {[op |-> "create", machine |-> Canary]}
    /\ UNCHANGED <<lease, touched>>

\* The deadline may forbid to begin; after that, the outcome of a create that
\* fails is not known.
CreateCanary ==
    /\ run.pc = "create"
    /\ LET sent == [run EXCEPT !.canary = "unknown", !.pc = "locate"]
           seen == [run EXCEPT !.canary = "tracked", !.pc = "adopt"]
       IN  \/ run' = Thrown(run) /\ Fault /\ UNCHANGED <<cloud, flying>>
           \/ /\ cloud' = [cloud EXCEPT ![Canary] = NewCanary]
              /\ \/ run' = seen /\ UNCHANGED faults
                 \/ run' = sent /\ Fault
              /\ UNCHANGED flying
           \/ run' = sent /\ Fault /\ UNCHANGED <<cloud, flying>>
           \/ /\ run' = sent /\ Fault /\ UNCHANGED cloud
              /\ flying' = flying \cup {[op |-> "create", machine |-> Canary]}
    /\ UNCHANGED <<lease, touched>>

\* It is looked for by its name until the poll ends.
LocateCanary ==
    /\ run.pc = "locate"
    /\ Polled(Canary \in Present, [run EXCEPT !.canary = "tracked", !.pc = "adopt"])

AdoptCanary ==
    /\ run.pc = "adopt"
    /\ AcquireLease(Canary, [run EXCEPT !.pc = IF run.mode = "forward"
                                               THEN "warm" ELSE "verify"])

AwaitCanary ==
    /\ run.pc = "warm"
    /\ Polled(Serving(cloud[Canary]), [run EXCEPT !.canary = "serving", !.pc = "next"])

\* It is destroyed, in up to three attempts, and seen to be gone.
RemoveCanary ==
    /\ run.pc = "remove"
    /\ LET gone == [run EXCEPT !.canary = "gone", !.pc = "confirm"]
       IN  \/ /\ Canary \notin Present
              /\ Reading(gone)
           \/ /\ Canary \in Present /\ Canary \notin run.sessions
              /\ AcquireLease(Canary, run)
           \/ /\ Canary \in Present /\ Canary \in run.sessions
              /\ \/ /\ cloud' = [cloud EXCEPT ![Canary] = Absent]
                    /\ lease' = [lease EXCEPT ![Canary] = 0]
                    /\ \/ run' = gone /\ UNCHANGED faults
                       \/ run' = Thrown(run) /\ Fault
                 \/ run' = Thrown(run) /\ Fault /\ UNCHANGED <<cloud, lease>>
              /\ UNCHANGED <<flying, touched>>
-----------------------------------------------------------------------------
(* One machine.                                                            *)

ExpectedIds == IF CanaryActive THEN Machines \cup {Canary} ELSE Machines

\* Machines that do not run come first.  One that runs needs a serving peer.
NextMachine ==
    /\ run.pc = "next"
    /\ LET todo == Outdated \ run.done
           first == {m \in todo : run.snapshot[m].state \in NonRunning}
       IN  /\ todo = {} => run' = [run EXCEPT !.pc = "attest"]
           /\ todo # {} =>
                \E m \in IF first = {} THEN todo ELSE first :
                   run' = [run EXCEPT !.machine = m,
                             !.pc = IF m \in first THEN "lease" ELSE "peer"]
    /\ UNCHANGED <<cloud, lease, flying, touched, faults>>

\* Mutant: the machine at hand counts as a peer.
RequireAnyServing ==
    /\ run.pc = "peer"
    /\ Polled(Present = ExpectedIds /\ SomeServing,
              [run EXCEPT !.pc = "lease", !.calm = TRUE])

RequireServingPeer ==
    /\ run.pc = "peer"
    /\ Polled(/\ Present = ExpectedIds
              /\ \E m \in Present \ {run.machine} : Serving(cloud[m]),
              [run EXCEPT !.pc = "lease", !.calm = TRUE])

Acquire ==
    /\ run.pc = "lease"
    /\ AcquireLease(run.machine, [run EXCEPT !.pc = "inspect"])

\* Mutant: the lease is taken for proof that nothing has changed.
InspectTrusting ==
    /\ run.pc = "inspect"
    /\ LET m == run.machine
           seen == [run EXCEPT !.version = cloud[m].instance, !.pc = "update"]
       IN  Reading(IF run.mode = "forward" THEN [seen EXCEPT !.journal = Append(@, m)]
                   ELSE seen)

\* Under the lease, the machine must be as it was; then it enters the journal.
\* The rollback asks only for its instance.
Inspect ==
    /\ run.pc = "inspect"
    /\ LET m == run.machine
           seen == [run EXCEPT !.version = cloud[m].instance, !.pc = "update"]
       IN  \/ /\ run.mode = "forward"
              /\ Polled(/\ Same(cloud[m], run.snapshot[m])
                        /\ cloud[m].instance = run.snapshot[m].instance,
                        [seen EXCEPT !.journal = Append(@, m)])
           \/ run.mode = "back" /\ Reading(seen)

Wanted(m) ==
    IF run.mode = "forward" THEN TargetOf(run.snapshot[m]) ELSE run.snapshot[m]

\* The machine gets the image; it is started when it was.
Update ==
    /\ run.pc = "update"
    /\ LET m == run.machine
           wanted == Wanted(m)
           launch == wanted.state = "started"
           next == [run EXCEPT !.version = @ + 1, !.pc = "await"]
       IN  \/ /\ cloud[m].instance = run.version /\ Ours(m)
              /\ \E state \in NonRunning :
                    Writing(m, Updated(cloud[m], wanted.image, launch, state), next)
           \/ /\ cloud[m].instance # run.version \/ ~Ours(m)
              /\ run' = Thrown(run)
              /\ UNCHANGED <<cloud, lease, flying, touched, faults>>
           \/ Late([op |-> "update", machine |-> m, run |-> run.id, version |-> run.version,
                    image |-> wanted.image, launch |-> launch])

\* What takes a machine that does not run, in the state that the update left it
\* in, to the one it had.  It is started only under a cordon.
CordonTo(cordoned, desired) ==
    IF cordoned = desired THEN << >>
    ELSE IF desired THEN <<"cordon">> ELSE <<"uncordon">>

Transition(current, wanted) ==
    IF current.state = wanted.state THEN CordonTo(current.cordoned, wanted.cordoned)
    ELSE IF wanted.state = "created"
    THEN CordonTo(current.cordoned, wanted.cordoned) \o <<"recreate">>
    ELSE CordonTo(current.cordoned, TRUE) \o <<"start", "stop">>
           \o CordonTo(TRUE, wanted.cordoned)

\* The new instance is waited for: until it passes its checks, or does not run.
AwaitUpdated ==
    /\ run.pc = "await"
    /\ LET current == cloud[run.machine]
           wanted == Wanted(run.machine)
           updated == current.image = wanted.image /\ current.instance = run.version
       IN  \/ /\ wanted.state = "started"
              /\ Polled(updated /\ current.state = "started" /\ current.healthy
                          /\ current.cordoned = wanted.cordoned,
                        [run EXCEPT !.plan = << >>, !.pc = "adjust"])
           \/ /\ wanted.state \in NonRunning
              /\ Polled(updated /\ current.state \in NonRunning,
                        [run EXCEPT !.plan = Transition(current, wanted),
                                    !.pc = "adjust"])

\* The next step of the transition, and the poll that sees it done.
Adjust ==
    /\ run.pc = "adjust" /\ run.plan # << >> /\ Ours(run.machine)
    /\ LET m == run.machine
           next == [run EXCEPT !.plan = Tail(@)]
           step == Head(run.plan)
       IN  \/ /\ step \in {"cordon", "uncordon"}
              /\ Writing(m, [cloud[m] EXCEPT !.cordoned = step = "cordon"], next)
           \/ /\ step = "start"
              /\ Writing(m, [cloud[m] EXCEPT !.state = "started"], next)
           \/ /\ step = "stop"
              /\ Writing(m, [cloud[m] EXCEPT !.state = "stopped", !.healthy = FALSE], next)
           \/ /\ step = "recreate"
              /\ \E state \in NonRunning :
                    Writing(m, Updated(cloud[m], cloud[m].image, FALSE, state),
                            IF state = "created" THEN [next EXCEPT !.version = @ + 1]
                            ELSE Thrown(run))

\* The machine is done: the rollout goes on, or the rollback does.
Adjusted ==
    /\ run.pc = "adjust" /\ run.plan = << >>
    /\ run' = IF run.mode = "forward"
              THEN [run EXCEPT !.done = @ \cup {run.machine}, !.pc = "next"]
              ELSE Tail1(run)
    /\ UNCHANGED <<cloud, lease, flying, touched, faults>>
-----------------------------------------------------------------------------
(* The end.                                                                *)

Healthy == \A m \in Machines : cloud[m].state = "started" => cloud[m].healthy

ReleaseFleet(canaryActive) ==
    /\ Present = IF canaryActive THEN Machines \cup {Canary} ELSE Machines
    /\ \A m \in Machines : Same(cloud[m], TargetOf(run.snapshot[m]))
    /\ Healthy
    /\ canaryActive => Serving(cloud[Canary])
    /\ SomeServing

OriginalFleet(canaryActive) ==
    /\ Present = IF canaryActive THEN Machines \cup {Canary} ELSE Machines
    /\ \A m \in Machines : Same(cloud[m], run.snapshot[m])
    /\ Healthy
    /\ canaryActive /\ run.canary = "serving" => Serving(cloud[Canary])
    /\ SomeServing

\* Every machine has the image; the canary is still there.
Attest ==
    /\ run.pc = "attest"
    /\ Polled(ReleaseFleet(CanaryActive),
              [run EXCEPT !.pc = IF CanaryActive THEN "remove" ELSE "confirm"])

\* Mutant: in the order in which they were changed.
RestoreInOrder ==
    /\ run.pc = "restore"
    /\ run' = IF run.left # << >>
              THEN [run EXCEPT !.machine = Head(run.left), !.left = Append(Tail(@), Head(@)),
                               !.pc = "inspect"]
              ELSE [run EXCEPT !.pc = IF run.canary = "unknown" THEN "locate" ELSE "verify"]
    /\ UNCHANGED <<cloud, lease, flying, touched, faults>>

\* The rollback takes up the next machine of its journal, or turns to the canary.
Restore ==
    /\ run.pc = "restore"
    /\ run' = IF run.left # << >>
              THEN [run EXCEPT !.machine = run.left[Len(run.left)], !.pc = "inspect"]
              ELSE [run EXCEPT !.pc = IF run.canary = "unknown" THEN "locate" ELSE "verify"]
    /\ UNCHANGED <<cloud, lease, flying, touched, faults>>

\* The canary is kept when the fleet could not be restored.
VerifyOriginals ==
    /\ run.pc = "verify"
    /\ Polled(OriginalFleet(CanaryActive) /\ run.failed = {},
              [run EXCEPT !.pc = IF run.canary \in {"none", "gone"}
                                 THEN "confirm" ELSE "remove"])

\* The fleet without the canary.
Confirm ==
    /\ run.pc = "confirm"
    /\ Polled(IF run.mode = "forward" THEN ReleaseFleet(FALSE) ELSE OriginalFleet(FALSE),
              [run EXCEPT !.pc = "release"])

Outcome ==
    IF run.mode = "forward" THEN "passed"
    ELSE IF run.journal = << >> THEN "failed" ELSE "reverted"

\* Every lease is released, in up to three attempts, or some are not.
Release ==
    /\ run.pc = "release"
    /\ \E kept \in SUBSET run.sessions :
          /\ lease' = [m \in Ids |-> IF m \in run.sessions \ kept /\ Ours(m)
                                     THEN 0 ELSE lease[m]]
          /\ \/ kept = {} /\ run' = Ended(run, Outcome) /\ UNCHANGED faults
             \/ kept # {} /\ run' = Thrown(run) /\ Fault
    /\ UNCHANGED <<cloud, flying, touched>>

Forward ==
    \/ Preflight \/ CleanStale \/ Recheck \/ Begin
    \/ CreateCanary \/ LocateCanary \/ AdoptCanary \/ AwaitCanary \/ RemoveCanary
    \/ NextMachine \/ RequireServingPeer \/ Acquire
    \/ Inspect \/ Update \/ AwaitUpdated \/ Adjust \/ Adjusted
    \/ Attest \/ Restore \/ VerifyOriginals \/ Confirm \/ Release

Next ==
    \/ StartRun \/ Crash \/ Forward
    \/ \E m \in Ids : Warm(m) \/ Lapse(m)
    \/ \E m \in Machines : Touch(m)
    \/ \E call \in flying : Land(call)

Spec == Init /\ [][Next]_vars
-----------------------------------------------------------------------------
(* Properties.                                                             *)

\* What the exit code promises.  A rollout that passed leaves every machine with
\* the image and otherwise as it was; one that failed or was reverted leaves
\* every machine as it was; neither leaves a canary, or a lease that it was told
\* of, and no call that was given up changes that later.  Only an emergency
\* promises nothing.  (A machine that somebody else changed meanwhile is
\* excepted.)
OutcomeHolds ==
    run.pc = "ended" /\ run.outcome # "emergency" /\ run.snapshot # << >> =>
        /\ \A m \in Machines \ touched :
              Same(cloud[m], IF run.outcome = "passed" THEN TargetOf(run.snapshot[m])
                             ELSE run.snapshot[m])
        /\ run.outcome # "refused" =>
              Present = Machines /\ \A m \in run.sessions : lease[m] # run.id

\* What somebody else deployed in the meantime is not overwritten, neither by the
\* rollout nor by its rollback.
OthersKept == \A m \in touched : cloud[m].image = "other"

Restored(m) ==
    /\ Same(cloud[m], run.snapshot[m])
    /\ cloud[m].state = "started" => cloud[m].healthy

\* While the rollout restarts a machine on its way forward another one serves,
\* unless somebody else has changed that since it looked (requireServingPeer).
\* And the rollback takes the canary away only when the machines that it stands
\* in for are back.
PeerServes ==
    /\ run.mode = "forward" /\ run.pc \in {"update", "await", "adjust"} /\ run.calm
         => SomeServing
    /\ run.mode = "back" /\ run.pc = "remove" => \A m \in Machines \ touched : Restored(m)

ToRestore == IF run.pc \in {"restore", "inspect", "update", "await", "adjust"} THEN run.left ELSE << >>

\* The rollback does not go dark either, although it looks for no peer, with
\* three exceptions: somebody else has changed a machine, another one could not
\* be restored, and the canary had been taken away before the rollout failed,
\* with the last attestation still to come.  And each machine that it has been
\* through is as it was, also after another one could not be restored
\* (rollbackTransaction).
RollbackServes ==
    run.mode = "back" =>
        /\ run.pc \in {"update", "await", "adjust"}
              /\ touched = {} /\ run.failed = {}
              /\ (run.canary = "none" \/ Canary \in Present)
            => SomeServing
        /\ run.pc # "dead" =>
              \A i \in DOMAIN run.journal :
                 \/ run.journal[i] \in touched \cup run.failed
                 \/ \E j \in DOMAIN ToRestore : ToRestore[j] = run.journal[i]
                 \/ Restored(run.journal[i])
=============================================================================
