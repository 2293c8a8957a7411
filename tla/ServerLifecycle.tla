--------------------------- MODULE ServerLifecycle ---------------------------
(***************************************************************************)
(* The life of one server's storage: it is opened resource by resource,    *)
(* checked by the readiness route, used by the cleanup and the scrobble    *)
(* worker, and closed in reverse order - after a start that failed, after  *)
(* a readiness check that timed out, or by the shutdown of the process.    *)
(* Every call of a resource may fail or outlast its timeout; closing may,  *)
(* too, and is then forced, where there is a way to.  What nothing bounds  *)
(* may never come back: a store call of a cleanup or of a pass of the      *)
(* worker, on a pool without timeouts, and an ordinary request.            *)
(***************************************************************************)
EXTENDS Naturals, Sequences, TLC

CONSTANTS Calls,     \* the requests of the readiness route
    MaxUpsets        \* how many calls fail, time out or never come back

VARIABLES
    storage,      \* state of the runtime, the step of its start, and the
                  \* resources whose closing failed
    resources,    \* each resource, with whether its listener is attached
    closing,      \* the resources still to close
    checks,       \* how far each readiness request has come
    attestation,  \* the proof that subtitles can be erased: its canaries in the
                  \* store, those of them that landed since its last run began, and
                  \* the writes given up that may still land
    process,      \* the HTTP server, its shutdown, its two workers, and those of
                  \* their calls that never come back
    answered,     \* the readiness answers that were wrong
    upsets

vars == <<storage, resources, closing, checks, attestation, process, answered, upsets>>

Stores == {"postgres", "s3", "redis"}
StartSteps == <<"openPostgres", "probe", "migrate", "attestMode", "openS3", "openRedis",
                "connect", "readiness">>

Fine == UNCHANGED upsets
Upset == upsets < MaxUpsets /\ upsets' = upsets + 1

Open == [state |-> "open", heard |-> TRUE]
Absent == [state |-> "absent", heard |-> FALSE]

Init ==
    /\ storage = [state |-> "none", step |-> 0, errors |-> {}]
    /\ resources = [k \in Stores |-> Absent]
    /\ closing = {}
    /\ checks = [c \in Calls |-> "idle"]
    /\ attestation = [fresh |-> FALSE, task |-> "none", canaries |-> 0,
                      landed |-> 0, flying |-> 0]
    /\ process = [http |-> "up", stopping |-> "no", cleanup |-> FALSE, worker |-> "off",
                  hung |-> {}, outcome |-> "none"]
    /\ answered = {}
    /\ upsets = 0

-----------------------------------------------------------------------------
(* Starting: createStorageRuntime *)

Owned == {k \in Stores : resources[k].state # "absent"}

StepIs(name) == storage.state = "starting" /\ StartSteps[storage.step] = name
Advance == storage' = [storage EXCEPT !.step = @ + 1]
Abandon == storage' = [storage EXCEPT !.state = "failing"] /\ closing' = Owned

\* The first caller begins the start; every other one waits for the same.
EnsureStorageReady ==
    /\ storage.state = "none" /\ process.stopping = "no"
    /\ storage' = [storage EXCEPT !.state = "starting", !.step = 1]
    /\ UNCHANGED <<resources, closing, checks, attestation, process, answered, upsets>>

\* A resource is registered with its closer as soon as it exists.
OpenResource(k, name) ==
    /\ StepIs(name)
    /\ \/ Fine /\ resources' = [resources EXCEPT ![k] = Open] /\ Advance /\ UNCHANGED closing
       \/ Upset /\ UNCHANGED resources /\ Abandon
    /\ UNCHANGED <<checks, attestation, process, answered>>

\* A call within its timeout.  When it runs out, PostgreSQL is forced at once.
BoundedStep(name, force) ==
    /\ StepIs(name)
    /\ \/ Fine /\ Advance /\ UNCHANGED <<resources, closing>>
       \/ /\ Upset /\ Abandon
          /\ \/ UNCHANGED resources
             \/ force /\ resources' = [resources EXCEPT !["postgres"].state = "forced"]
    /\ UNCHANGED <<checks, attestation, process, answered>>

OpenPostgres == OpenResource("postgres", "openPostgres")
OpenS3 == OpenResource("s3", "openS3")
OpenRedis == OpenResource("redis", "openRedis")
ProbePostgres == BoundedStep("probe", TRUE)
Migrate == BoundedStep("migrate", TRUE)
AttestMode == BoundedStep("attestMode", TRUE)
ConnectRedis == BoundedStep("connect", FALSE)

\* The start ends with a first readiness run; then the workers are started.
FirstReadiness ==
    /\ StepIs("readiness")
    /\ \/ /\ Fine /\ storage' = [storage EXCEPT !.state = "ready"]
          /\ process' = [process EXCEPT !.worker = "on"]
          /\ attestation' = [attestation EXCEPT !.fresh = TRUE]
          /\ UNCHANGED closing
       \/ Upset /\ Abandon /\ UNCHANGED <<process, attestation>>
    /\ UNCHANGED <<resources, checks, answered>>

-----------------------------------------------------------------------------
(* Closing: closeResourceStack *)

\* The place of each in the order in which they are opened.
Opening == [postgres |-> 1, s3 |-> 2, redis |-> 3]

\* Mutant: the first failure ends the closing, and the others are left open.
CloseUntilFailure ==
    /\ \E k \in closing :
       /\ \A other \in closing : Opening[other] <= Opening[k]
       /\ \/ /\ Fine /\ UNCHANGED storage /\ closing' = closing \ {k}
             /\ resources' = [resources EXCEPT ![k] = [state |-> "closed", heard |-> FALSE]]
          \/ /\ Upset /\ storage' = [storage EXCEPT !.errors = @ \cup {k}]
             /\ closing' = {} /\ UNCHANGED resources
    /\ UNCHANGED <<checks, attestation, process, answered>>

\* One resource, the last opened first.  When it fails to close or times out it
\* is forced - which may fail, too, and nothing forces the S3 client - and the
\* error is kept.  Its listener is taken off whatever happens.
CloseResource ==
    /\ \E k \in closing :
       /\ \A other \in closing : Opening[other] <= Opening[k]
       /\ \/ Fine /\ UNCHANGED storage /\ resources' = [resources EXCEPT ![k] =
                [state |-> IF @.state = "forced" THEN "forced" ELSE "closed", heard |-> FALSE]]
          \/ /\ Upset /\ storage' = [storage EXCEPT !.errors = @ \cup {k}]
             /\ \E forced \in IF k = "s3" THEN {FALSE} ELSE BOOLEAN :
                   resources' = [resources EXCEPT ![k] =
                      [state |-> IF forced THEN "forced" ELSE @.state, heard |-> FALSE]]
       /\ closing' = closing \ {k}
    /\ UNCHANGED <<checks, attestation, process, answered>>

\* close() is one promise: a second caller waits for the first.
CloseRuntime ==
    storage' = [storage EXCEPT !.state = "closing"] /\ closing' = Owned

\* Mutant: a resource that had to be forced leaves the runtime closing.
ClosedClean ==
    /\ storage.state \in {"closing", "failing"} /\ closing = {}
    /\ \A k \in Stores : resources[k].state # "forced"
    /\ storage' = [storage EXCEPT !.state = IF @ = "closing" THEN "closed" ELSE "failed"]
    /\ process' = IF storage.state = "failing" /\ process.stopping = "no"
                  THEN [process EXCEPT !.stopping = "http"] ELSE process
    /\ checks' = [c \in Calls |-> IF checks[c] = "closing" THEN "idle" ELSE checks[c]]
    /\ UNCHANGED <<resources, closing, attestation, answered, upsets>>

\* A start that failed shuts the process down; the request that had the runtime
\* closed is answered.
Closed ==
    /\ storage.state \in {"closing", "failing"} /\ closing = {}
    /\ storage' = [storage EXCEPT !.state = IF @ = "closing" THEN "closed" ELSE "failed"]
    /\ process' = IF storage.state = "failing" /\ process.stopping = "no"
                  THEN [process EXCEPT !.stopping = "http"] ELSE process
    /\ checks' = [c \in Calls |-> IF checks[c] = "closing" THEN "idle" ELSE checks[c]]
    /\ UNCHANGED <<resources, closing, attestation, answered, upsets>>

-----------------------------------------------------------------------------
(* The readiness route: runReadiness *)

Order == <<"durable", "ttl", "objects">>

AskReady(c) ==
    /\ checks[c] = "idle" /\ process.stopping = "no"
    /\ storage.state \in {"ready", "closing", "closed"}
    /\ checks' = [checks EXCEPT ![c] = IF storage.state = "ready" THEN "durable" ELSE "idle"]
    /\ UNCHANGED <<storage, resources, closing, attestation, process, answered, upsets>>

AllOpen == \A k \in Stores : resources[k].state = "open"

\* The request is answered; a wrong answer is remembered.
NotReady(c) == checks' = [checks EXCEPT ![c] = "idle"] /\ UNCHANGED answered
Ready(c) ==
    /\ checks' = [checks EXCEPT ![c] = "idle"]
    /\ answered' = IF AllOpen THEN answered ELSE answered \cup {c}

\* Mutant: nobody looks at the runtime after the last check.
PassedUnseen(c, next) ==
    IF next = "done" THEN Ready(c)
    ELSE checks' = [checks EXCEPT ![c] = next] /\ UNCHANGED answered

\* After a check the runtime must still be ready.
Passed(c, next) ==
    IF storage.state # "ready" THEN NotReady(c)
    ELSE IF next = "done" THEN Ready(c)
    ELSE checks' = [checks EXCEPT ![c] = next] /\ UNCHANGED answered

\* A check fails, or it times out: then the runtime is closed for good, and the
\* request waits for that.
Failed(c) ==
    /\ Upset
    /\ \/ NotReady(c) /\ UNCHANGED <<storage, closing>>
       \/ /\ storage.state = "ready" /\ CloseRuntime
          /\ checks' = [checks EXCEPT ![c] = "closing"] /\ UNCHANGED answered

\* A check that runs into a resource being closed answers an error.
Refused(c, k) == resources[k].state # "open" /\ Fine /\ NotReady(c) /\ UNCHANGED <<storage, closing>>

CheckDurable(c) ==
    /\ checks[c] = "durable"
    /\ \/ resources["postgres"].state = "open" /\ Fine /\ Passed(c, "ttl") /\ UNCHANGED <<storage, closing>>
       \/ Refused(c, "postgres")
       \/ Failed(c)
    /\ UNCHANGED <<resources, attestation, process>>

CheckTtl(c) ==
    /\ checks[c] = "ttl"
    /\ \/ resources["redis"].state = "open" /\ Fine /\ Passed(c, "objects") /\ UNCHANGED <<storage, closing>>
       \/ Refused(c, "redis")
       \/ Failed(c)
    /\ UNCHANGED <<resources, attestation, process>>

\* The privacy of the bucket, then the proof of erasure, if it is not fresh:
\* one task at a time does it, and every other request waits for that one.
CheckObjects(c) ==
    /\ checks[c] = "objects"
    /\ \/ /\ resources["s3"].state = "open" /\ Fine
          /\ IF attestation.fresh THEN Passed(c, "done") /\ UNCHANGED attestation
             ELSE /\ checks' = [checks EXCEPT ![c] = "attesting"] /\ UNCHANGED answered
                  /\ attestation' = IF attestation.task # "none" THEN attestation
                                    ELSE [attestation EXCEPT !.task = "purge", !.landed = 0]
          /\ UNCHANGED <<storage, closing>>
       \/ Refused(c, "s3") /\ UNCHANGED attestation
       \/ Failed(c) /\ UNCHANGED attestation
    /\ UNCHANGED <<resources, process>>

\* The task ends, and with it the check of every request that waits for it.
Waiting == {c \in Calls : checks[c] = "attesting"}

Settle(proven) ==
    /\ checks' = [c \in Calls |-> IF c \in Waiting THEN "idle" ELSE checks[c]]
    /\ answered' = IF proven /\ storage.state = "ready" /\ ~AllOpen
                   THEN answered \cup Waiting ELSE answered

\* A request that waits may run out of time before the task does.
AttestTimesOut(c) ==
    /\ checks[c] = "attesting" /\ Failed(c)
    /\ UNCHANGED <<resources, attestation, process>>

\* A call of the object store ends well, or it fails, or the client is closed.
Reached == Fine /\ resources["s3"].state = "open"
Missed == Upset \/ (Fine /\ resources["s3"].state # "open")

\* The canaries of earlier runs are purged before anything is written.
AttestPurge ==
    /\ attestation.task = "purge"
    /\ \/ /\ Reached /\ UNCHANGED <<checks, answered>>
          /\ attestation' = [attestation EXCEPT !.canaries = 0, !.landed = 0, !.task = "write"]
       \/ Missed /\ Settle(FALSE) /\ attestation' = [attestation EXCEPT !.task = "none"]
    /\ UNCHANGED <<storage, resources, closing, process>>

\* A write, or an attempt of one that is answered, is given up: nothing takes the
\* PUT back, which may never arrive, or land at any time from now on.
AttestWrite ==
    /\ attestation.task = "write"
    /\ \/ Reached /\ attestation' = [attestation EXCEPT !.canaries = @ + 1, !.task = "delete"]
       \/ Missed /\ attestation' = [attestation EXCEPT !.task = "recover"]
       \/ /\ Upset
          /\ \/ attestation' = [attestation EXCEPT !.flying = @ + 1, !.task = "recover"]
             \/ /\ resources["s3"].state = "open"
                /\ attestation' = [attestation EXCEPT !.canaries = @ + 1, !.flying = @ + 1,
                                                     !.task = "delete"]
    /\ UNCHANGED <<storage, resources, closing, checks, process, answered>>

\* The store takes a PUT that was given up long ago.
LandCanary ==
    /\ attestation.flying > 0
    /\ attestation' = [attestation EXCEPT !.canaries = @ + 1, !.landed = @ + 1, !.flying = @ - 1]
    /\ UNCHANGED <<storage, resources, closing, checks, process, answered, upsets>>

\* Mutant: a deletion whose answer says nothing is taken for a proof.
AttestDeleteTrusting ==
    /\ attestation.task = "delete"
    /\ \/ /\ Reached /\ Settle(TRUE)
          /\ attestation' = [attestation EXCEPT !.canaries = @ - 1, !.task = "none", !.fresh = TRUE]
       \/ /\ Missed /\ Settle(TRUE)
          /\ attestation' = [attestation EXCEPT !.task = "none", !.fresh = TRUE]
    /\ UNCHANGED <<storage, resources, closing, process>>

\* Only the deletion of that very version is a proof.
AttestDelete ==
    /\ attestation.task = "delete"
    /\ \/ /\ Reached /\ Settle(TRUE)
          /\ attestation' = [attestation EXCEPT !.canaries = @ - 1, !.task = "none", !.fresh = TRUE]
       \/ /\ Missed /\ UNCHANGED <<checks, answered>>
          /\ attestation' = [attestation EXCEPT !.task = "recover"]
    /\ UNCHANGED <<storage, resources, closing, process>>

\* A failed run tries once to take its canary away.
AttestRecover ==
    /\ attestation.task = "recover" /\ Settle(FALSE)
    /\ \/ Reached /\ attestation' = [attestation EXCEPT !.canaries = 0, !.landed = 0, !.task = "none"]
       \/ Missed /\ attestation' = [attestation EXCEPT !.task = "none"]
    /\ UNCHANGED <<storage, resources, closing, process>>

BecomeStale ==
    /\ attestation.fresh /\ attestation' = [attestation EXCEPT !.fresh = FALSE]
    /\ UNCHANGED <<storage, resources, closing, checks, process, answered, upsets>>

-----------------------------------------------------------------------------
(* The workers, and the shutdown of the process *)

UnchangedStorage == UNCHANGED <<storage, resources, closing, checks, attestation, answered, upsets>>

\* A timer tick starts a durable cleanup, unless one is active.
StartCleanup ==
    /\ storage.state \in {"ready", "closing", "closed"} /\ ~process.cleanup
    /\ process.stopping \in {"no", "http"}
    /\ process' = [process EXCEPT !.cleanup = TRUE]
    /\ UnchangedStorage

EndCleanup ==
    /\ process.cleanup /\ "cleanup" \notin process.hung
    /\ process' = [process EXCEPT !.cleanup = FALSE]
    /\ UnchangedStorage

\* A call that nothing bounds never comes back.
Hang(work) ==
    /\ Upset
    /\ \/ work = "request" /\ process.http = "up"
       \/ work = "cleanup" /\ process.cleanup
       \/ work = "pass" /\ process.worker = "on"
    /\ work \notin process.hung
    /\ process' = [process EXCEPT !.hung = @ \cup {work}]
    /\ UNCHANGED <<storage, resources, closing, checks, attestation, answered>>

Signal ==
    /\ process.stopping = "no" /\ process' = [process EXCEPT !.stopping = "http"]
    /\ UnchangedStorage

Stopping(from, to) ==
    process.stopping = from /\ process' = [process EXCEPT !.stopping = to]

\* server.close: every request that is under way is answered first.
HttpCloses ==
    /\ process.stopping = "http" /\ \A c \in Calls : checks[c] = "idle"
    /\ "request" \notin process.hung
    /\ process' = [process EXCEPT !.http = "down", !.stopping = "cleanup"]
    /\ UnchangedStorage

\* Mutant: the shutdown does not wait for a cleanup that is active.
CleanupCut ==
    /\ Stopping("cleanup", "start")
    /\ UnchangedStorage

\* closeStorage: the timer is cleared and the active cleanup awaited.
CleanupEnds ==
    /\ ~process.cleanup /\ Stopping("cleanup", "start")
    /\ UnchangedStorage

\* A start that is under way is awaited; after one that failed, or none at all,
\* there is nothing to close.
StartEnds ==
    /\ \/ storage.state \in {"none", "failed"} /\ Stopping("start", "ended")
       \/ storage.state \in {"ready", "closing", "closed"} /\ Stopping("start", "worker")
    /\ UnchangedStorage

\* The pass of the worker that is active is awaited; then the runtime is closed,
\* unless it is.
WorkerStops ==
    /\ process.stopping = "worker" /\ "pass" \notin process.hung
    /\ process' = [process EXCEPT !.worker = "off",
                    !.stopping = IF storage.state = "closed" THEN "ended" ELSE "close"]
    /\ IF storage.state = "ready" THEN CloseRuntime ELSE UNCHANGED <<storage, closing>>
    /\ UNCHANGED <<resources, checks, attestation, answered, upsets>>

\* The shutdown ends, as a failure when a resource failed to close.
CloseEnds ==
    /\ process.stopping = "close" /\ storage.state = "closed"
    /\ process' = [process EXCEPT !.stopping = "ended",
                    !.outcome = IF storage.errors = {} THEN "clean" ELSE "failed"]
    /\ UnchangedStorage

-----------------------------------------------------------------------------
Start ==
    \/ EnsureStorageReady \/ OpenPostgres \/ ProbePostgres \/ Migrate \/ AttestMode \/ OpenS3
    \/ OpenRedis \/ ConnectRedis \/ FirstReadiness

Check(c) ==
    AskReady(c) \/ CheckDurable(c) \/ CheckTtl(c) \/ CheckObjects(c) \/ AttestTimesOut(c)

Attest == AttestPurge \/ AttestWrite \/ AttestDelete \/ AttestRecover

Shutdown ==
    HttpCloses \/ CleanupEnds \/ StartEnds \/ WorkerStops \/ CloseEnds

Next ==
    \/ Start \/ CloseResource \/ Closed \/ Attest \/ LandCanary \/ BecomeStale
    \/ \E c \in Calls : Check(c)
    \/ StartCleanup \/ EndCleanup \/ Signal \/ Shutdown
    \/ \E work \in {"request", "cleanup", "pass"} : Hang(work)

Spec == Init /\ [][Next]_vars

\* The start, the readiness checks, the attestation and the closings run within
\* timeouts.  A cleanup, a pass of the worker and a request do not: each ends only
\* unless one of its calls never comes back.
Fairness ==
    /\ WF_vars(Start) /\ WF_vars(CloseResource) /\ WF_vars(Closed) /\ WF_vars(Attest)
    /\ \A c \in Calls : WF_vars(Check(c) /\ checks[c] # "idle")
    /\ WF_vars(EndCleanup) /\ WF_vars(Shutdown)

FairSpec == Spec /\ Fairness

-----------------------------------------------------------------------------
\* Ready is answered only while every resource is open: not by a request whose
\* last check came back after another one had begun to close the runtime.
ReadyIsTrue == answered = {}

\* After a start that failed, and in a runtime that was closed, no listener is
\* left, and what is still open is what itself failed to close: one failure never
\* keeps the others from being closed.  A shutdown that ends clean leaves nothing
\* open, and none closes anything under a cleanup or a worker that still runs.
NothingLeft ==
    /\ storage.state \in {"failed", "closed"} => \A k \in Stores :
          ~resources[k].heard /\ (resources[k].state = "open" => k \in storage.errors)
    /\ process.outcome = "clean" => \A k \in Stores : resources[k].state # "open"
    /\ process.stopping \in {"close", "ended"} => ~process.cleanup /\ process.worker = "off"
    /\ process.stopping = "ended" => storage.state \in {"none", "failed", "closed"}

\* When erasure is proven afresh, no canary is left in the store but those that
\* landed, given up before, after the run that proved it had begun: nothing of an
\* earlier run that was in the store then, and not its own.
ErasureProven ==
    attestation.fresh /\ attestation.task = "none" => attestation.canaries = attestation.landed

\* Where the shutdown waits for each call that nothing bounds.
AwaitedIn == [request |-> "http", cleanup |-> "cleanup", pass |-> "worker"]

\* A shutdown comes to its end, unless it waits for a request, a cleanup or a pass
\* of the worker that never comes back: no failure and no timeout of a start, a
\* check or a closing holds it up.
ShutdownEnds ==
    process.stopping # "no" ~> \/ process.stopping = "ended"
                               \/ \E work \in process.hung : process.stopping = AwaitedIn[work]
=============================================================================
