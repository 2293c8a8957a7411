----------------------------- MODULE MCLiveness -----------------------------
(***************************************************************************)
(* What must come to its end, under the fairness of the timers, workers    *)
(* and bounded calls of each component.  Each behaviour is of one part,    *)
(* which part says, and the variables of the others rest.                  *)
(***************************************************************************)
EXTENDS TLC

CONSTANTS None, g1, g2, k1, w1, w2, a1, r1, d1, h1

VARIABLES
    part,        \* the part that this behaviour is of
    \* the dispatch of what a player does to Trakt
    binding, grants, replaced, playbacks, receipts, outbox, history, workers,
    holder, sent, breaks,
    \* the delivery of a subtitle, and its deletion
    playback, authority, artifacts, listed, discovered, charged, requests,
    readers, leases, sweeping, faults,
    \* the end of a profile and of its devices
    profile, devices, rows, manifests, redis, sessions, runners, claiming,
    faulted, claimsTried,
    \* the start and the end of a server
    storage, resources, closing, checks, attestation, process, answered, upsets

Outbox == INSTANCE ScrobbleOutbox
    WITH Grants <- {g1, g2}, Keys <- {k1}, Workers <- {w1, w2},
         Events <- {"pause"}, Kinds <- {"canonical"}, MaxGeneration <- 1,
         MaxBreaks <- 1, MaxAttempts <- 1, profile <- binding, sessions <- playbacks

Delivery == INSTANCE SubtitleDelivery
    WITH Artifacts <- {a1}, Requests <- {r1}, Readers <- {k1}, Sweepers <- {w1},
         Reserved <- 2, MaxObjects <- 3, MaxEpoch <- 2, MaxFaults <- 1

Life == INSTANCE Lifecycle
    WITH Devices <- {d1}, Runners <- {w1, w2}, MaxFaults <- 1, MaxClaims <- 0

Server == INSTANCE ServerLifecycle
    WITH Calls <- {h1}, MaxUpsets <- 2

OutboxVars == <<binding, grants, replaced, playbacks, receipts, outbox, history,
                workers, holder, sent, breaks>>

OutboxRests ==
    /\ binding = None /\ grants = None /\ replaced = None /\ playbacks = None
    /\ receipts = None /\ outbox = None /\ history = None /\ workers = None
    /\ holder = None /\ sent = None /\ breaks = None

DeliveryVars == <<playback, authority, artifacts, listed, discovered, charged,
                  requests, readers, leases, sweeping, faults>>

DeliveryRests ==
    /\ playback = None /\ authority = None /\ artifacts = None /\ listed = None
    /\ discovered = None /\ charged = None /\ requests = None /\ readers = None
    /\ leases = None /\ sweeping = None /\ faults = None

LifeVars == <<profile, devices, rows, manifests, redis, sessions, runners, claiming,
              faulted, claimsTried>>

LifeRests ==
    /\ profile = None /\ devices = None /\ rows = None /\ manifests = None
    /\ redis = None /\ sessions = None /\ runners = None /\ claiming = None
    /\ faulted = None /\ claimsTried = None

ServerVars == <<storage, resources, closing, checks, attestation, process,
                answered, upsets>>

ServerRests ==
    /\ storage = None /\ resources = None /\ closing = None /\ checks = None
    /\ attestation = None /\ process = None /\ answered = None /\ upsets = None

Init ==
    /\ part \in {"outbox", "delivery", "life", "server"}
    /\ IF part = "outbox" THEN Outbox!Init ELSE OutboxRests
    /\ IF part = "delivery" THEN Delivery!Init ELSE DeliveryRests
    /\ IF part = "life" THEN Life!Init ELSE LifeRests
    /\ IF part = "server" THEN Server!Init ELSE ServerRests

\* A step is of its part, and leaves the others alone.
InOutbox == part = "outbox" /\ UNCHANGED <<part, DeliveryVars, LifeVars, ServerVars>>
InDelivery == part = "delivery" /\ UNCHANGED <<part, OutboxVars, LifeVars, ServerVars>>
InLife == part = "life" /\ UNCHANGED <<part, OutboxVars, DeliveryVars, ServerVars>>
InServer == part = "server" /\ UNCHANGED <<part, OutboxVars, DeliveryVars, LifeVars>>

Next ==
    \/ InOutbox /\ Outbox!Next
    \/ InDelivery /\ Delivery!Next
    \/ InLife /\ Life!Next
    \/ InServer /\ Server!Next

vars == <<part, OutboxVars, DeliveryVars, LifeVars, ServerVars>>

-----------------------------------------------------------------------------
(***************************************************************************)
(* The fairness of each part as its own module states it and says why.  A  *)
(* behaviour is of one part, so that one condition can serve a step of     *)
(* each: fairness of the disjunction is fairness of the step of that part. *)
(***************************************************************************)
Ids == {<<g1, k1>>, <<g2, k1>>}

WeakFairness ==
    /\ WF_vars(\/ InOutbox /\ Outbox!WorkerStep(w1)
               \/ InDelivery /\ Delivery!PassDeadline(a1)
               \/ InLife /\ Life!Work(w1)
               \/ InServer /\ Server!Start)
    /\ WF_vars(\/ InOutbox /\ Outbox!WorkerStep(w2)
               \/ InDelivery /\ Delivery!Expire(a1, "dead")
               \/ InLife /\ Life!Work(w2)
               \/ InServer /\ Server!CloseResource)
    /\ WF_vars(\/ InOutbox /\ \E w \in {w1, w2} : Outbox!Claim(w, <<g1, k1>>)
               \/ InDelivery /\ Delivery!Settle(a1)
               \/ InLife /\ (\E row \in rows : Life!RowDue(row))
               \/ InServer /\ Server!Closed)
    /\ WF_vars(\/ InOutbox /\ \E w \in {w1, w2} : Outbox!Claim(w, <<g2, k1>>)
               \/ InDelivery /\ Delivery!LapseLease(k1)
               \/ InLife /\ Life!ErasureDue
               \/ InServer /\ Server!Attest)
    /\ WF_vars(\/ InOutbox /\ Outbox!Ripen(<<g1, k1>>)
               \/ InDelivery /\ Delivery!Prune
               \/ InLife /\ Life!DeleteObject(d1)
               \/ InServer /\ checks[h1] # "idle" /\ Server!Check(h1))
    /\ WF_vars(\/ InOutbox /\ Outbox!Ripen(<<g2, k1>>)
               \/ InDelivery /\ Delivery!Sweep(w1)
               \/ InServer /\ Server!EndCleanup)
    /\ WF_vars(InServer /\ Server!Shutdown)

StrongFairness ==
    /\ SF_vars(\/ InDelivery /\ Delivery!SweepInTime(w1)
               \/ InLife /\ Life!TakeRow(w1))
    /\ SF_vars(\/ InDelivery /\ Delivery!ClaimDeletion(w1, a1)
               \/ InLife /\ Life!TakeRow(w2))
    /\ SF_vars(InLife /\ Life!TakeErasure(w1))
    /\ SF_vars(InLife /\ Life!TakeErasure(w2))

Spec == Init /\ [][Next]_vars /\ WeakFairness /\ StrongFairness

-----------------------------------------------------------------------------
Reports(id) == part = "outbox" /\ Outbox!Reports(id)

\* A dispatch that reports where the playback still is does not wait for ever:
\* it is delivered or withdrawn, or the playback moves on.
CurrentSettles == \A id \in Ids : Reports(id) ~> ~Reports(id)

IsCharged == part = "delivery" /\ a1 \in Delivery!Charging

\* Whatever becomes of an artifact, what the profile is charged for it is given
\* back, if a deletion worker runs on the deliveries.
QuotaReturns == IsCharged ~> ~IsCharged

Pending == part = "life" /\ profile.deletion = "pending"

\* A revocation comes to its end: its row is worked off however often a step
\* fails, and an erasure that was accepted ends with the profile erased.
RevocationEnds ==
    /\ []<>(part = "life" => rows = {})
    /\ Pending ~> (part = "life" /\ profile.deletion = "deleted")

Stopping == part = "server" /\ process.stopping # "no"

\* Where a shutdown waits for what never comes back.
HeldUp == part = "server" /\ \E work \in process.hung : process.stopping = Server!AwaitedIn[work]

\* A shutdown comes to its end, unless a request, a cleanup or a pass of the worker
\* that it waits for never comes back.
ShutdownEnds == Stopping ~> (Stopping /\ process.stopping = "ended") \/ HeldUp
=============================================================================
