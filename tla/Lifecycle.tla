------------------------------ MODULE Lifecycle ------------------------------
(***************************************************************************)
(* How a profile and its devices come to an end.  Revoking a device or a   *)
(* profile is one transaction of the database, which leaves a row: what is *)
(* kept elsewhere (the claims in Redis, the subtitle objects) is taken     *)
(* away afterwards, by the request or by the cleanup of any server, and    *)
(* the row is deleted last.  Every call may fail and every server may      *)
(* stop; a failed step is tried again later.  Meanwhile the devices go on  *)
(* claiming with the binding they were authenticated with.                 *)
(***************************************************************************)
EXTENDS Naturals, FiniteSets, TLC

CONSTANTS Devices,
    Runners,     \* the requests and cleanup passes that may be under way
    MaxFaults,   \* how many calls fail or servers stop
    MaxClaims    \* how many claims are tried

VARIABLES
    profile,    \* its row: status, deletion, whether its next attempt is due
    devices,    \* their rows: generation and revoked_at
    rows,       \* lifecycle_invalidations
    manifests,  \* the subtitle objects of each device
    redis,      \* the generation of each device, and the claims that stand
    sessions,   \* whether the profile has a management session
    runners,    \* what each runner is doing
    claiming,   \* how far each device's claim has come
    faulted, claimsTried

vars == <<profile, devices, rows, manifests, redis, sessions, runners, claiming,
          faulted, claimsTried>>

Of(kind, d, gen) == [kind |-> kind, device |-> d, gen |-> gen, attempts |-> 0, due |-> TRUE]
Whole == "profile"   \* the device of a profile's row

RowsOf(kind, d) == {r \in rows : r.kind = kind /\ r.device = d}

Resting == [job |-> "rest"]
NotClaiming == [pc |-> "idle"]

Init ==
    /\ profile = [status |-> "active", deletion |-> "none", due |-> TRUE]
    /\ devices = [d \in Devices |-> [gen |-> 1, revoked |-> FALSE]]
    /\ rows = {}
    /\ manifests = [d \in Devices |-> "none"]
    /\ redis = [gens |-> [d \in Devices |-> 0], claims |-> {}]
    /\ sessions = TRUE
    /\ runners = [w \in Runners |-> Resting]
    /\ claiming = [d \in Devices |-> NotClaiming]
    /\ faulted = 0 /\ claimsTried = 0

-----------------------------------------------------------------------------
(* Revocations, each a transaction of the database *)

Condemned(set) == [d \in Devices |-> IF d \in set /\ manifests[d] = "active"
                                     THEN "condemned" ELSE manifests[d]]

\* items is the row a job works on, or empty.
Job(w, job, items, pc) ==
    runners' = [runners EXCEPT ![w] = [job |-> job, items |-> items, pc |-> pc]]
Rest(w) == runners' = [runners EXCEPT ![w] = Resting]
Step(w, pc) == runners' = [runners EXCEPT ![w].pc = pc]
On(w, pc) == runners[w].job # "rest" /\ runners[w].pc = pc

\* A repeated request goes on with the row that is still there, if one is.
RevokeDevice(w, d) ==
    /\ runners[w] = Resting /\ profile.status = "active"
    /\ manifests' = Condemned({d})
    /\ \/ /\ ~devices[d].revoked
          /\ devices' = [devices EXCEPT ![d] = [gen |-> @.gen + 1, revoked |-> TRUE]]
          /\ LET row == Of("device", d, devices[d].gen + 1) IN
             rows' = rows \cup {row} /\ Job(w, "row", {row}, "clear")
       \/ /\ devices[d].revoked /\ RowsOf("device", d) # {}
          /\ \E row \in RowsOf("device", d) : Job(w, "row", {row}, "clear")
          /\ UNCHANGED <<devices, rows>>
    /\ UNCHANGED <<profile, redis, sessions, claiming, faulted, claimsTried>>

\* beginErasure, and the erasure is begun at once by the same request.
RequestErasure(w) ==
    /\ runners[w] = Resting
    /\ \/ /\ profile.status = "active"
          /\ profile' = [status |-> "revoked", deletion |-> "pending", due |-> TRUE]
          /\ rows' = rows \cup {Of("profile", Whole, 1)}
       \/ profile.deletion = "pending" /\ UNCHANGED <<profile, rows>>
    /\ manifests' = Condemned(Devices)
    /\ Job(w, "request", {}, "sessions")
    /\ UNCHANGED <<devices, redis, sessions, claiming, faulted, claimsTried>>

\* A profile may also be revoked without being erased.
RevokeProfile ==
    /\ profile.status = "active"
    /\ profile' = [profile EXCEPT !.status = "revoked"]
    /\ rows' = rows \cup {Of("profile", Whole, 1)}
    /\ manifests' = Condemned(Devices)
    /\ UNCHANGED <<devices, redis, sessions, runners, claiming, faulted, claimsTried>>

-----------------------------------------------------------------------------
(* The cleanup of the servers *)

\* resumeInvalidations takes the rows that are due, resumePending the erasure.
TakeRow(w) ==
    /\ runners[w] = Resting
    /\ \E row \in rows : row.due /\ Job(w, "row", {row}, "clear")
    /\ UNCHANGED <<profile, devices, rows, manifests, redis, sessions, claiming, faulted, claimsTried>>

\* Mutant: only an erasure whose row is still there is resumed.
TakeErasureByRow(w) ==
    /\ runners[w] = Resting /\ profile.deletion = "pending" /\ profile.due
    /\ RowsOf("profile", Whole) # {}
    /\ Job(w, "erase", {}, "sessions")
    /\ UNCHANGED <<profile, devices, rows, manifests, redis, sessions, claiming, faulted, claimsTried>>

TakeErasure(w) ==
    /\ runners[w] = Resting /\ profile.deletion = "pending" /\ profile.due
    /\ Job(w, "erase", {}, "sessions")
    /\ UNCHANGED <<profile, devices, rows, manifests, redis, sessions, claiming, faulted, claimsTried>>

\* The rows of items, however often they have been put off by now.
Same(items) == {r \in rows : \E i \in items : r = [i EXCEPT !.due = r.due, !.attempts = r.attempts]}

\* A row is put off only by the runner that has seen its last attempt.
PutOff(items) ==
    LET mine == {r \in rows : \E i \in items : r = [i EXCEPT !.due = r.due]} IN
    rows' = (rows \ mine) \cup {[r EXCEPT !.attempts = @ + 1, !.due = FALSE] : r \in mine}

\* The erasure fails: the row it was working on is put off, and by a cleanup
\* pass also the erasure.  A request leaves it due.
FailJob(w) ==
    LET job == runners[w] IN
    /\ Rest(w)
    /\ IF job.pc \in {"clear", "sweep", "complete"}
       THEN PutOff(job.items) ELSE UNCHANGED rows
    /\ profile' = [profile EXCEPT !.due = IF job.job = "erase" THEN FALSE ELSE @]

Fault(w) ==
    /\ runners[w] # Resting /\ faulted < MaxFaults
    /\ faulted' = faulted + 1
    /\ \/ FailJob(w)
       \/ Rest(w) /\ UNCHANGED <<rows, profile>>   \* the server stops
    /\ UNCHANGED <<devices, manifests, redis, sessions, claiming, claimsTried>>

\* The delay of a deferral passes.
RowDue(row) ==
    /\ row \in rows /\ ~row.due
    /\ rows' = (rows \ {row}) \cup {[row EXCEPT !.due = TRUE]}
    /\ UNCHANGED <<profile, devices, manifests, redis, sessions, runners, claiming, faulted, claimsTried>>

ErasureDue ==
    /\ ~profile.due /\ profile' = [profile EXCEPT !.due = TRUE]
    /\ UNCHANGED <<devices, rows, manifests, redis, sessions, runners, claiming, faulted, claimsTried>>

\* The devices a job is about: one, or all of the profile.
Target(w) == IF \E i \in runners[w].items : i.kind = "device"
             THEN {i.device : i \in runners[w].items} ELSE Devices

\* clearProfile: a new playback generation leaves every claim behind, those
\* that stand and those under way with the generation before.
ClearProfile(w) ==
    /\ On(w, "clear") /\ \A i \in runners[w].items : i.kind = "profile"
    /\ redis' = [redis EXCEPT !.claims = {}]
    /\ claiming' = [d \in Devices |-> IF claiming[d] = NotClaiming THEN NotClaiming
                       ELSE [claiming[d] EXCEPT !.playback = IF @ = "unread" THEN @ ELSE "left"]]
    /\ Step(w, "sweep")
    /\ UNCHANGED <<profile, devices, rows, manifests, sessions, faulted, claimsTried>>

\* Mutant: the claim is removed, but the device's generation stays behind.
InvalidateClaim(w) ==
    /\ On(w, "clear")
    /\ \E i \in runners[w].items :
        i.kind = "device" /\ redis' = [redis EXCEPT !.claims = @ \ {i.device}]
    /\ Step(w, "sweep")
    /\ UNCHANGED <<profile, devices, rows, manifests, sessions, claiming, faulted, claimsTried>>

\* invalidateDevice: the device's generation in Redis moves up to the row's,
\* and its claim is removed.
InvalidateDevice(w) ==
    /\ On(w, "clear")
    /\ \E i \in runners[w].items :
        /\ i.kind = "device"
        /\ redis' = [redis EXCEPT !.gens[i.device] = IF @ < i.gen THEN i.gen ELSE @,
                                  !.claims = @ \ {i.device}]
    /\ Step(w, "sweep")
    /\ UNCHANGED <<profile, devices, rows, manifests, sessions, claiming, faulted, claimsTried>>

\* The final sweep of the objects, after the last claim was taken away.
Sweep(w) ==
    /\ On(w, "sweep")
    /\ manifests' = Condemned(Target(w))
    /\ Step(w, "complete")
    /\ UNCHANGED <<profile, devices, rows, redis, sessions, claiming, faulted, claimsTried>>

\* Only now is the row deleted; an erasure goes on.
Complete(w) ==
    /\ On(w, "complete")
    /\ rows' = rows \ Same(runners[w].items)
    /\ IF runners[w].job = "row" THEN Rest(w) ELSE Step(w, "sessionsAgain")
    /\ UNCHANGED <<profile, devices, manifests, redis, sessions, claiming, faulted, claimsTried>>

\* The management sessions go first, and once more before the erasure.
RevokeSessions(w) ==
    /\ \/ On(w, "sessions") /\ profile.deletion = "pending" /\ Step(w, "row")
       \/ On(w, "sessions") /\ profile.deletion # "pending" /\ Rest(w)
       \/ On(w, "sessionsAgain") /\ Step(w, "erase")
    /\ sessions' = IF profile.deletion = "pending" THEN FALSE ELSE sessions
    /\ UNCHANGED <<profile, devices, rows, manifests, redis, claiming, faulted, claimsTried>>

\* getPending: an erasure does the work of the profile's row, if it is there.
FindRow(w) ==
    /\ On(w, "row")
    /\ runners' = [runners EXCEPT ![w].items = RowsOf("profile", Whole), ![w].pc = "clear"]
    /\ UNCHANGED <<profile, devices, rows, manifests, redis, sessions, claiming, faulted, claimsTried>>

\* erase is refused while an object of the profile is left.
Erase(w) ==
    /\ On(w, "erase")
    /\ \/ /\ profile.deletion = "pending" /\ \A d \in Devices : manifests[d] = "none"
          /\ profile' = [profile EXCEPT !.deletion = "deleted"]
          /\ devices' = [d \in Devices |-> [devices[d] EXCEPT !.revoked = TRUE]]
          /\ Rest(w) /\ UNCHANGED rows
       \/ /\ profile.deletion = "pending" /\ \E d \in Devices : manifests[d] # "none"
          /\ FailJob(w) /\ UNCHANGED devices
       \/ profile.deletion = "deleted" /\ Rest(w) /\ UNCHANGED <<profile, devices, rows>>
    /\ UNCHANGED <<manifests, redis, sessions, claiming, faulted, claimsTried>>

\* The deletion worker of the objects.
DeleteObject(d) ==
    /\ manifests[d] = "condemned"
    /\ manifests' = [manifests EXCEPT ![d] = "none"]
    /\ UNCHANGED <<profile, devices, rows, redis, sessions, runners, claiming, faulted, claimsTried>>

-----------------------------------------------------------------------------
(* A device goes on claiming *)

Valid(d, gen) == profile.status = "active" /\ ~devices[d].revoked /\ devices[d].gen = gen

Rested == UNCHANGED <<profile, devices, rows, manifests, sessions, runners, faulted>>

Authenticate(d) ==
    /\ claiming[d] = NotClaiming /\ claimsTried < MaxClaims /\ Valid(d, devices[d].gen)
    /\ claiming' = [claiming EXCEPT ![d] = [pc |-> "generation", gen |-> devices[d].gen, playback |-> "unread"]]
    /\ claimsTried' = claimsTried + 1
    /\ Rested /\ UNCHANGED redis

\* The playback generation of the binding is read from Redis afterwards.
ReadGeneration(d) ==
    /\ claiming[d].pc = "generation"
    /\ claiming' = [claiming EXCEPT ![d].playback = "current", ![d].pc = "admit"]
    /\ Rested /\ UNCHANGED <<redis, claimsTried>>

\* withClaimAdmission: the binding is validated, used, and validated again.
Admit(d) ==
    /\ claiming[d].pc = "admit"
    /\ claiming' = [claiming EXCEPT ![d] =
          IF Valid(d, @.gen) THEN [@ EXCEPT !.pc = "claim"] ELSE NotClaiming]
    /\ Rested /\ UNCHANGED <<redis, claimsTried>>

\* The script compares both generations; it may also run for a request that
\* has been given up.
Admissible(d) ==
    claiming[d].playback = "current" /\ redis.gens[d] <= claiming[d].gen

Claim(d) ==
    /\ claiming[d].pc = "claim"
    /\ \/ /\ Admissible(d)
          /\ redis' = [redis EXCEPT !.claims = @ \cup {d}]
          /\ claiming' = [claiming EXCEPT ![d].pc = "validate"]
       \/ ~Admissible(d) /\ claiming' = [claiming EXCEPT ![d] = NotClaiming] /\ UNCHANGED redis
    /\ Rested /\ UNCHANGED claimsTried

\* A claim that is no longer admitted is released, unless the release is lost.
Validate(d) ==
    /\ claiming[d].pc = "validate"
    /\ claiming' = [claiming EXCEPT ![d] = NotClaiming]
    /\ \/ UNCHANGED redis
       \/ ~Valid(d, claiming[d].gen) /\ redis' = [redis EXCEPT !.claims = @ \ {d}]
    /\ Rested /\ UNCHANGED claimsTried

\* A subtitle is stored for the device: its manifest is written with both rows locked.
Store(d) ==
    /\ Valid(d, devices[d].gen) /\ manifests[d] = "none"
    /\ manifests' = [manifests EXCEPT ![d] = "active"]
    /\ UNCHANGED <<profile, devices, rows, redis, sessions, runners, claiming, faulted, claimsTried>>

-----------------------------------------------------------------------------
Work(w) ==
    \/ TakeRow(w) \/ TakeErasure(w) \/ ClearProfile(w) \/ InvalidateDevice(w) \/ Sweep(w)
    \/ Complete(w) \/ RevokeSessions(w) \/ FindRow(w) \/ Erase(w)

Ask(w) == RequestErasure(w) \/ \E d \in Devices : RevokeDevice(w, d)

Device(d) ==
    \/ Authenticate(d) \/ ReadGeneration(d) \/ Admit(d) \/ Claim(d) \/ Validate(d) \/ Store(d)

Next ==
    \/ \E w \in Runners : Work(w) \/ Ask(w) \/ Fault(w)
    \/ \E d \in Devices : Device(d) \/ DeleteObject(d)
    \/ \E row \in rows : RowDue(row)
    \/ RevokeProfile \/ ErasureDue

Spec == Init /\ [][Next]_vars

\* A call ends; the timer of every server starts a cleanup pass again and
\* again, whatever the requests do; delays pass; the deletion worker works.
Fairness ==
    /\ \A w \in Runners : WF_vars(Work(w)) /\ SF_vars(TakeRow(w)) /\ SF_vars(TakeErasure(w))
    /\ WF_vars(\E row \in rows : RowDue(row)) /\ WF_vars(ErasureDue)
    /\ \A d \in Devices : WF_vars(DeleteObject(d))

FairSpec == Spec /\ Fairness

-----------------------------------------------------------------------------
\* Once the row of a revocation is gone, nothing it stood for is left and
\* nothing comes back: no claim that an admitted request still had under way,
\* no object.  An erased profile has no row and no object left.
GoneForGood ==
    /\ \A d \in Devices : devices[d].revoked /\ profile.status = "active" /\ RowsOf("device", d) = {} =>
          d \notin redis.claims /\ manifests[d] # "active"
    /\ profile.status = "revoked" /\ RowsOf("profile", Whole) = {} =>
          \A d \in Devices : d \notin redis.claims /\ manifests[d] # "active"
    /\ profile.deletion = "deleted" =>
          RowsOf("profile", Whole) = {} /\ \A d \in Devices : manifests[d] = "none"

\* A revocation comes to its end: its row is worked off however often a step
\* fails, and an erasure that was accepted ends with the profile erased.
RevocationEnds ==
    /\ []<>(rows = {})
    /\ profile.deletion = "pending" ~> profile.deletion = "deleted"
=============================================================================
