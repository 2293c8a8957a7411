----------------------------- MODULE UpstreamFetch -----------------------------
(***************************************************************************)
(* The requests of one server to the providers outside:                    *)
(* src/lib/upstream-fetch-policy.js.  A request is admitted by a semaphore *)
(* with a queue for each key, whose turns go round; it then resolves its   *)
(* URL, connects to what it resolved, follows redirects and reads the      *)
(* answer, and gives its slot back however it ends: an answer, a refusal,  *)
(* its caller's abort, or one of its two deadlines.                        *)
(*                                                                         *)
(* Steps between two awaits are one action.  A request whose caller has    *)
(* aborted before it asks never reaches the semaphore and is left out.     *)
(* What a resolution, a status or a body is refused for is abstracted to   *)
(* the refusal.                                                            *)
(***************************************************************************)
EXTENDS Naturals, Sequences, FiniteSets

CONSTANTS
    MaxRequests,
    Keys,                  \* admission keys
    Urls,                  \* records with an origin, a path, and whether it is https
    None,
    MaxConcurrent, MaxConcurrentPerKey, MaxQueued, MaxQueuedPerKey, MaxRedirects

VARIABLES
    semaphore,   \* active: slots in use, groups: slots and queue of each key,
                 \* ring: the keys that have a queue, in the order of their turns
    requests,
    passed       \* how often each key was served before a request that could have been

vars == <<semaphore, requests, passed>>

\* Requests are numbered as they ask.
Requests == 1..MaxRequests

Idle == [pc |-> "idle", key |-> None, deadline |-> "none", admission |-> "none",
         url |-> None, visited |-> {}, redirects |-> 0, carries |-> FALSE, told |-> None]
NotPassed == [k \in Keys |-> 0]

Init ==
    /\ semaphore = [active |-> 0, ring |-> <<>>,
                    groups |-> [k \in Keys |-> [active |-> 0, entries |-> <<>>]]]
    /\ requests = [r \in Requests |-> Idle]
    /\ passed = [r \in Requests |-> NotPassed]

(***************************************************************************)
(* The semaphore.                                                          *)
(***************************************************************************)
HasRoom(s, k) == s.groups[k].active < MaxConcurrentPerKey

\* Mutant: a key that has its turn keeps it.
KeepsTurn(s, k) ==
    IF s.groups[k].entries = <<>> \/ \E i \in 1..Len(s.ring) : s.ring[i] = k
    THEN s ELSE [s EXCEPT !.ring = <<k>> \o @]

Enqueue(s, k) ==
    IF s.groups[k].entries = <<>> \/ \E i \in 1..Len(s.ring) : s.ring[i] = k
    THEN s ELSE [s EXCEPT !.ring = Append(@, k)]

\* A slot for key k.
Grant(s, k) == [s EXCEPT !.active = @ + 1, !.groups[k].active = @ + 1]

\* Mutant: only the first of the ring is looked at.
TurnOfTheFirst(s) == {i \in 1..Len(s.ring) : i = 1 /\ HasRoom(s, s.ring[i])}

\* The places in the ring whose keys have room.
Turns(s) == {i \in 1..Len(s.ring) : HasRoom(s, s.ring[i])}

\* The first key of the ring that has room; the keys before it go behind those
\* after it, and its own goes to the end when it has more in its queue.
NextQueued(s) ==
    LET i == CHOOSE i \in Turns(s) : \A j \in Turns(s) : i <= j
        k == s.ring[i]
        turned == [s EXCEPT !.ring = SubSeq(@, i + 1, Len(@)) \o SubSeq(@, 1, i - 1),
                            !.groups[k].entries = Tail(@)]
    IN  [key |-> k, request |-> Head(s.groups[k].entries), rest |-> Enqueue(turned, k)]

\* Whoever is first of another key's queue and has room is passed by key k;
\* who has no room waits for its own key and starts to count anew.
PassedBy(p, s, k) ==
    [r \in Requests |->
        IF \E l \in Keys \ {k} : s.groups[l].entries # <<>> /\ Head(s.groups[l].entries) = r
        THEN IF HasRoom(s, requests[r].key)
             THEN [p[r] EXCEPT ![k] = IF @ = 2 THEN 2 ELSE @ + 1] ELSE NotPassed
        ELSE p[r]]

RECURSIVE Drained(_)
Drained(d) ==
    IF d.s.active >= MaxConcurrent \/ Turns(d.s) = {} THEN d
    ELSE LET next == NextQueued(d.s)
         IN  Drained([s |-> Grant(next.rest, next.key),
                      granted |-> d.granted \cup {next.request},
                      passed |-> PassedBy(d.passed, d.s, next.key)])
DrainQueue(s) == Drained([s |-> s, granted |-> {}, passed |-> passed])

Queued == Cardinality({r \in Requests : requests[r].pc = "queued"})

\* acquire()
Ask(r, k, url) ==
    LET asked == [Idle EXCEPT !.key = k, !.url = url, !.carries = TRUE]
        s == semaphore
    IN  /\ requests[r].pc = "idle" /\ \A q \in 1..(r - 1) : requests[q].pc # "idle"
        /\ \/ /\ s.active < MaxConcurrent /\ HasRoom(s, k)
              /\ semaphore' = Grant(s, k)
              /\ passed' = PassedBy(passed, s, k)
              /\ requests' = [requests EXCEPT ![r] = [asked EXCEPT !.pc = "granted"]]
           \/ /\ s.active >= MaxConcurrent \/ ~HasRoom(s, k)
              /\ Queued >= MaxQueued \/ Len(s.groups[k].entries) >= MaxQueuedPerKey
              /\ requests' = [requests EXCEPT ![r].pc = "done", ![r].told = "queue_full"]
              /\ UNCHANGED <<semaphore, passed>>
           \/ /\ s.active >= MaxConcurrent \/ ~HasRoom(s, k)
              /\ Queued < MaxQueued /\ Len(s.groups[k].entries) < MaxQueuedPerKey
              /\ LET drain == DrainQueue(Enqueue([s EXCEPT !.groups[k].entries = Append(@, r)], k))
                 IN  /\ semaphore' = drain.s
                     /\ passed' = drain.passed
                     /\ requests' = [q \in Requests |->
                            IF q \in drain.granted THEN [requests[q] EXCEPT !.pc = "granted"]
                            ELSE IF q = r THEN [asked EXCEPT !.pc = "queued"] ELSE requests[q]]

\* A request that waits leaves its queue, and its key the ring with the last one.
Removed(r) ==
    LET k == requests[r].key
        others == SelectSeq(semaphore.groups[k].entries, LAMBDA q : q # r)
    IN  [semaphore EXCEPT
            !.groups[k].entries = others,
            !.ring = IF others = <<>> THEN SelectSeq(@, LAMBDA l : l # k) ELSE @]

\* The end of a request that holds a slot: the slot goes to whoever is next.
Release(r, answer) ==
    LET k == requests[r].key
        drain == DrainQueue([semaphore EXCEPT !.active = @ - 1, !.groups[k].active = @ - 1])
    IN  /\ semaphore' = drain.s
        /\ passed' = [drain.passed EXCEPT ![r] = NotPassed]
        /\ requests' = [q \in Requests |->
               IF q = r THEN [Idle EXCEPT !.pc = "done", !.told = answer]
               ELSE IF q \in drain.granted THEN [requests[q] EXCEPT !.pc = "granted"]
               ELSE requests[q]]

(***************************************************************************)
(* Deadlines and aborts.                                                   *)
(***************************************************************************)
\* What the caller is told of a request whose signals are those of q.
DeadlineError(q, admitting) ==
    IF admitting /\ q.admission = "timeout" THEN "admission_timeout"
    ELSE CASE q.deadline = "caller" -> "aborted"
           [] q.deadline = "timeout" -> IF admitting THEN "admission_timeout" ELSE "timeout"
           [] OTHER -> None

Running(r) == requests[r].pc \in {"resolve", "connect", "read"}

\* One of the request's signals is aborted: a waiting request leaves the queue,
\* a running one is torn down, one that has just been granted finds out.
Aborted(r, q) ==
    \/ /\ requests[r].pc = "queued"
       /\ semaphore' = Removed(r)
       /\ passed' = [passed EXCEPT ![r] = NotPassed]
       /\ requests' = [requests EXCEPT ![r] =
              [Idle EXCEPT !.pc = "done", !.told = DeadlineError(q, TRUE)]]
    \/ /\ requests[r].pc = "granted"
       /\ requests' = [requests EXCEPT ![r] = q]
       /\ UNCHANGED <<semaphore, passed>>
    \/ /\ Running(r)
       /\ Release(r, DeadlineError(q, FALSE))

CallerAborts(r) ==
    /\ requests[r].deadline = "none"
    /\ Aborted(r, [requests[r] EXCEPT !.deadline = "caller",
                                      !.admission = IF @ = "none" THEN "caller" ELSE @])

\* No timer fires between a grant and the request that it resumes.
TimesOut(r) ==
    /\ requests[r].pc # "granted"
    /\ Aborted(r, [requests[r] EXCEPT !.deadline = "timeout", !.admission = "caller"])

AdmissionTimesOut(r) ==
    /\ requests[r].pc = "queued"
    /\ Aborted(r, [requests[r] EXCEPT !.admission = "timeout"])

\* The await of the semaphore ends: the slot is given back at once when the
\* request was aborted meanwhile.
Admitted(r) ==
    LET error == DeadlineError(requests[r], TRUE)
    IN  /\ requests[r].pc = "granted"
        /\ \/ error # None /\ Release(r, error)
           \/ /\ error = None
              /\ requests' = [requests EXCEPT ![r].pc = "resolve"]
              /\ UNCHANGED <<semaphore, passed>>

(***************************************************************************)
(* The request itself.                                                     *)
(***************************************************************************)
\* Its URL resolves to public addresses, to which its connection is pinned.
Resolve(r) ==
    /\ requests[r].pc = "resolve" /\ requests[r].url \notin requests[r].visited
    /\ requests' = [requests EXCEPT ![r].pc = "connect", ![r].visited = @ \cup {requests[r].url}]
    /\ UNCHANGED <<semaphore, passed>>

\* Mutant: they come back with a redirect to the same origin.
CarriesAgain(q, url) == url.origin = q.url.origin

\* A hop to another origin loses the request's headers for good.
Carries(q, url) == q.carries /\ url.origin = q.url.origin

Redirected(r, url) ==
    LET from == requests[r].url
    IN  /\ requests[r].pc = "connect"
        /\ requests[r].redirects < MaxRedirects
        /\ from.secure => url.secure
        /\ requests' = [requests EXCEPT
               ![r].pc = "resolve", ![r].url = url, ![r].redirects = @ + 1,
               ![r].carries = Carries(requests[r], url)]
        /\ UNCHANGED <<semaphore, passed>>

Responds(r) ==
    /\ requests[r].pc = "connect"
    /\ requests' = [requests EXCEPT ![r].pc = "read"]
    /\ UNCHANGED <<semaphore, passed>>

\* The body is read, decoded and parsed within its limits.
Answered(r) == requests[r].pc = "read" /\ Release(r, "ok")

\* No URL, no address or one that is not public, or a loop; too many redirects, a
\* downgrade or a status that is refused; a body or an encoding that is.
Unresolved(r) == requests[r].pc = "resolve" /\ Release(r, "refused")
Unanswered(r) == requests[r].pc = "connect" /\ Release(r, "refused")
Undecoded(r) == requests[r].pc = "read" /\ Release(r, "refused")

Next ==
    \E r \in Requests :
        \/ \E k \in Keys, url \in Urls : Ask(r, k, url)
        \/ CallerAborts(r) \/ TimesOut(r) \/ AdmissionTimesOut(r) \/ Admitted(r)
        \/ Resolve(r) \/ Responds(r) \/ Answered(r)
        \/ Unresolved(r) \/ Unanswered(r) \/ Undecoded(r)
        \/ \E url \in Urls : Redirected(r, url)

Spec == Init /\ [][Next]_vars

-----------------------------------------------------------------------------
Holders == {r \in Requests : requests[r].pc = "granted" \/ Running(r)}

\* Each slot in use is that of a request under way, within the limits for all
\* and for each key, whatever ends a request and when: none is lost, none is
\* given back twice (_grant, _releaseHandle).
SlotsHeld ==
    /\ semaphore.active = Cardinality(Holders) /\ semaphore.active <= MaxConcurrent
    /\ \A k \in Keys :
           /\ semaphore.groups[k].active = Cardinality({r \in Holders : requests[r].key = k})
           /\ semaphore.groups[k].active <= MaxConcurrentPerKey

\* A slot is free only while everybody who waits has a key with all its slots
\* in use: no request is forgotten in a queue (_drainQueue, _nextQueuedEntry).
NoSlotIdles ==
    semaphore.active < MaxConcurrent =>
        \A r \in Requests : requests[r].pc = "queued" => ~HasRoom(semaphore, requests[r].key)

\* Turns go round: whoever is first in its key's queue is passed once at most by
\* any other key while its own has room (_nextQueuedEntry).
TurnsAreFair == \A r \in Requests, k \in Keys : passed[r][k] <= 1

\* A provider's headers go to no other origin than the first, not even after a
\* redirect back, and no hop after an https one is plain (_fetchBuffer).
HopsHold ==
    \A r \in Requests : requests[r].pc \in {"connect", "read"} =>
        \A u \in requests[r].visited :
            /\ requests[r].carries => u.origin = requests[r].url.origin
            /\ u.secure => requests[r].url.secure
=============================================================================
