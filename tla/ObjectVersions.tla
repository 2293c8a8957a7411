---------------------------- MODULE ObjectVersions ----------------------------
(***************************************************************************)
(* The object store of the subtitle files over a versioned bucket:         *)
(* src/lib/storage/s3/subtitle-object-store.js.  A put never overwrites;   *)
(* when its answer is missing, or refuses it because something is there,   *)
(* the store looks at what is there, and tells its caller the version only *)
(* when it is this attempt's own.  A deletion lists the versions page by   *)
(* page, deletes them one by one, and believes in their absence only when  *)
(* two listings in a row were empty.  Requests time out, are aborted, lose *)
(* their answers, and a put that was given up may still arrive.            *)
(***************************************************************************)
EXTENDS Naturals, Sequences, FiniteSets

CONSTANTS
    Callers,
    Keys,         \* the prefixes of a namespace with a key in each, in order
    Bodies,
    Marker,       \* a delete marker stands in the place of a body
    PageSize,     \* VERSION_PAGE_SIZE
    MaxRounds,    \* MAX_PERMANENT_ERASURE_ROUNDS
    MaxCalls, MaxMishaps

VARIABLES
    versions,     \* every version the bucket ever had, oldest first
    flying,       \* puts sent that have not arrived
    calls,        \* the call of each caller
    begun,        \* calls begun
    told,         \* puts that were answered
    gone,         \* versions that a deletion answered to be gone
    mishaps

vars == <<versions, flying, calls, begun, told, gone, mishaps>>

KeySet == {Keys[i] : i \in 1..Len(Keys)}
NoCall == [op |-> "none"]

Init ==
    /\ versions = <<>> /\ flying = {}
    /\ calls = [c \in Callers |-> NoCall] /\ begun = 0
    /\ told = {} /\ gone = {} /\ mishaps = 0

Mishap == mishaps < MaxMishaps /\ mishaps' = mishaps + 1

Present(k) == {i \in 1..Len(versions) : versions[i].key = k /\ versions[i].present}
Newest(S) == CHOOSE i \in S : \A j \in S : j <= i
Oldest(S) == CHOOSE i \in S : \A j \in S : i <= j
\* What a request for the key finds; 0 is nothing.
Live(k) ==
    IF Present(k) = {} \/ versions[Newest(Present(k))].body = Marker THEN 0
    ELSE Newest(Present(k))

Add(k, body, attempt) ==
    versions' = Append(versions, [key |-> k, body |-> body, attempt |-> attempt, present |-> TRUE])

At(c, pc) == calls[c] # NoCall /\ calls[c].pc = pc
To(c, pc) == calls' = [calls EXCEPT ![c].pc = pc]
Ends(c) == calls' = [calls EXCEPT ![c] = NoCall]
Throw(c) == Ends(c) /\ UNCHANGED <<versions, flying, begun, told, gone>>

\* Any request of a call times out, is aborted or refused, and the call throws.
\* A put that does so is looked after first, unless its caller aborted it.
Fail(c) == Mishap /\ calls[c] # NoCall /\ Throw(c)

-----------------------------------------------------------------------------
(* put *)

Put(c, k, body) ==
    /\ calls[c] = NoCall /\ begun < MaxCalls
    /\ begun' = begun + 1
    /\ LET request == [key |-> k, body |-> body, attempt |-> begun + 1]
       IN /\ calls' = [calls EXCEPT ![c] = [op |-> "put", pc |-> "sent", request |-> request]]
          /\ flying' = flying \cup {request}
    /\ UNCHANGED <<versions, told, gone, mishaps>>

Waits(c, request) == At(c, "sent") /\ calls[c].request = request

Told(request, version) ==
    told' = told \cup {[request |-> request, version |-> version]}

\* A put arrives: something that is there refuses it.  Its caller gets the
\* answer, gets none, or has long given up.
Arrive(request) ==
    /\ request \in flying /\ flying' = flying \ {request}
    /\ LET free == Live(request.key) = 0
       IN /\ IF free THEN Add(request.key, request.body, request.attempt) ELSE UNCHANGED versions
          /\ \/ /\ \E c \in Callers : Waits(c, request) /\ IF free THEN Ends(c) ELSE To(c, "reconcile")
                /\ IF free THEN Told(request, Len(versions) + 1) ELSE UNCHANGED told
                /\ UNCHANGED mishaps
             \/ /\ \E c \in Callers : Waits(c, request) /\ To(c, "reconcile")
                /\ Mishap /\ UNCHANGED told
             \/ /\ \A c \in Callers : ~Waits(c, request)
                /\ UNCHANGED <<calls, told, mishaps>>
    /\ UNCHANGED <<begun, gone>>

\* A put that nobody waits for is lost on its way.
Vanish(request) ==
    /\ request \in flying /\ flying' = flying \ {request}
    /\ \A c \in Callers : ~Waits(c, request)
    /\ UNCHANGED <<versions, calls, begun, told, gone, mishaps>>

TimeOut(c) ==
    /\ Mishap /\ At(c, "sent") /\ To(c, "reconcile")
    /\ UNCHANGED <<versions, flying, begun, told, gone>>

\* Mutant: the version that is there is told, whoever put it there.
OwnVersionLoosely(found, request) == found

\* The version is this put's own when it carries the attempt's nonce.
OwnVersion(found, request) ==
    IF versions[found].attempt = request.attempt THEN found ELSE 0

Reconcile(c) ==
    /\ At(c, "reconcile")
    /\ LET request == calls[c].request
           found == Live(request.key)
       IN IF found # 0 /\ versions[found].body = request.body
          THEN Told(request, OwnVersion(found, request)) ELSE UNCHANGED told
    /\ Ends(c)
    /\ UNCHANGED <<versions, flying, begun, gone, mishaps>>

-----------------------------------------------------------------------------
(* delete, deleteVersion and purgeNamespace *)

Top == Len(versions) + 1

\* A scan begins; what is there by then is what it answers for.
Scan(call, round, scans) ==
    [op |-> call.op, pc |-> "list", keys |-> call.keys, version |-> call.version,
     round |-> round, scans |-> scans, rest |-> call.keys, below |-> Top, targets |-> {},
     failed |-> FALSE,
     answersFor |-> IF call.op = "version" THEN {call.version}
                    ELSE UNION {Present(call.keys[i]) : i \in 1..Len(call.keys)}]

StartDeletion(c, op, keys, version) ==
    /\ calls[c] = NoCall /\ begun < MaxCalls
    /\ begun' = begun + 1
    /\ calls' = [calls EXCEPT ![c] =
                    Scan([op |-> op, keys |-> keys, version |-> version], 1, 0)]
    /\ UNCHANGED <<versions, flying, told, gone, mishaps>>

Delete(c, k) == StartDeletion(c, "delete", <<k>>, 0)
PurgeNamespace(c) == StartDeletion(c, "purge", Keys, 0)

\* Only a version that a put has told can be asked for.
DeleteVersion(c, t) ==
    /\ t.version # 0 /\ StartDeletion(c, "version", <<t.request.key>>, t.version)

\* What is left of a listing, and its next page, newest first.
Left(call) == {i \in Present(Head(call.rest)) : i < call.below}
NextPage(call) == {i \in Left(call) : Cardinality({j \in Left(call) : j > i}) < PageSize}

Page(c) ==
    LET call == calls[c]
        page == NextPage(call)
        targets == call.targets \cup IF call.op = "version" THEN page \cap {call.version} ELSE page
        truncated == page # Left(call)
        rest == IF truncated THEN call.rest ELSE Tail(call.rest)
    IN /\ At(c, "list")
       /\ calls' = [calls EXCEPT ![c] = [call EXCEPT
            !.targets = targets, !.rest = rest,
            !.below = IF truncated THEN Oldest(page) ELSE Top,
            !.pc = IF rest # <<>> THEN "list" ELSE IF targets = {} THEN "absent" ELSE "remove"]]
       /\ UNCHANGED <<versions, flying, begun, told, gone, mishaps>>

\* The deletion of one target: done, done without an answer, or not done.  The
\* others follow all the same.
Remove(c) ==
    LET target == Newest(calls[c].targets)
        removed == [versions EXCEPT ![target].present = FALSE]
        rest == calls[c].targets \ {target}
    IN /\ At(c, "remove") /\ calls[c].targets # {}
       /\ \/ /\ versions' = removed /\ UNCHANGED mishaps
             /\ calls' = [calls EXCEPT ![c].targets = rest]
          \/ /\ Mishap /\ (versions' = removed \/ UNCHANGED versions)
             /\ calls' = [calls EXCEPT ![c].targets = rest, ![c].failed = TRUE]
       /\ UNCHANGED <<flying, begun, told, gone>>

Again(c, scans) ==
    IF calls[c].round = MaxRounds THEN Ends(c)
    ELSE calls' = [calls EXCEPT ![c] = Scan(@, @.round + 1, scans)]

Answer(c) == Ends(c) /\ gone' = gone \cup calls[c].answersFor

\* Mutant: what was asked to be deleted is taken to be absent.
RemovedTrusting(c) ==
    /\ At(c, "remove") /\ calls[c].targets = {}
    /\ Answer(c)
    /\ UNCHANGED <<versions, flying, begun, told, mishaps>>

\* A failure ends a deletion, except that of an exact version: its next scan shows.
Removed(c) ==
    /\ At(c, "remove") /\ calls[c].targets = {}
    /\ IF calls[c].failed /\ calls[c].op # "version" THEN Ends(c) ELSE Again(c, 0)
    /\ UNCHANGED <<versions, flying, begun, told, gone, mishaps>>

\* A deletion of a key looks once more that nothing is there.
FoundLive(call) ==
    CASE call.op = "delete" -> Live(call.keys[1]) # 0
      [] call.op = "version" -> versions[call.version].present
      [] OTHER -> FALSE

Absent(c) ==
    /\ At(c, "absent")
    /\ CASE FoundLive(calls[c]) -> Ends(c) /\ UNCHANGED gone
         [] ~FoundLive(calls[c]) /\ calls[c].scans = 1 -> Answer(c)
         [] OTHER -> Again(c, 1) /\ UNCHANGED gone
    /\ UNCHANGED <<versions, flying, begun, told, mishaps>>

\* Somebody else deletes the key, which only hides what is there.
Hide(k) ==
    /\ Mishap /\ Live(k) # 0 /\ Add(k, Marker, 0)
    /\ UNCHANGED <<flying, calls, begun, told, gone>>

-----------------------------------------------------------------------------
Call(c) ==
    \/ \E k \in KeySet : (\E body \in Bodies : Put(c, k, body)) \/ Delete(c, k)
    \/ \E t \in told : DeleteVersion(c, t)
    \/ PurgeNamespace(c)
    \/ TimeOut(c) \/ Reconcile(c) \/ Page(c) \/ Remove(c) \/ Removed(c) \/ Absent(c) \/ Fail(c)

Next ==
    \/ \E c \in Callers : Call(c)
    \/ \E request \in flying : Arrive(request) \/ Vanish(request)
    \/ \E k \in KeySet : Hide(k)

Spec == Init /\ [][Next]_vars

-----------------------------------------------------------------------------
\* What a put tells its caller is true, however its answer came about: the
\* bucket took that body under that key, and the version is the caller's own.
PutAnswersTrue ==
    \A t \in told :
        /\ \E i \in 1..Len(versions) :
              versions[i].key = t.request.key /\ versions[i].body = t.request.body
        /\ t.version # 0 => versions[t.version].attempt = t.request.attempt

\* When a deletion has answered, no version that was there when its last scan
\* began is there any more, whatever failed and whatever arrived meanwhile.
ErasedIsGone == \A i \in gone : ~versions[i].present
=============================================================================
