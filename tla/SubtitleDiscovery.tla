--------------------------- MODULE SubtitleDiscovery ---------------------------
(***************************************************************************)
(* What a device asks about the subtitles of its play, by                  *)
(* src/lib/subtitle-discovery-service.js and the handlers of src/index.js: *)
(* a list to choose from, the artifact of the chosen one, and its content. *)
(* The claim is read again after each call that lets others run, and what  *)
(* is answered goes out in a transaction that holds the device as it was   *)
(* authenticated.                                                          *)
(*                                                                         *)
(* The fetch and the upload of an artifact (module SubtitleDelivery), and  *)
(* the query to the providers (ProviderGateway), are one step each.  A     *)
(* mutation of the providers (ProviderSnapshot) makes claims unreadable,   *)
(* activates the new ones, and starts a new generation.                    *)
(***************************************************************************)
EXTENDS Naturals, Sequences, FiniteSets

CONSTANTS Requests, None, MaxListed, MaxAsked, MaxChanges, MaxMishaps

VARIABLES
    device,     \* its generation, and whether it is revoked
    providers,  \* revision, generation, and whether a mutation is under way
    claim,      \* the active claim: session, context revision, generation, whether
                \* it is being released
    authority,  \* the generation under which artifacts may exist
    artifacts,  \* those that stand
    requests,
    told,       \* lists and artifacts that the device was told
    sessions,   \* claimed so far
    spent       \* requests and changes so far, and what went wrong

vars == <<device, providers, claim, authority, artifacts, requests, told, sessions, spent>>

Idle == [pc |-> "idle", op |-> None, session |-> 0, device |-> 0, selector |-> None,
         chosen |-> None, binding |-> None, list |-> << >>, artifact |-> None]

Init ==
    /\ device = [generation |-> 1, revoked |-> FALSE]
    /\ providers = [revision |-> 1, generation |-> 1, pending |-> FALSE]
    /\ claim = None /\ authority = 0 /\ artifacts = {}
    /\ requests = [r \in Requests |-> Idle]
    /\ told = {} /\ sessions = 0
    /\ spent = [asked |-> 0, changes |-> 0, mishaps |-> << >>]

Mishap(what) ==
    /\ Len(spent.mishaps) < MaxMishaps
    /\ spent' = [spent EXCEPT !.mishaps = Append(@, what)]

\* The binding under which a session's subtitles are delivered, None when it is
\* not claimed or cannot be read.
ActiveBinding(session) ==
    IF claim = None \/ providers.pending THEN None
    ELSE IF claim.session # session \/ claim.generation # providers.generation THEN None
    ELSE [session |-> session, context |-> claim.context, generation |-> claim.generation,
          revision |-> providers.revision]

\* The sources of a context, then those of the providers.
Sources(binding, revision) ==
    << <<"inline", binding.session, binding.context>>, <<"provider", 0, revision>> >>

\* Mutant: a candidate is named by its place in the list.
SelectorByRank(binding, source) ==
    [session |-> binding.session, generation |-> 0, context |-> 0, revision |-> 0,
     source |-> source[1]]

\* Hashed with all of the binding.
Selector(binding, source) ==
    [session |-> binding.session, generation |-> binding.generation,
     context |-> binding.context, revision |-> binding.revision, source |-> source]

Listed(binding, sources) ==
    LET kept == SubSeq(sources, 1, IF Len(sources) < MaxListed THEN Len(sources) ELSE MaxListed)
    IN  [i \in 1..Len(kept) |-> [selector |-> Selector(binding, kept[i]), source |-> kept[i]]]

-----------------------------------------------------------------------------
(* Requests *)

Become(r, request) == requests' = [requests EXCEPT ![r] = request]
Goto(r, pc) == Become(r, [requests[r] EXCEPT !.pc = pc])
NotFound(r) == Become(r, [requests[r] EXCEPT !.pc = "commit", !.list = << >>, !.artifact = None])
Quiet == UNCHANGED <<device, providers, claim, sessions>>

Ask(r, request) ==
    /\ requests[r].pc = "idle" /\ ~device.revoked
    /\ spent.asked < MaxAsked /\ spent' = [spent EXCEPT !.asked = @ + 1]
    /\ Become(r, [request EXCEPT !.pc = "claim", !.device = device.generation])
    /\ Quiet /\ UNCHANGED <<authority, artifacts, told>>

Discover(r) ==
    /\ sessions > 0
    /\ Ask(r, [Idle EXCEPT !.op = "discover", !.session = sessions])

\* The player has chosen from a list that it was told.
Resolve(r) ==
    \E t \in told : \E i \in DOMAIN t.list :
        Ask(r, [Idle EXCEPT !.op = "resolve", !.session = t.session,
                            !.selector = t.list[i].selector, !.chosen = t.list[i].source])

Read(r) ==
    \E t \in told :
        /\ t.artifact # None
        /\ Ask(r, [Idle EXCEPT !.op = "read", !.session = t.session, !.artifact = t.artifact])

ReadClaim(r) ==
    LET binding == ActiveBinding(requests[r].session)
    IN  /\ requests[r].pc = "claim"
        /\ IF binding = None THEN NotFound(r)
           ELSE Become(r, [requests[r] EXCEPT !.pc = "reconcile", !.binding = binding])
        /\ Quiet /\ UNCHANGED <<authority, artifacts, told, spent>>

\* The artifacts of an earlier authority end.
ReconcileAuthority(r) ==
    LET generation == requests[r].binding.generation
    IN  /\ requests[r].pc = "reconcile"
        /\ IF providers.pending \/ generation # providers.generation
           THEN NotFound(r) /\ UNCHANGED <<authority, artifacts>>
           ELSE /\ authority' = generation
                /\ artifacts' = {a \in artifacts : a.binding.generation = generation}
                /\ Goto(r, "again")
        /\ Quiet /\ UNCHANGED <<told, spent>>

ReadClaimAgain(r) ==
    /\ requests[r].pc = "again"
    /\ IF ActiveBinding(requests[r].session) # requests[r].binding THEN NotFound(r)
       ELSE Goto(r, IF requests[r].op = "read" THEN "read" ELSE "gateway")
    /\ Quiet /\ UNCHANGED <<authority, artifacts, told, spent>>

\* The gateway answers of the snapshot that it has read.
AskGateway(r) ==
    /\ requests[r].pc = "gateway"
    /\ IF requests[r].binding.revision # providers.revision
          \/ requests[r].binding.generation # providers.generation THEN NotFound(r)
       ELSE Goto(r, "collect")
    /\ Quiet /\ UNCHANGED <<authority, artifacts, told, spent>>

\* Mutant: the session is what counts.
IsStillOfSession(r) == ActiveBinding(requests[r].session) # None

IsStill(r) == ActiveBinding(requests[r].session) = requests[r].binding

\* The inline sources are those of the claim as it is read here.
Collect(r) ==
    LET q == requests[r]
        current == ActiveBinding(q.session)
        list == Listed(q.binding, Sources(current, q.binding.revision))
        chosen == {i \in DOMAIN list : list[i].selector = q.selector}
    IN  /\ q.pc = "collect"
        /\ IF ~IsStill(r) THEN NotFound(r)
           ELSE IF q.op = "discover" THEN Become(r, [q EXCEPT !.pc = "commit", !.list = list])
           ELSE IF chosen = {} THEN NotFound(r)
           ELSE \E i \in chosen :
                   Become(r, [q EXCEPT !.pc = "deliver",
                                  !.artifact = [binding |-> q.binding, source |-> list[i].source]])
        /\ Quiet /\ UNCHANGED <<authority, artifacts, told, spent>>

\* SubtitleDeliveryService: an artifact stands under the authority and the claim
\* of its binding alone.
Deliver(r) ==
    /\ requests[r].pc = "deliver"
    /\ IF IsStill(r) /\ authority = requests[r].binding.generation
       THEN artifacts' = artifacts \cup {requests[r].artifact} /\ Goto(r, "commit")
       ELSE NotFound(r) /\ UNCHANGED artifacts
    /\ Quiet /\ UNCHANGED <<authority, told, spent>>

ReadContent(r) ==
    LET q == requests[r]
    IN  /\ q.pc = "read"
        /\ IF IsStill(r) /\ q.artifact \in artifacts /\ q.artifact.binding = q.binding
           THEN Goto(r, "commit") ELSE NotFound(r)
        /\ Quiet /\ UNCHANGED <<authority, artifacts, told, spent>>

\* What the device gets to know; of a content, nothing that counts here.
Tells(q) ==
    IF q.list # << >> \/ (q.op = "resolve" /\ q.artifact # None)
    THEN {[session |-> q.session, binding |-> q.binding, list |-> q.list,
           chosen |-> q.chosen, artifact |-> q.artifact]}
    ELSE {}

Commit(r) ==
    /\ requests[r].pc = "commit"
    /\ ~device.revoked /\ device.generation = requests[r].device
    /\ told' = told \cup Tells(requests[r])
    /\ Become(r, Idle)
    /\ Quiet /\ UNCHANGED <<authority, artifacts, spent>>

\* Mutant: the next request would find it.
EndsQuietly(r) == Become(r, Idle)

\* An artifact that was not disclosed is invalidated.
Refuse(r) ==
    IF requests[r].op = "resolve" /\ requests[r].artifact # None THEN Goto(r, "invalidate")
    ELSE Become(r, Idle)

NotCommitted(r) ==
    /\ requests[r].pc = "commit"
    /\ \/ (device.revoked \/ device.generation # requests[r].device) /\ UNCHANGED spent
       \/ Mishap("database")
    /\ Refuse(r)
    /\ Quiet /\ UNCHANGED <<authority, artifacts, told>>

\* subtitleDeliveries.invalidateRelease: all of the session's.
Invalidate(r) ==
    /\ requests[r].pc = "invalidate"
    /\ \/ /\ artifacts' = {a \in artifacts : a.binding.session # requests[r].session}
          /\ UNCHANGED spent
       \/ Mishap("cleanup") /\ UNCHANGED artifacts
    /\ Become(r, Idle)
    /\ Quiet /\ UNCHANGED <<authority, told>>

\* A call fails on the way, or the player has left: nothing is answered.
Fails(r) ==
    /\ requests[r].pc \in {"claim", "reconcile", "again", "gateway", "collect", "deliver", "read"}
    /\ Mishap("call")
    /\ Become(r, Idle)
    /\ Quiet /\ UNCHANGED <<authority, artifacts, told>>

Crash(r) ==
    /\ requests[r].pc # "idle" /\ Mishap("crash")
    /\ Become(r, Idle)
    /\ Quiet /\ UNCHANGED <<authority, artifacts, told>>

-----------------------------------------------------------------------------
(* The others *)

Change == spent.changes < MaxChanges /\ spent' = [spent EXCEPT !.changes = @ + 1]
Still == UNCHANGED <<authority, requests, told>>

\* The device claims the next play.
Claim ==
    /\ Change /\ ~device.revoked /\ ~providers.pending
    /\ sessions' = sessions + 1
    /\ claim' = [session |-> sessions + 1, context |-> 1,
                 generation |-> providers.generation, releasing |-> FALSE]
    /\ Still /\ UNCHANGED <<device, providers, artifacts>>

\* The streams of the context are looked up again.
RecordAgain ==
    /\ Change /\ claim # None /\ ~providers.pending
    /\ claim.generation = providers.generation
    /\ claim' = [claim EXCEPT !.context = @ + 1]
    /\ Still /\ UNCHANGED <<device, providers, artifacts, sessions>>

\* POST /v1/playback/release: the deliveries first, then the context.
ReleaseDeliveries ==
    /\ Change /\ claim # None /\ claim' = [claim EXCEPT !.releasing = TRUE]
    /\ artifacts' = {a \in artifacts : a.binding.session # claim.session}
    /\ Still /\ UNCHANGED <<device, providers, sessions>>

ReleaseContext ==
    /\ claim # None /\ claim.releasing /\ claim' = None
    /\ Still /\ UNCHANGED <<device, providers, artifacts, sessions, spent>>

BeginMutation ==
    /\ Change /\ ~providers.pending /\ providers' = [providers EXCEPT !.pending = TRUE]
    /\ Still /\ UNCHANGED <<device, claim, artifacts, sessions>>

Activate ==
    /\ providers.pending /\ providers.revision = providers.generation
    /\ providers' = [providers EXCEPT !.revision = @ + 1]
    /\ Still /\ UNCHANGED <<device, claim, artifacts, sessions, spent>>

Publish ==
    /\ providers.pending /\ providers.revision > providers.generation
    /\ providers' = [providers EXCEPT !.generation = @ + 1, !.pending = FALSE]
    /\ Still /\ UNCHANGED <<device, claim, artifacts, sessions, spent>>

Revoke ==
    /\ Change /\ ~device.revoked /\ device' = [device EXCEPT !.revoked = TRUE]
    /\ Still /\ UNCHANGED <<providers, claim, artifacts, sessions>>

\* The invalidation that follows a revocation; then the device may be paired again.
FinishRevocation ==
    /\ device.revoked
    /\ device' = [generation |-> device.generation + 1, revoked |-> FALSE]
    /\ claim' = None /\ artifacts' = {}
    /\ Still /\ UNCHANGED <<providers, sessions, spent>>

Next ==
    \/ \E r \in Requests :
           \/ Discover(r) \/ Resolve(r) \/ Read(r)
           \/ ReadClaim(r) \/ ReconcileAuthority(r) \/ ReadClaimAgain(r) \/ AskGateway(r)
           \/ Collect(r) \/ Deliver(r) \/ ReadContent(r)
           \/ Commit(r) \/ NotCommitted(r) \/ Invalidate(r) \/ Fails(r) \/ Crash(r)
    \/ Claim \/ RecordAgain \/ ReleaseDeliveries \/ ReleaseContext
    \/ BeginMutation \/ Activate \/ Publish
    \/ Revoke \/ FinishRevocation

Spec == Init /\ [][Next]_vars

-----------------------------------------------------------------------------
\* The artifact that a device is told of is of the source that it chose, though
\* lists, contexts and providers changed since (canonicalCandidateIdentity).
ChosenIsResolved == \A t \in told : t.artifact # None => t.artifact.source = t.chosen

\* A list is of one play, as one binding has it: it does not mix what was read
\* before the providers answered with what was read after (_collect).
ListIsOfOneBinding ==
    \A t \in told : \A i \in DOMAIN t.list :
        t.list[i].source = Sources(t.binding, t.binding.revision)[i]

\* An artifact that a device could read is one that some device was told of or
\* is about to be, unless the process died or the cleanup failed (the handler of
\* /v1/subtitles/resolve).
UndisclosedEnds ==
    \A a \in artifacts :
        \/ ActiveBinding(a.binding.session) # a.binding \/ authority # a.binding.generation
        \/ \E t \in told : t.artifact = a
        \/ \E r \in Requests : requests[r].op = "resolve" /\ requests[r].artifact = a
        \/ \E i \in DOMAIN spent.mishaps : spent.mishaps[i] \in {"crash", "cleanup"}
=============================================================================
