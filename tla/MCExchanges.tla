----------------------------- MODULE MCExchanges -----------------------------
(***************************************************************************)
(* What the Bridge sends to Trakt and asks of the providers, as TLC checks *)
(* it: each behaviour is of one part, which part says.  The dispatches of  *)
(* ScrobbleOutbox are the part whose variables have no names of their own; *)
(* in the other parts they stay as they are at first.                      *)
(***************************************************************************)
EXTENDS ScrobbleOutbox, TLC

CONSTANTS g1, k1, k2, w1, w2, p1, place1, place2, place3

Interchangeable == Permutations({k1, k2}) \cup Permutations({w1, w2})

Url(origin, path, secure) == [origin |-> origin, path |-> path, secure |-> secure]
FetchUrls == {Url(place1, place1, TRUE), Url(place1, place2, TRUE),
              Url(place3, place1, TRUE), Url(place2, place1, FALSE)}

VARIABLES
    part,        \* the part that this behaviour is of
    \* the queries to the providers
    providers, clearing, epoch, marker, minted, breakers, cache, shared,
    fetches, queue, slots, queries, asked, mishaps,
    \* the requests to the providers outside
    semaphore, asks, passed,
    \* the sessions of a device's playbacks
    claimed, source, bound, playbacks, revoked, dispatches, calls, leases,
    scrobbled, ended, used,
    \* what a device asks about subtitles
    device, collection, active, authority, artifacts, requests, told, plays,
    spent

Gateway == INSTANCE ProviderGateway
    WITH Queries <- {w1, w2}, Providers <- <<p1, place2>>, Concurrency <- 1,
         MaxQueue <- 1, Threshold <- 1, MaxAsked <- 3, MaxClears <- 1,
         MaxReplaces <- 1, MaxMishaps <- 1, collection <- providers,
         active <- slots

Fetch == INSTANCE UpstreamFetch
    WITH MaxRequests <- 4, Keys <- {k1, k2}, Urls <- FetchUrls,
         MaxConcurrent <- 1, MaxConcurrentPerKey <- 1, MaxQueued <- 3,
         MaxQueuedPerKey <- 2, MaxRedirects <- 2, requests <- asks

\* The same with a second slot, which a key that is full leaves free.
FetchWide == INSTANCE UpstreamFetch
    WITH MaxRequests <- 4, Keys <- {k1, k2}, Urls <- {Url(place1, place1, TRUE)},
         MaxConcurrent <- 2, MaxConcurrentPerKey <- 1, MaxQueued <- 3,
         MaxQueuedPerKey <- 2, MaxRedirects <- 0, requests <- asks

Playbacks == INSTANCE PlaybackSessions
    WITH Sessions <- {k1, k2}, Sources <- {place1}, Callers <- {w1, w2},
         Workers <- {p1}, Events <- {"start", "resume", "pause", "stop"},
         MaxCalls <- 3, MaxChanges <- 2, MaxFaults <- 1, claim <- claimed,
         binding <- bound, sessions <- playbacks, outbox <- dispatches,
         sent <- scrobbled, spent <- used

Discovery == INSTANCE SubtitleDiscovery
    WITH Requests <- {w1, w2}, MaxListed <- 2, MaxAsked <- 3, MaxChanges <- 3,
         MaxMishaps <- 1, providers <- collection, claim <- active,
         sessions <- plays

GatewayVars == <<providers, clearing, epoch, marker, minted, breakers, cache,
                 shared, fetches, queue, slots, queries, asked, mishaps>>

GatewayRests ==
    /\ providers = None /\ clearing = None /\ epoch = None /\ marker = None
    /\ minted = None /\ breakers = None /\ cache = None /\ shared = None
    /\ fetches = None /\ queue = None /\ slots = None /\ queries = None
    /\ asked = None /\ mishaps = None

FetchVars == <<semaphore, asks, passed>>

FetchRests ==
    /\ semaphore = None /\ asks = None /\ passed = None

PlaybacksVars == <<claimed, source, bound, playbacks, revoked, dispatches,
                   calls, leases, scrobbled, ended, used>>

PlaybacksRests ==
    /\ claimed = None /\ source = None /\ bound = None /\ playbacks = None
    /\ revoked = None /\ dispatches = None /\ calls = None /\ leases = None
    /\ scrobbled = None /\ ended = None /\ used = None

DiscoveryVars == <<device, collection, active, authority, artifacts,
                   requests, told, plays, spent>>

DiscoveryRests ==
    /\ device = None /\ collection = None /\ active = None /\ authority = None
    /\ artifacts = None /\ requests = None /\ told = None /\ plays = None
    /\ spent = None

AllInit ==
    /\ part \in {"outbox", "gateway", "fetch", "wide", "sessions", "discovery"}
    /\ Init
    /\ IF part = "gateway" THEN Gateway!Init ELSE GatewayRests
    /\ CASE part = "fetch" -> Fetch!Init
         [] part = "wide" -> FetchWide!Init
         [] OTHER -> FetchRests
    /\ IF part = "sessions" THEN Playbacks!Init ELSE PlaybacksRests
    /\ IF part = "discovery" THEN Discovery!Init ELSE DiscoveryRests

OutboxMoves ==
    /\ part = "outbox" /\ Next
    /\ UNCHANGED <<part, GatewayVars, FetchVars, PlaybacksVars, DiscoveryVars>>

GatewayMoves ==
    /\ part = "gateway" /\ Gateway!Next
    /\ UNCHANGED <<part, vars, FetchVars, PlaybacksVars, DiscoveryVars>>

FetchMoves ==
    /\ \/ part = "fetch" /\ Fetch!Next
       \/ part = "wide" /\ FetchWide!Next
    /\ UNCHANGED <<part, vars, GatewayVars, PlaybacksVars, DiscoveryVars>>

PlaybacksMoves ==
    /\ part = "sessions" /\ Playbacks!Next
    /\ UNCHANGED <<part, vars, GatewayVars, FetchVars, DiscoveryVars>>

DiscoveryMoves ==
    /\ part = "discovery" /\ Discovery!Next
    /\ UNCHANGED <<part, vars, GatewayVars, FetchVars, PlaybacksVars>>

AllNext ==
    \/ OutboxMoves
    \/ GatewayMoves
    \/ FetchMoves
    \/ PlaybacksMoves
    \/ DiscoveryMoves

AllSpec == AllInit /\ [][AllNext]_<<part, vars, GatewayVars, FetchVars, PlaybacksVars, DiscoveryVars>>

-----------------------------------------------------------------------------
\* A query is answered from the providers as one snapshot had them, whoever
\* fetched it; a probe of a breaker is given back; and whoever waits for a
\* fetch gets its result (provider-gateway-service.js).  The slots of the
\* requests behind it are held by requests under way and go round between
\* those that wait, and a request's headers go to nobody but the origin that
\* they are for (upstream-fetch-policy.js).
QueriesHold ==
    /\ part = "gateway" =>
           Gateway!AnswerIsOfItsSnapshot /\ Gateway!ProbeHeld /\ Gateway!WaitersServed
    /\ part = "fetch" =>
           Fetch!SlotsHeld /\ Fetch!NoSlotIdles /\ Fetch!TurnsAreFair /\ Fetch!HopsHold
    /\ part = "wide" =>
           FetchWide!SlotsHeld /\ FetchWide!NoSlotIdles /\ FetchWide!TurnsAreFair

\* What waits to be sent is of its session as it is; a dispatch is sent once,
\* and what a call says was scrobbled is over; a session that was ended, and
\* each of a source that was released, stays so, however calls, workers, lost
\* leases and changes of the owner mix (trakt-scrobble-service.js,
\* playback-session-repository.js).
SessionsHold ==
    part = "sessions" =>
        Playbacks!WaitingIsCurrent /\ Playbacks!ScrobbledOnce /\ Playbacks!EndedStays

\* The subtitle that a device gets is the one that it chose, from a list that is
\* of one binding of its play; and one that it was not told of is not left
\* behind (subtitle-discovery-service.js, the handlers of /v1/subtitles).
DiscoveryHolds ==
    part = "discovery" =>
        /\ Discovery!ChosenIsResolved /\ Discovery!ListIsOfOneBinding
        /\ Discovery!UndisclosedEnds
==============================================================================
