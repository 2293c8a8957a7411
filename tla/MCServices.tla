----------------------------- MODULE MCServices -----------------------------
(***************************************************************************)
(* What a server of the Bridge does for a player and with its stores, as   *)
(* TLC checks it: each behaviour is of one part, which part says.  The     *)
(* claims of HistoryClaims are the part whose variables have no names of   *)
(* their own; in the other parts they stay as they are at first.           *)
(***************************************************************************)
EXTENDS HistoryClaims, Sequences, TLC

CONSTANTS
    g1, g2, r1, r2,
    \* the store of the objects: its callers, and the prefixes of a namespace
    Callers, ka, kb, Prefixes, Bodies, Marker, PageSize, MaxRounds, MaxCalls, MaxMishaps,
    \* the life of a server: the requests of its readiness route
    Readiness, MaxUpsets

\* A namespace has a prefix, and a page of a listing an entry.
ASSUME ObjectsAssumption ==
    /\ Prefixes \in Seq({Prefixes[i] : i \in DOMAIN Prefixes}) /\ Prefixes # <<>>
    /\ PageSize \in Nat \ {0}

TwoPrefixes == <<ka, kb>>

Interchangeable == Permutations({g1, g2}) \cup Permutations({r1, r2})

VARIABLES
    part,        \* the part that this behaviour is of
    \* the versions of the stored objects
    versions, flying, calls, begun, answered, gone, lost,
    \* the start and the end of a server
    storage, resources, closing, checks, attestation, process, misled, upsets

Objects == INSTANCE ObjectVersions
    WITH Keys <- Prefixes, told <- answered, mishaps <- lost

Server == INSTANCE ServerLifecycle
    WITH Calls <- Readiness, answered <- misled

ObjectsVars == <<versions, flying, calls, begun, answered, gone, lost>>

ObjectsRests ==
    /\ versions = None /\ flying = None /\ calls = None /\ begun = None
    /\ answered = None /\ gone = None /\ lost = None

ServerVars == <<storage, resources, closing, checks, attestation, process,
                misled, upsets>>

ServerRests ==
    /\ storage = None /\ resources = None /\ closing = None /\ checks = None
    /\ attestation = None /\ process = None /\ misled = None /\ upsets = None

AllInit ==
    /\ part \in {"claims", "objects", "server"}
    /\ Init
    /\ part # "claims" => launched = [a \in Attempts |-> 1]
    /\ IF part = "objects" THEN Objects!Init ELSE ObjectsRests
    /\ IF part = "server" THEN Server!Init ELSE ServerRests

ClaimsMoves ==
    /\ part = "claims" /\ Next
    /\ UNCHANGED <<part, ObjectsVars, ServerVars>>

ObjectsMoves ==
    /\ part = "objects" /\ Objects!Next
    /\ UNCHANGED <<part, vars, ServerVars>>

ServerMoves ==
    /\ part = "server" /\ Server!Next
    /\ UNCHANGED <<part, vars, ObjectsVars>>

AllNext ==
    \/ ClaimsMoves
    \/ ObjectsMoves
    \/ ServerMoves

AllSpec == AllInit /\ [][AllNext]_<<part, vars, ObjectsVars, ServerVars>>

-----------------------------------------------------------------------------
\* A put answers its own version, and what a deletion answers to be gone is
\* gone (subtitle-object-store.js).
ObjectsHold == part = "objects" => Objects!PutAnswersTrue /\ Objects!ErasedIsGone

\* Ready is answered only by a runtime that is; a start that failed and a stop
\* leave nothing open but what itself failed to close, and close nothing under a
\* worker; and the proof that objects can be erased is one, up to canaries given
\* up before that landed after it had begun (storage/factory.js).
ServerSound ==
    part = "server" => Server!ReadyIsTrue /\ Server!NothingLeft /\ Server!ErasureProven
=============================================================================
