-------------------------- MODULE SnapshotRegister --------------------------
(***************************************************************************)
(* What the provider-snapshot protocol promises: a register whose value is *)
(* named by a generation.  Once a read has returned a generation, that     *)
(* generation names one revision for good: the revision may change only    *)
(* under a generation nobody has been given, and a generation that was     *)
(* given out may come back only with its revision.                         *)
(***************************************************************************)
VARIABLES generation, revision, reads

vars == <<generation, revision, reads>>

Init ==
    /\ ~generation.pending
    /\ revision = 0
    /\ reads = {}

\* Who was given this generation was given this revision.
Binds(g, r) == \A x \in reads : x.generation = g => x.revision = r

\* Publish a generation or open a mutation.
Move ==
    /\ Binds(generation', revision)
    /\ UNCHANGED <<revision, reads>>

\* Replace the collection under a generation that names nothing yet.
Replace ==
    /\ \A x \in reads : x.generation # generation
    /\ revision' # revision
    /\ UNCHANGED <<generation, reads>>

\* A read may be what publishes the generation it returns (a lapsed mutation).
Read ==
    /\ ~generation'.pending
    /\ Binds(generation', revision)
    /\ reads' = reads \cup {[generation |-> generation', revision |-> revision]}
    /\ UNCHANGED revision

Next == Move \/ Replace \/ Read

Spec == Init /\ [][Next]_vars
=============================================================================
