---------------------------- MODULE Provisioning ----------------------------
(***************************************************************************)
(* How several servers provision the profile of one identity.  A request   *)
(* reads the identity's and the config's alias, creates a pending profile  *)
(* or adopts the one it finds, binds both aliases, and then finishes the   *)
(* pending profile: the token it answers must be the one that opens it.    *)
(* Any call of the database may fail, or do its work and lose its answer.  *)
(* A request holds its server's lock of the identity, so a server serves   *)
(* one request at a time; nothing but the database is between two servers. *)
(***************************************************************************)
EXTENDS Naturals, FiniteSets

CONSTANTS Servers, Configs, Contents,
    MaxRequests,   \* how many requests arrive
    MaxMishaps,    \* how many calls fail or lose their answer
    MaxTries       \* maxUpdateAttempts of the provisioner

VARIABLES
    people,    \* the profiles, 1 the oldest
    aliases,   \* the row of each alias: a profile, or 0
    attempts,  \* what each server is doing
    told,      \* the tokens answered, with the profile each is for
    gaveUp,    \* the created profiles a request says it has taken back
    served, mishaps

vars == <<people, aliases, attempts, told, gaveUp, served, mishaps>>

Ids == 1..2
Keys == Configs \cup {"identity"}

NoProfile == [status |-> "none", rev |-> 0, token |-> 0,
              kind |-> "pending", config |-> "", content |-> ""]
Idle == [pc |-> "idle"]

Active(id) == people[id].status = "active"

\* getProfileId: the alias of a revoked profile is not found.
Owner(k) == IF aliases[k] # 0 /\ Active(aliases[k]) THEN aliases[k] ELSE 0

Become(s, new) == attempts' = [attempts EXCEPT ![s] = new]
GoTo(s, pc) == Become(s, [attempts[s] EXCEPT !.pc = pc])
End(s) == attempts' = [attempts EXCEPT ![s] = Idle]
At(s, pc) == attempts[s].pc = pc

Fine == UNCHANGED mishaps
Mishap == mishaps < MaxMishaps /\ mishaps' = mishaps + 1
Keep == UNCHANGED <<told, gaveUp, served>>

Init ==
    /\ people = [id \in Ids |-> NoProfile]
    /\ aliases = [k \in Keys |-> 0]
    /\ attempts = [s \in Servers |-> Idle]
    /\ told = {} /\ gaveUp = {}
    /\ served = 0 /\ mishaps = 0

-----------------------------------------------------------------------------
(* Finding the profile *)

Start(s, c, v) ==
    /\ At(s, "idle") /\ served < MaxRequests
    /\ served' = served + 1
    /\ Become(s, [pc |-> "aliases", config |-> c, content |-> v, read |-> {},
                  owners |-> [k \in Keys |-> 0], id |-> 0, seen |-> NoProfile,
                  token |-> 0, created |-> FALSE, tries |-> 0, then |-> ""])
    /\ UNCHANGED <<people, aliases, told, gaveUp, mishaps>>

\* The two aliases are read at once, in any order.
Both(s) == {"identity", attempts[s].config}

ReadAlias(s, k) ==
    /\ At(s, "aliases") /\ k \in Both(s) \ attempts[s].read
    /\ \/ Fine /\ Become(s, [attempts[s] EXCEPT !.owners[k] = Owner(k), !.read = @ \cup {k}])
       \/ Mishap /\ End(s)
    /\ UNCHANGED <<people, aliases>> /\ Keep

\* The profile is read and must be active; the request goes on from pc.
Read(s, id, pc) ==
    IF Active(id) THEN Become(s, [attempts[s] EXCEPT !.pc = pc, !.id = id, !.seen = people[id]])
                  ELSE End(s)

\* One of the aliases has an owner: two owners must agree.
Adopt(s) ==
    /\ At(s, "aliases") /\ attempts[s].read = Both(s)
    /\ LET found == {attempts[s].owners[k] : k \in Both(s)} \ {0} IN
       /\ found # {}
       /\ \/ Fine /\ Cardinality(found) = 1 /\ \E id \in found : Read(s, id, "bindIdentity")
          \/ Fine /\ Cardinality(found) = 2 /\ End(s)
          \/ Mishap /\ End(s)
    /\ UNCHANGED <<people, aliases>> /\ Keep

\* The profile and its identity alias are inserted in one transaction.
Create(s) ==
    /\ At(s, "aliases") /\ attempts[s].read = Both(s)
    /\ \A k \in Both(s) : attempts[s].owners[k] = 0
    /\ \/ /\ aliases["identity"] = 0
          /\ \E id \in Ids :
                /\ people[id].status = "none" /\ (\A j \in 1..(id - 1) : people[j].status # "none")
                /\ people' = [people EXCEPT ![id] =
                     [status |-> "active", rev |-> 1, token |-> 1, kind |-> "pending",
                      config |-> attempts[s].config, content |-> attempts[s].content]]
                /\ aliases' = [aliases EXCEPT !["identity"] = id]
                /\ \/ Fine /\ Become(s, [attempts[s] EXCEPT !.pc = "bindIdentity", !.id = id,
                                !.seen = people'[id], !.token = 1, !.created = TRUE])
                   \/ Mishap /\ End(s)
       \/ /\ aliases["identity"] # 0 /\ Fine
          /\ GoTo(s, "winner")
          /\ UNCHANGED <<people, aliases>>
       \/ Mishap /\ End(s) /\ UNCHANGED <<people, aliases>>
    /\ Keep

\* Somebody else created it first: that profile is adopted, if it is active.
AdoptWinner(s) ==
    /\ At(s, "winner")
    /\ \/ Fine /\ Owner("identity") # 0 /\ Read(s, Owner("identity"), "bindIdentity")
       \/ Fine /\ Owner("identity") = 0 /\ End(s)
       \/ Mishap /\ End(s)
    /\ UNCHANGED <<people, aliases>> /\ Keep

-----------------------------------------------------------------------------
(* Binding an alias *)

\* bind locks the profile, which must be active, and inserts the row or finds
\* its own.  Whatever came of it, the owner is read afterwards.
Bind(s, k, pc, next) ==
    /\ At(s, pc)
    /\ LET id == attempts[s].id IN
       \/ /\ Active(id)
          /\ aliases' = [aliases EXCEPT ![k] = IF @ = 0 THEN id ELSE @]
          /\ (Fine \/ Mishap)
       \/ UNCHANGED aliases /\ ((~Active(id) /\ Fine) \/ Mishap)
    /\ GoTo(s, next)
    /\ UNCHANGED people /\ Keep

BindIdentity(s) == Bind(s, "identity", "bindIdentity", "checkIdentity")
BindConfig(s) == Bind(s, attempts[s].config, "bindConfig", "checkConfig")

Compensate(s, then) ==
    Become(s, [attempts[s] EXCEPT !.pc = "compensate", !.tries = 0, !.then = then])

\* The owner of the identity decides: a request that has created a profile
\* takes it back when another one owns the identity, or nobody can tell.
CheckIdentity(s) ==
    /\ At(s, "checkIdentity")
    /\ LET a == attempts[s]  owner == Owner("identity") IN
       \/ Fine /\ owner = a.id /\ GoTo(s, "settle")
       \/ Fine /\ owner \notin {0, a.id} /\ a.created /\ Compensate(s, "adopt")
       \/ Fine /\ owner = 0 /\ a.created /\ Compensate(s, "fail")
       \/ Mishap /\ a.created /\ Compensate(s, "fail")
       \/ Fine /\ owner # a.id /\ ~a.created /\ End(s)
       \/ Mishap /\ ~a.created /\ End(s)
    /\ UNCHANGED <<people, aliases>> /\ Keep

LookAgain(s) ==
    Become(s, [attempts[s] EXCEPT !.tries = @ + 1, !.seen = people[attempts[s].id]])

\* A pending profile of another config is read again: its request may finish.
Settle(s) ==
    /\ At(s, "settle")
    /\ LET a == attempts[s] IN
       IF a.seen.kind = "final" \/ a.seen.config = a.config
       THEN Fine /\ Become(s, [a EXCEPT !.pc = "bindConfig", !.tries = 0])
       ELSE IF a.tries + 1 < MaxTries
       THEN \/ LookAgain(s) /\ Active(a.id) /\ Fine
            \/ End(s) /\ ((~Active(a.id) /\ Fine) \/ Mishap)
       ELSE Fine /\ End(s)
    /\ UNCHANGED <<people, aliases>> /\ Keep

CheckConfig(s) ==
    /\ At(s, "checkConfig")
    /\ LET a == attempts[s]  owner == Owner(a.config) IN
       \/ Fine /\ owner = a.id /\ a.seen.kind = "final" /\ GoTo(s, "synchronize")
       \/ /\ Fine /\ owner = a.id /\ a.seen.kind = "pending"
          /\ IF a.seen.content = a.content
             THEN GoTo(s, IF a.created THEN "finalize" ELSE "rotate")
             ELSE End(s)
       \/ Fine /\ owner \notin {0, a.id} /\ a.created /\ Compensate(s, "fail")
       \/ Fine /\ (owner = 0 \/ (owner # a.id /\ ~a.created)) /\ End(s)
       \/ Mishap /\ End(s)
    /\ UNCHANGED <<people, aliases>> /\ Keep

-----------------------------------------------------------------------------
(* Finishing the profile *)

\* The row as the request has seen it: what every update is conditioned on.
Current(s) == Active(attempts[s].id) /\ people[attempts[s].id].rev = attempts[s].seen.rev

Changed(s, new) ==
    people' = [people EXCEPT ![attempts[s].id] = [new EXCEPT !.rev = @ + 1]]

\* A request that has not created the profile has no token of it: it issues a
\* new one, and only at the revision it has read.
Rotate(s) ==
    /\ At(s, "rotate")
    /\ \/ /\ Current(s)
          /\ Changed(s, [people[attempts[s].id] EXCEPT !.token = attempts[s].seen.rev + 1])
          /\ \/ /\ Fine
                /\ Become(s, [attempts[s] EXCEPT !.pc = "finalize",
                        !.token = attempts[s].seen.rev + 1, !.seen = people'[attempts[s].id]])
             \/ Mishap /\ End(s)
       \/ UNCHANGED people /\ End(s) /\ ((~Current(s) /\ Fine) \/ Mishap)
    /\ UNCHANGED aliases /\ Keep

Answer(s) ==
    /\ told' = told \cup {[id |-> attempts[s].id, token |-> attempts[s].token]}
    /\ End(s) /\ UNCHANGED <<gaveUp, served>>

Final(s) ==
    [people[attempts[s].id] EXCEPT !.kind = "final", !.config = "", !.content = attempts[s].content]

Finalize(s) ==
    /\ At(s, "finalize")
    /\ \/ /\ Current(s) /\ Changed(s, Final(s))
          /\ \/ Fine /\ Answer(s)
             \/ Mishap /\ GoTo(s, "verify") /\ Keep
       \/ /\ UNCHANGED people /\ Keep
          /\ \/ ~Current(s) /\ Fine /\ End(s)
             \/ Mishap /\ GoTo(s, "verify")
    /\ UNCHANGED aliases

\* Mutant: any finished profile with the same settings passes for its own.
IsOursLoosely(s) ==
    LET p == people[attempts[s].id] IN
    p.status = "active" /\ p.kind = "final" /\ p.content = attempts[s].content

\* The answer was lost: only the very next revision, with this request's
\* settings, is its own doing.
IsOurs(s) ==
    LET p == people[attempts[s].id] IN
    /\ p.status = "active" /\ p.rev = attempts[s].seen.rev + 1
    /\ p.kind = "final" /\ p.content = attempts[s].content

VerifyFinal(s) ==
    /\ At(s, "verify")
    /\ \/ Fine /\ IsOurs(s) /\ Answer(s)
       \/ Fine /\ ~IsOurs(s) /\ End(s) /\ Keep
       \/ Mishap /\ End(s) /\ Keep
    /\ UNCHANGED <<people, aliases>>

\* A finished profile takes the request's settings; no token is answered.
Synchronize(s) ==
    /\ At(s, "synchronize")
    /\ LET a == attempts[s] IN
       \/ UNCHANGED people /\ Fine /\ a.seen.content = a.content /\ End(s)
       \/ /\ a.seen.content # a.content
          /\ \/ Current(s) /\ Changed(s, Final(s)) /\ End(s) /\ (Fine \/ Mishap)
             \/ UNCHANGED people /\ Mishap /\ End(s)
             \/ UNCHANGED people /\ Fine /\ ~Active(a.id) /\ End(s)
             \/ /\ UNCHANGED people /\ Fine /\ Active(a.id) /\ ~Current(s)
                /\ IF a.tries + 1 < MaxTries
                   THEN LookAgain(s)
                   ELSE End(s)
    /\ UNCHANGED aliases /\ Keep

-----------------------------------------------------------------------------
(* Taking a created profile back *)

GiveUp(s) ==
    /\ gaveUp' = gaveUp \cup {attempts[s].id} /\ UNCHANGED <<told, served>>
    /\ IF attempts[s].then = "fail" THEN End(s)
       ELSE Become(s, [attempts[s] EXCEPT !.pc = "winner", !.token = 0, !.created = FALSE,
                                          !.tries = 0])

\* The next round, or the error that says nothing was proven.
Again(s) ==
    /\ Keep
    /\ IF attempts[s].tries + 1 < MaxTries
       THEN Become(s, [attempts[s] EXCEPT !.pc = "compensate", !.tries = @ + 1])
       ELSE End(s)

CompensateRead(s) ==
    /\ At(s, "compensate")
    /\ LET id == attempts[s].id IN
       \/ Fine /\ ~Active(id) /\ GiveUp(s)
       \/ /\ Fine /\ Active(id) /\ Keep
          /\ Become(s, [attempts[s] EXCEPT !.pc = "revoke", !.seen = people[id]])
       \/ Mishap /\ Again(s)
    /\ UNCHANGED <<people, aliases>>

\* A conflict starts over; after anything else the profile is read again.
CompensateRevoke(s) ==
    /\ At(s, "revoke")
    /\ LET p == people[attempts[s].id] IN
       \/ /\ Current(s) /\ Changed(s, [p EXCEPT !.status = "revoked"])
          /\ (Fine \/ Mishap) /\ GoTo(s, "verifyRevoked") /\ Keep
       \/ UNCHANGED people /\ Fine /\ p.rev # attempts[s].seen.rev /\ Again(s)
       \/ UNCHANGED people /\ Mishap /\ GoTo(s, "verifyRevoked") /\ Keep
    /\ UNCHANGED aliases

\* Mutant: a revocation that was sent is believed.
CompensateTrusting(s) ==
    /\ At(s, "verifyRevoked") /\ Fine /\ GiveUp(s)
    /\ UNCHANGED <<people, aliases>>

CompensateVerify(s) ==
    /\ At(s, "verifyRevoked")
    /\ \/ Fine /\ ~Active(attempts[s].id) /\ GiveUp(s)
       \/ Fine /\ Active(attempts[s].id) /\ Again(s)
       \/ Mishap /\ Again(s)
    /\ UNCHANGED <<people, aliases>>

\* The owner of a profile revokes it or has it erased.
RevokeByOwner(id) ==
    /\ Active(id)
    /\ people' = [people EXCEPT ![id].status = "revoked", ![id].rev = @ + 1]
    /\ UNCHANGED <<aliases, attempts, told, gaveUp, served, mishaps>>

-----------------------------------------------------------------------------
Provision(s) ==
    \/ \E c \in Configs, v \in Contents : Start(s, c, v)
    \/ \E k \in Keys : ReadAlias(s, k)
    \/ Adopt(s) \/ Create(s) \/ AdoptWinner(s)
    \/ BindIdentity(s) \/ CheckIdentity(s) \/ Settle(s) \/ BindConfig(s) \/ CheckConfig(s)
    \/ Rotate(s) \/ Finalize(s) \/ VerifyFinal(s) \/ Synchronize(s)
    \/ CompensateRead(s) \/ CompensateRevoke(s) \/ CompensateVerify(s)

Next ==
    \/ \E s \in Servers : Provision(s)
    \/ \E id \in Ids : RevokeByOwner(id)

Spec == Init /\ [][Next]_vars

-----------------------------------------------------------------------------
\* An install token that a request was answered opens its profile for as long
\* as the profile is active: no other server's rotation, and no finalization
\* whose answer was lost, may leave somebody with a token that opens nothing.
TokenStands ==
    \A t \in told : Active(t.id) => people[t.id].token = t.token

\* A request that says it has taken its created profile back has: a conflict
\* with another server, or a lost answer, is no proof that it is inactive.
TakenBack == \A id \in gaveUp : ~Active(id)
=============================================================================
