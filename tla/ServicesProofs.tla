---------------------------- MODULE ServicesProofs ----------------------------
(***************************************************************************)
(* What a server of the Bridge does for a player and with its stores,      *)
(* proved for any plays, callers, pages, requests and bounds: first that   *)
(* what a player was told of its claim stands, then what the store of the  *)
(* subtitle objects answers, and last the life of the server itself.       *)
(*                                                                         *)
(* What a player was told of its claim stands.                             *)
(*                                                                         *)
(* ToldStands is not inductive.  IInv adds that an attempt is of the       *)
(* binding that its grant was reserved under, so that it never begins      *)
(* anew; that a claim, its attempt and its grant go together; and what a   *)
(* request may rely on at each of its steps.  What the two stores keep of  *)
(* an attempt only moves on (AttemptsAge, RowsStay), which is why what a   *)
(* request has read stays true while others run, however late it acts on   *)
(* it.                                                                     *)
(***************************************************************************)
EXTENDS MCServices, FiniteSetTheorems, SequenceTheorems, WellFoundedInduction, TLAPS

\* A grant that was reserved, and the playback generation of its reservation.
Bound(a, g) == a \in Attempts /\ grants[a].status # "none" /\ g = bindings[a] /\ g # 0

Disclosed(a) == attempts[a].state = "disclosed"

Abandoning(a) == attempts[a].state = "abandoned"

\* An attempt is of one binding, and the reconciliation finds it while it is pending.
AttemptOk(a, rec) ==
    /\ rec.state = "none" => rec = NoAttempt
    /\ rec.state # "none" =>
          Bound(a, rec.generation) /\ rec.device = Device /\ rec.result # "none"
    /\ rec.listed <=> rec.state = "pending"
    /\ rec.state = "pending" => rec.result \in {"pending", "claimed"}
    /\ rec.result = "pending" => rec.state = "pending"

AttemptsInv == \A a \in Attempts : AttemptOk(a, attempts[a])

\* The claim is of an attempt, of the binding as it is; it is released with its attempt;
\* and one of version 6 has its attempt's answer.
ClaimOk(c, rec) ==
    /\ rec.state # "none" /\ rec.generation = generation /\ rec.device = device
    /\ c.status # "none"
    /\ c.released => rec.state = "abandoned"
    /\ c.status = "claimed" /\ ~c.released => rec.state # "abandoned"
    /\ active # None => active = c.attempt
    /\ c.status = "claimed" /\ ~c.released /\ active = c.attempt =>
          /\ rec.result = "claimed"
          /\ rec.state = "disclosed" => authority[c.attempt].result = "claimed"

ClaimInv ==
    /\ claim.attempt = None => claim = NoClaim
    /\ claim.attempt # None => ClaimOk(claim, attempts[claim.attempt])
    /\ protocol = 5 => active = None

RedisInv == AttemptsInv /\ ClaimInv

\* A grant, what it was finalized with, its response and what the player was told.
GrantOk(a) ==
    /\ grants[a].status = "none" => bindings[a] = 0
    /\ grants[a].status \in {"none", "reserved"} => authority[a].result = "none"
    /\ responses[a] # "none" => responses[a] = authority[a].result
    /\ grants[a].status = "revoked" /\ authority[a].result # "none" => Abandoning(a)
    /\ \A t \in told[a] : t = responses[a]
    /\ "claimed" \in told[a] => Disclosed(a)

GrantsInv == \A a \in Attempts : GrantOk(a)

\* A request that has its result owns an attempt that it can still disclose, or
\* another request has disclosed it.
Answering(q) ==
    /\ q.result # "none"
    /\ IF q.result = "claimed" THEN q.owner \/ Disclosed(q.att) ELSE ~q.owner

RequestOk(q) ==
    /\ q.pc \in Handling =>
          /\ Bound(q.att, q.generation)
          /\ q.replay # "none" => responses[q.att] = q.replay
    /\ q.pc = "begin" => q.result = "none" /\ ~q.owner
    /\ q.pc = "claim" => q.result = "none" /\ (q.owner \/ Disclosed(q.att))
    /\ q.pc \in {"active", "finalize", "recheck", "commit"} => Answering(q)
    /\ q.pc \in {"active", "recheck", "disclose"} => q.result = "claimed"
    /\ q.pc \in {"recheck", "commit", "disclose", "respond"} =>
          authority[q.att].result = q.result
    /\ q.pc \in {"disclose", "respond"} => q.result # "none" /\ responses[q.att] = q.result
    /\ q.pc = "respond" /\ q.result = "claimed" => Disclosed(q.att)
    /\ q.pc = "revoke" => Abandoning(q.att)

RequestsInv == \A r \in Requests : RequestOk(requests[r])

GhostOk(s) == s.script # "none" => Bound(s.att, s.generation)

GhostsInv == \A r \in Requests : GhostOk(ghosts[r])

IInv == TypeOK /\ RedisInv /\ GrantsInv /\ RequestsInv /\ GhostsInv

-----------------------------------------------------------------------------
(* What the stores keep of an attempt only moves on.                         *)

\* In Redis an attempt that is over stays over.
Ages(x, y) ==
    /\ x.state = "disclosed" => y.state = "disclosed"
    /\ x.state = "abandoned" => y.state = "abandoned"

AttemptsAge == \A a \in Attempts : Ages(attempts[a], attempts'[a])

\* In PostgreSQL a reservation, a source and a response are there to stay.
RowsStay ==
    \A a \in Attempts :
        /\ grants[a].status # "none" => grants'[a].status # "none" /\ bindings'[a] = bindings[a]
        /\ authority[a].result # "none" => authority'[a].result = authority[a].result
        /\ responses[a] # "none" => responses'[a] = responses[a]

SameRows == UNCHANGED <<grants, bindings, authority>>

\* What a script leaves behind.
Scripted == RedisType' /\ RedisInv' /\ AttemptsAge

LEMMA NoneIsNoAttempt == None \notin Attempts
BY LedgerAssumption DEF Attempts

LEMMA PutAttempt ==
    ASSUME RedisType, NEW a \in Attempts, NEW x \in AttemptType,
           attempts' = [attempts EXCEPT ![a] = x]
    PROVE  /\ attempts' \in [Attempts -> AttemptType]
           /\ attempts'[a] = x
           /\ \A b \in Attempts : b # a => attempts'[b] = attempts[b]
BY DEF RedisType

LEMMA SameAttemptOk ==
    ASSUME SameRows, NEW a, NEW x
    PROVE  AttemptOk(a, x)' <=> AttemptOk(a, x)
BY DEF SameRows, AttemptOk, Bound

\* An attempt changes as it may, and the claims with it.
LEMMA AttemptChanges ==
    ASSUME RedisType, RedisInv, SameRows, NEW a \in Attempts, NEW x \in AttemptType,
           attempts' = [attempts EXCEPT ![a] = x],
           AttemptOk(a, x), Ages(attempts[a], x),
           UNCHANGED <<generation, protocol, launched>>,
           device' \in {0, Device, Device + 1}, claim' \in ClaimType,
           active' \in Attempts \cup {None}, sessionKeys' \subseteq Attempts,
           protocol = 5 => active' = None,
           claim'.attempt = None => claim' = NoClaim,
           claim'.attempt \notin {None, a} => ClaimOk(claim, attempts[claim.attempt])',
           claim'.attempt = a => ClaimOk(claim, x)'
    PROVE  Scripted
BY PutAttempt, SameAttemptOk
   DEF RedisType, RedisInv, AttemptsInv, AttemptsAge, Ages, ClaimInv, Scripted

\* An attempt moves, and the claim stays.
LEMMA AttemptMoves ==
    ASSUME RedisType, RedisInv, SameRows, NEW a \in Attempts, NEW x \in AttemptType,
           attempts' = [attempts EXCEPT ![a] = x],
           AttemptOk(a, x), Ages(attempts[a], x),
           UNCHANGED <<generation, device, protocol, launched, claim, active, sessionKeys>>,
           claim.attempt = a => ClaimOk(claim, x)
    PROVE  Scripted
<1>1. /\ device' \in {0, Device, Device + 1} /\ claim' \in ClaimType
      /\ active' \in Attempts \cup {None} /\ sessionKeys' \subseteq Attempts
      /\ protocol = 5 => active' = None
      /\ claim'.attempt = None => claim' = NoClaim
  BY DEF RedisType, RedisInv, ClaimInv
<1>2. claim'.attempt \notin {None, a} => ClaimOk(claim, attempts[claim.attempt])'
  BY PutAttempt DEF RedisType, ClaimType, RedisInv, ClaimInv, ClaimOk, SameRows
<1>3. claim'.attempt = a => ClaimOk(claim, x)'
  BY DEF ClaimOk, SameRows
<1> QED BY <1>1, <1>2, <1>3, AttemptChanges

\* An attempt is abandoned, and its claim released with it.
LEMMA AttemptEnds ==
    ASSUME RedisType, RedisInv, SameRows, NEW a \in Attempts, NEW x \in AttemptType,
           attempts' = [attempts EXCEPT ![a] = x],
           AttemptOk(a, x), x.state = "abandoned", ~Disclosed(a),
           x.generation = attempts[a].generation, x.device = attempts[a].device,
           ReleaseClaim(a),
           UNCHANGED <<generation, device, protocol, launched, active>>
    PROVE  Scripted
<1>1. /\ claim' \in ClaimType /\ sessionKeys' \subseteq Attempts
      /\ claim'.attempt = claim.attempt /\ claim'.status = claim.status
      /\ claim.attempt # a => claim' = claim
      /\ claim.attempt = a /\ claim.status = "claimed" => claim'.released
      /\ claim'.attempt = None => claim' = NoClaim
  BY NoneIsNoAttempt DEF ReleaseClaim, Holds, RedisType, ClaimType, RedisInv, ClaimInv
<1>2. /\ device' \in {0, Device, Device + 1} /\ active' \in Attempts \cup {None}
      /\ protocol = 5 => active' = None
  BY DEF RedisType, RedisInv, ClaimInv
<1>3. claim'.attempt \notin {None, a} => ClaimOk(claim, attempts[claim.attempt])'
  BY <1>1, PutAttempt DEF RedisType, ClaimType, RedisInv, ClaimInv, ClaimOk, SameRows
<1>4. claim'.attempt = a => ClaimOk(claim, x)'
  BY <1>1, NoneIsNoAttempt DEF RedisInv, ClaimInv, ClaimOk
<1>5. Ages(attempts[a], x)
  BY DEF Ages, Disclosed
<1> QED BY <1>1, <1>2, <1>3, <1>4, <1>5, AttemptChanges

\* An attempt is of the binding that its grant was reserved under: it is never forgotten
\* for another, and begins once.
LEMMA FoundIsStored ==
    ASSUME RedisInv, NEW a \in Attempts, NEW g, Bound(a, g)
    PROVE  Found(a, g, Device) = attempts[a]
BY DEF RedisInv, AttemptsInv, AttemptOk, Bound, Found

LEMMA AbandonedRow ==
    ASSUME RedisType, RedisInv, NEW a \in Attempts, NEW x \in AttemptType,
           attempts[a].state # "none", x.generation = attempts[a].generation,
           x.device = attempts[a].device
    PROVE  /\ Abandoned(x) \in AttemptType /\ AttemptOk(a, Abandoned(x))
           /\ Abandoned(x).state = "abandoned"
           /\ Abandoned(x).generation = attempts[a].generation
           /\ Abandoned(x).device = attempts[a].device
BY DEF RedisType, RedisInv, AttemptsInv, AttemptOk, AttemptType, Abandoned, Results

LEMMA BeginScript ==
    ASSUME RedisType, RedisInv, SameRows, NEW a \in Attempts, NEW r \in Requests,
           NEW g \in Nat, Bound(a, g), BeginAttempt(a, r, g, Device)
    PROVE  /\ Scripted
           /\ BeginReply(a, g, Device) = "disclosed" => Disclosed(a)
<1> DEFINE joined == [attempts[a] EXCEPT !.live = @ \cup {r}, !.lapsed = {}, !.listed = TRUE]
           started == [joined EXCEPT !.state = "pending", !.result = "pending",
                                   !.generation = g, !.device = Device]
           reply == BeginReply(a, g, Device)
<1>1. Found(a, g, Device) = attempts[a]
  BY FoundIsStored
<1>2. attempts[a] \in AttemptType /\ AttemptOk(a, attempts[a])
  BY DEF RedisType, RedisInv, AttemptsInv
<1>3. joined \in AttemptType /\ started \in AttemptType
  BY <1>2 DEF AttemptType, Device
<1>4. reply = "disclosed" => Disclosed(a)
  BY <1>1 DEF BeginReply, Disclosed
<1>5. UNCHANGED <<generation, device, protocol, launched, active>>
  BY DEF BeginAttempt
<1>6. CASE reply = "begun"
  <2>1. attempts[a].state = "none"
    BY <1>1, <1>6 DEF BeginReply
  <2>2. attempts' = [attempts EXCEPT ![a] = started] /\ UNCHANGED <<claim, sessionKeys>>
    BY <1>1, <1>6 DEF BeginAttempt
  <2>3. AttemptOk(a, started) /\ Ages(attempts[a], started)
    BY <2>1 DEF AttemptOk, Ages, Bound
  <2>4. claim.attempt # a
    BY <2>1, NoneIsNoAttempt DEF RedisInv, ClaimInv, ClaimOk
  <2> HIDE DEF started
  <2> QED BY <1>3, <1>4, <1>5, <2>2, <2>3, <2>4, AttemptMoves
<1>7. CASE reply = "retry"
  <2>1. attempts[a].state = "pending"
    BY <1>1, <1>2, <1>7 DEF BeginReply, AttemptType
  <2>2. attempts' = [attempts EXCEPT ![a] = joined] /\ UNCHANGED <<claim, sessionKeys>>
    BY <1>1, <1>7 DEF BeginAttempt
  <2>3. /\ joined.state = attempts[a].state /\ joined.result = attempts[a].result
        /\ joined.generation = attempts[a].generation /\ joined.device = attempts[a].device
        /\ joined.listed
    BY <1>2 DEF AttemptType
  <2> HIDE DEF joined
  <2>4. AttemptOk(a, joined) /\ Ages(attempts[a], joined)
    BY <1>2, <2>1, <2>3 DEF AttemptOk, Ages, NoAttempt
  <2>5. claim.attempt = a => ClaimOk(claim, joined)
    BY <2>3, NoneIsNoAttempt DEF RedisInv, ClaimInv, ClaimOk
  <2> QED BY <1>3, <1>4, <1>5, <2>2, <2>4, <2>5, AttemptMoves
<1>8. CASE reply = "abandoned"
  <2>1. attempts[a].state \in {"pending", "abandoned"}
    BY <1>1, <1>8 DEF BeginReply, Orphaned
  <2>2. attempts' = [attempts EXCEPT ![a] = Abandoned(attempts[a])] /\ ReleaseClaim(a)
    BY <1>1, <1>8 DEF BeginAttempt
  <2>3. ~Disclosed(a)
    BY <2>1 DEF Disclosed
  <2> QED BY <1>2, <1>4, <1>5, <2>1, <2>2, <2>3, AbandonedRow, AttemptEnds
<1>9. CASE reply \notin {"begun", "retry", "abandoned"}
  <2>1. UNCHANGED <<attempts, claim, sessionKeys>>
    BY <1>9 DEF BeginAttempt
  <2>2. attempts' = [attempts EXCEPT ![a] = attempts[a]]
    BY <2>1 DEF RedisType
  <2>3. claim.attempt = a => ClaimOk(claim, attempts[a])
    BY NoneIsNoAttempt DEF RedisInv, ClaimInv
  <2>4. Ages(attempts[a], attempts[a])
    BY DEF Ages
  <2> QED BY <1>2, <1>4, <1>5, <2>1, <2>2, <2>3, <2>4, AttemptMoves
<1> QED BY <1>6, <1>7, <1>8, <1>9

\* Only the leases on an attempt change.
LEMMA LeasesMove ==
    ASSUME RedisType, RedisInv, SameRows, NEW a \in Attempts, NEW x \in AttemptType,
           attempts' = [attempts EXCEPT ![a] = x], attempts[a].state # "none",
           x.state = attempts[a].state, x.result = attempts[a].result,
           x.generation = attempts[a].generation, x.device = attempts[a].device,
           x.listed = attempts[a].listed,
           UNCHANGED <<generation, device, protocol, launched, claim, active, sessionKeys>>
    PROVE  Scripted
<1>1. AttemptOk(a, x) /\ Ages(attempts[a], x)
  BY DEF RedisInv, AttemptsInv, AttemptOk, Ages
<1>2. claim.attempt = a => ClaimOk(claim, x)
  BY NoneIsNoAttempt DEF RedisInv, ClaimInv, ClaimOk
<1> QED BY <1>1, <1>2, AttemptMoves

\* Nothing is written, but for the generation of the device.
LEMMA OnlyDevice ==
    ASSUME RedisType, RedisInv, SameRows, device' = device \/ claim = NoClaim \/ device' = Device,
           device' \in {0, Device, Device + 1},
           UNCHANGED <<generation, protocol, launched, attempts, claim, active, sessionKeys>>
    PROVE  Scripted
<1>1. RedisType'
  BY DEF RedisType
<1>2. AttemptsInv'
  BY SameAttemptOk DEF RedisInv, AttemptsInv
<1>3. AttemptsAge
  BY DEF AttemptsAge, Ages
<1>4. ClaimInv'
  BY DEF RedisType, ClaimType, RedisInv, ClaimInv, AttemptsInv, AttemptOk, ClaimOk, NoClaim,
         SameRows
<1> QED BY <1>1, <1>2, <1>3, <1>4 DEF Scripted, RedisInv

LEMMA AnsweredRow ==
    ASSUME RedisType, RedisInv, NEW a \in Attempts, NEW reply \in Results,
           attempts[a].state \in {"pending", "disclosed"}
    PROVE  /\ Answered(attempts[a], reply) \in AttemptType
           /\ AttemptOk(a, Answered(attempts[a], reply))
           /\ Answered(attempts[a], reply).state \in {"pending", "disclosed"}
           /\ Answered(attempts[a], reply).state =
                IF reply = "claimed" THEN attempts[a].state ELSE "disclosed"
           /\ Answered(attempts[a], reply).result = reply
           /\ Answered(attempts[a], reply).generation = attempts[a].generation
           /\ Answered(attempts[a], reply).device = attempts[a].device
<1>1. attempts[a] \in AttemptType /\ AttemptOk(a, attempts[a])
  BY DEF RedisType, RedisInv, AttemptsInv
<1> QED BY <1>1 DEF AttemptOk, AttemptType, Answered, Results

LEMMA ClaimScript ==
    ASSUME RedisType, RedisInv, SameRows, NEW a \in Attempts, NEW r \in Requests,
           NEW g \in Nat, Bound(a, g), NEW v \in {0, 5, 6},
           NEW expected \in Attempts \cup {None}, NEW found \in {"claimed"} \cup Negative,
           Claim(a, r, g, Device, v, expected, found)
    PROVE  Scripted
<1> DEFINE reply == ClaimReply(a, r, g, Device, v, expected, found)
           reached == Refusal(a, r, g, Device, v) = "none"
           made == reached /\ Replay(a, v) = "none" /\ reply \in Results
           kept == v = 6 /\ attempts[a].result # "pending"
           settled == IF kept THEN attempts[a] ELSE Answered(attempts[a], reply)
<1>1. CASE ~reached
  BY <1>1, OnlyDevice DEF Claim, RedisType
<1>2. CASE reached /\ reply \notin Results
  BY <1>2, OnlyDevice DEF Claim
<1>3. CASE reached /\ reply \in Results
  <2>1. /\ protocol = v /\ generation = g /\ attempts[a].generation = g
        /\ attempts[a].device = Device
        /\ ~(attempts[a].state = "abandoned")
    BY <1>3 DEF Refusal, Admitted
  <2>2. attempts[a] \in AttemptType /\ AttemptOk(a, attempts[a])
    BY DEF RedisType, RedisInv, AttemptsInv
  <2>3. attempts[a].state \in {"pending", "disclosed"}
    BY <2>1, <2>2 DEF AttemptType, AttemptOk, NoAttempt, Bound
  <2> PICK x : x = settled
    OBVIOUS
  <2>4. /\ x \in AttemptType /\ AttemptOk(a, x) /\ x.state \in {"pending", "disclosed"}
        /\ x.generation = g /\ x.device = Device /\ Ages(attempts[a], x)
    BY <1>3, <2>1, <2>2, <2>3, AnsweredRow DEF Ages
  <2>5. attempts' = [attempts EXCEPT ![a] = x]
    BY <1>3, <2>2 DEF Claim, Answer, RedisType
  <2>6. UNCHANGED <<generation, protocol, launched>> /\ device' = Device
    BY <1>3 DEF Claim
  <2>7. kept => x = attempts[a]
    OBVIOUS
  <2>8. ~kept => x.result = reply /\ (reply = "claimed" => x.state = attempts[a].state)
    BY <1>3, <2>3, AnsweredRow
  <2>9. CASE made
    <3>1. /\ claim' = [attempt |-> a, status |-> reply, released |-> FALSE,
                       superseded |-> IF reply = "claimed" THEN expected ELSE None]
          /\ sessionKeys' = IF reply = "claimed" THEN sessionKeys \cup {a} ELSE sessionKeys
          /\ active' = IF v = 6 THEN a ELSE active
      BY <2>9 DEF Claim
    <3>2. /\ device' \in {0, Device, Device + 1} /\ claim' \in ClaimType
          /\ active' \in Attempts \cup {None} /\ sessionKeys' \subseteq Attempts
          /\ protocol = 5 => active' = None
          /\ claim'.attempt = a /\ a # None
      BY <1>3, <2>1, <2>6, <3>1, NoneIsNoAttempt
      DEF RedisType, ClaimType, RedisInv, ClaimInv, Answers
    <3>3. v = 6 => ~kept /\ attempts[a].state = "pending"
      BY <2>2, <2>3, <2>9 DEF Replay, AttemptOk
    <3>4. ClaimOk(claim, x)'
      <4>1. v = 6 \/ active' = None
        BY <2>1, <3>1 DEF RedisType, RedisInv, ClaimInv
      <4>2. /\ claim'.attempt = a /\ claim'.status = reply /\ claim'.status # "none"
            /\ ~claim'.released
        BY <1>3, <3>1 DEF Results
      <4>3. active' # None => active' = a /\ v = 6
        BY <3>1, <4>1
      <4>4. v = 6 /\ claim'.status = "claimed" => x.result = "claimed" /\ x.state = "pending"
        BY <2>8, <3>3, <4>2
      <4> HIDE DEF reply, settled
      <4> QED BY <2>1, <2>4, <2>6, <3>2, <4>2, <4>3, <4>4 DEF ClaimOk
    <3> QED BY <2>4, <2>5, <2>6, <3>2, <3>4, AttemptChanges
  <2>10. CASE ~made
    <3>1. UNCHANGED <<claim, sessionKeys, active>>
      BY <2>10 DEF Claim
    <3>2. /\ device' \in {0, Device, Device + 1} /\ claim' \in ClaimType
          /\ active' \in Attempts \cup {None} /\ sessionKeys' \subseteq Attempts
          /\ protocol = 5 => active' = None
          /\ claim'.attempt = None => claim' = NoClaim
      BY <2>6, <3>1 DEF RedisType, RedisInv, ClaimInv
    <3>3. claim'.attempt \notin {None, a} => ClaimOk(claim, attempts[claim.attempt])'
      <4> SUFFICES ASSUME claim.attempt \notin {None, a}
                   PROVE  ClaimOk(claim, attempts[claim.attempt])'
        BY <3>1
      <4>1. claim.attempt \in Attempts /\ ClaimOk(claim, attempts[claim.attempt])
        BY DEF RedisType, ClaimType, RedisInv, ClaimInv
      <4>2. attempts'[claim.attempt] = attempts[claim.attempt]
        BY <2>4, <2>5, <4>1, PutAttempt
      <4>3. device = Device
        BY <4>1 DEF RedisInv, AttemptsInv, AttemptOk, ClaimOk
      <4> QED BY <2>6, <3>1, <4>1, <4>2, <4>3 DEF ClaimOk, SameRows
    <3>4. claim'.attempt = a => ClaimOk(claim, x)'
      <4> SUFFICES ASSUME claim.attempt = a PROVE ClaimOk(claim, x)'
        BY <3>1
      <4>1. ClaimOk(claim, attempts[a])
        BY NoneIsNoAttempt DEF RedisInv, ClaimInv
      <4>2. ~claim.released
        BY <2>1, <4>1 DEF ClaimOk
      <4>3. active = a => v = 6
        BY <2>1, NoneIsNoAttempt DEF RedisType, RedisInv, ClaimInv
      <4>4. active = a /\ claim.status = "claimed" => x = attempts[a]
        BY <2>7, <4>1, <4>2, <4>3 DEF ClaimOk
      <4> QED BY <2>1, <2>4, <2>6, <3>1, <4>1, <4>2, <4>4 DEF ClaimOk, SameRows
    <3> QED BY <2>4, <2>5, <2>6, <3>1, <3>2, <3>3, <3>4, AttemptChanges
  <2> QED BY <2>9, <2>10
<1> QED BY <1>1, <1>2, <1>3

LEMMA DiscloseScript ==
    ASSUME RedisType, RedisInv, SameRows, NEW a \in Attempts, NEW r \in Requests,
           authority[a].result = "claimed", DiscloseAttempt(a, r)
    PROVE  /\ Scripted
           /\ Discloses(a, r) => Disclosed(a)'
<1> DEFINE x == [attempts[a] EXCEPT !.state = "disclosed", !.live = {}, !.lapsed = {},
                                    !.listed = FALSE]
<1>1. attempts[a] \in AttemptType /\ AttemptOk(a, attempts[a])
  BY DEF RedisType, RedisInv, AttemptsInv
<1>2. UNCHANGED <<generation, device, protocol, launched, claim, active, sessionKeys>>
  BY DEF DiscloseAttempt
<1>3. CASE Discloses(a, r)
  <2>1. attempts' = [attempts EXCEPT ![a] = x]
    BY <1>3 DEF DiscloseAttempt
  <2>2. /\ x \in AttemptType /\ x.state = "disclosed" /\ x.result = attempts[a].result
        /\ x.generation = attempts[a].generation /\ x.device = attempts[a].device
        /\ ~x.listed
    BY <1>1 DEF AttemptType
  <2>3. attempts[a].state \in {"pending", "disclosed"} /\ attempts[a].result # "pending"
    BY <1>1, <1>3 DEF Discloses, AttemptOk
  <2> HIDE DEF x
  <2>4. AttemptOk(a, x) /\ Ages(attempts[a], x)
    BY <1>1, <2>2, <2>3 DEF AttemptOk, Ages
  <2>5. claim.attempt = a => ClaimOk(claim, x)
    BY <2>2, <2>3, NoneIsNoAttempt DEF RedisInv, ClaimInv, ClaimOk
  <2>6. Scripted
    BY <1>2, <2>1, <2>2, <2>4, <2>5, AttemptMoves
  <2> QED BY <2>1, <2>2, <2>6, PutAttempt DEF Disclosed
<1>4. CASE ~Discloses(a, r)
  BY <1>2, <1>4, OnlyDevice DEF DiscloseAttempt, RedisType
<1> QED BY <1>3, <1>4

LEMMA AbandonScript ==
    ASSUME RedisType, RedisInv, SameRows, NEW a \in Attempts, NEW r \in Requests,
           AbandonAttempt(a, r)
    PROVE  /\ Scripted
           /\ AbandonReleases(a, r) => Abandoning(a)'
<1> DEFINE given == [attempts[a] EXCEPT !.live = {}]
           left == [attempts[a] EXCEPT !.live = @ \ {r}, !.lapsed = {}]
<1>1. attempts[a] \in AttemptType
  BY DEF RedisType
<1>2. UNCHANGED <<generation, device, protocol, launched, active>>
  BY DEF AbandonAttempt
<1>3. CASE Last(a, r)
  <2>1. attempts' = [attempts EXCEPT ![a] = Abandoned(given)] /\ ReleaseClaim(a)
    BY <1>3 DEF AbandonAttempt
  <2>2. attempts[a].state = "pending"
    BY <1>3 DEF Last, Leases
  <2>3. /\ given \in AttemptType /\ given.generation = attempts[a].generation
        /\ given.device = attempts[a].device
    BY <1>1 DEF AttemptType
  <2> HIDE DEF given
  <2>4. /\ Abandoned(given) \in AttemptType /\ AttemptOk(a, Abandoned(given))
        /\ Abandoned(given).state = "abandoned"
        /\ Abandoned(given).generation = attempts[a].generation
        /\ Abandoned(given).device = attempts[a].device
    BY <2>2, <2>3, AbandonedRow
  <2>5. Scripted
    BY <1>2, <2>1, <2>2, <2>4, AttemptEnds DEF Disclosed
  <2> QED BY <2>1, <2>4, <2>5, PutAttempt DEF Abandoning
<1>4. CASE ~Last(a, r) /\ Leases(a, r)
  <2>1. attempts' = [attempts EXCEPT ![a] = left] /\ UNCHANGED <<claim, sessionKeys>>
    BY <1>4 DEF AbandonAttempt
  <2>2. /\ left \in AttemptType /\ left.state = attempts[a].state
        /\ left.result = attempts[a].result /\ left.generation = attempts[a].generation
        /\ left.device = attempts[a].device /\ left.listed = attempts[a].listed
    BY <1>1 DEF AttemptType
  <2>3. attempts[a].state # "none"
    BY <1>4 DEF Leases
  <2> HIDE DEF left
  <2> QED BY <1>2, <1>4, <2>1, <2>2, <2>3, LeasesMove DEF AbandonReleases
<1>5. CASE ~Last(a, r) /\ ~Leases(a, r)
  BY <1>2, <1>5, OnlyDevice DEF AbandonAttempt, AbandonReleases, RedisType
<1> QED BY <1>3, <1>4, <1>5

LEMMA ReconcileScript ==
    ASSUME RedisType, RedisInv, SameRows, NEW a \in Attempts, ReconcileAttempt(a)
    PROVE  Scripted
<1> DEFINE left == [attempts[a] EXCEPT !.lapsed = {}]
<1>1. attempts[a] \in AttemptType /\ attempts[a].state = "pending"
  BY DEF RedisType, RedisInv, AttemptsInv, AttemptOk, ReconcileAttempt, Due
<1>2. UNCHANGED <<generation, device, protocol, launched, active>>
  BY DEF ReconcileAttempt
<1>3. CASE attempts[a].live # {}
  <2>1. attempts' = [attempts EXCEPT ![a] = left] /\ UNCHANGED <<claim, sessionKeys>>
    BY <1>3 DEF ReconcileAttempt
  <2>2. /\ left \in AttemptType /\ left.state = attempts[a].state
        /\ left.result = attempts[a].result /\ left.generation = attempts[a].generation
        /\ left.device = attempts[a].device /\ left.listed = attempts[a].listed
    BY <1>1 DEF AttemptType
  <2> HIDE DEF left
  <2> QED BY <1>1, <1>2, <2>1, <2>2, LeasesMove
<1>4. CASE attempts[a].live = {}
  BY <1>4, <1>1, AbandonedRow, <1>2, AttemptEnds DEF ReconcileAttempt, Disclosed
<1> QED BY <1>3, <1>4

LEMMA LapseScript ==
    ASSUME RedisType, RedisInv, SameRows, NEW a \in Attempts, NEW r \in Requests,
           LapseLease(a, r)
    PROVE  Scripted
<1> DEFINE left == [attempts[a] EXCEPT !.live = @ \ {r}, !.lapsed = @ \cup {r}]
<1>1. attempts[a] \in AttemptType /\ attempts[a].state # "none"
  BY DEF RedisType, RedisInv, AttemptsInv, AttemptOk, LapseLease, NoAttempt
<1>2. attempts' = [attempts EXCEPT ![a] = left]
  BY DEF LapseLease
<1>3. /\ left \in AttemptType /\ left.state = attempts[a].state
      /\ left.result = attempts[a].result /\ left.generation = attempts[a].generation
      /\ left.device = attempts[a].device /\ left.listed = attempts[a].listed
  BY <1>1 DEF AttemptType
<1>4. UNCHANGED <<generation, device, protocol, launched, claim, active, sessionKeys>>
  BY DEF LapseLease
<1> HIDE DEF left
<1> QED BY <1>1, <1>2, <1>3, <1>4, LeasesMove

\* Time and the invalidations take the claim away, and leave the attempts.
LEMMA ClaimDrops ==
    ASSUME RedisType, RedisInv, SameRows, UNCHANGED attempts,
           claim' = NoClaim \/ UNCHANGED <<generation, device, claim, active>>,
           generation' \in Nat \ {0}, device' \in {0, Device, Device + 1},
           protocol' \in {5, 6}, protocol' = protocol \/ protocol' = 6,
           launched' = launched, active' \in {active, None},
           sessionKeys' \subseteq Attempts
    PROVE  Scripted
<1>1. RedisType'
  <2>1. NoClaim \in ClaimType
    BY DEF NoClaim, ClaimType, Answers
  <2>2. claim' \in ClaimType /\ active' \in Attempts \cup {None}
    BY <2>1 DEF RedisType
  <2> QED BY <2>2 DEF RedisType
<1>2. AttemptsInv'
  BY SameAttemptOk DEF RedisInv, AttemptsInv
<1>3. AttemptsAge
  BY DEF AttemptsAge, Ages
<1>4. ClaimInv'
  BY DEF RedisInv, ClaimInv, RedisType, NoClaim, ClaimOk, SameRows
<1> QED BY <1>1, <1>2, <1>3, <1>4 DEF Scripted, RedisInv

LEMMA EnvironmentScript ==
    ASSUME RedisType, RedisInv, SameRows, Environment
    PROVE  Scripted
BY ClaimDrops, ReconcileScript, LapseScript
   DEF ExpireClaim, RedisType, InvalidateProfile, DropClaim, AdvanceProtocol, Environment

LEMMA FenceScript ==
    ASSUME RedisType, RedisInv, SameRows, InvalidateDevice(Device + 1)
    PROVE  Scripted
BY ClaimDrops DEF InvalidateDevice, DropClaim, RedisType

\* Redis is left alone while the rows move on.
LEMMA RedisStays ==
    ASSUME RedisType, RedisInv, RowsStay, UNCHANGED redis
    PROVE  Scripted
<1>1. RedisType' /\ AttemptsAge
  BY DEF redis, RedisType, AttemptsAge, Ages
<1>2. AttemptsInv'
  BY DEF RedisInv, AttemptsInv, AttemptOk, Bound, RowsStay, redis
<1>3. ClaimInv'
  BY DEF RedisType, ClaimType, RowsStay, RedisInv, ClaimInv, ClaimOk, redis
<1> QED BY <1>1, <1>2, <1>3 DEF Scripted, RedisInv

-----------------------------------------------------------------------------
(* What the transactions do to the rows.                                     *)

\* Only the status of grant a becomes another.
StatusOf(a, status) ==
    /\ grants'[a].status = status
    /\ \A b \in Attempts : b # a => grants'[b] = grants[b]

LEMMA NothingWithdrawn ==
    /\ Withdrawn(NoDispatch) = NoDispatch
    /\ \A s \in [state : {"none", "playing", "released"}, revision : Nat] :
          Ended(s) \in [state : {"none", "playing", "released"}, revision : Nat]
BY DEF Withdrawn, Waiting, NoDispatch, Ended

LEMMA ReserveRow ==
    ASSUME LedgerType, NEW a \in Attempts, Reserve(a)
    PROVE  LedgerType' /\ StatusOf(a, "reserved")
<1> DEFINE row == [NoGrant EXCEPT !.status = "reserved", !.generation = profile.generation]
<1>1. row \in GrantType /\ row.status = "reserved"
  BY DEF NoGrant, GrantType, LedgerType
<1>2. grants' = [grants EXCEPT ![a] = row]
  BY DEF Reserve
<1> HIDE DEF row
<1> QED BY <1>1, <1>2 DEF Reserve, LedgerType, StatusOf, Attempts

LEMMA AbandonRow ==
    ASSUME LedgerType, NEW a \in Attempts, Abandon(a)
    PROVE  LedgerType' /\ StatusOf(a, "revoked")
<1> DEFINE row == [grants[a] EXCEPT !.status = "revoked"]
<1>1. row \in GrantType /\ row.status = "revoked"
  BY DEF GrantType, LedgerType
<1>2. grants' = [grants EXCEPT ![a] = row]
  BY DEF Abandon
<1> HIDE DEF row
<1> QED BY <1>1, <1>2 DEF Abandon, LedgerType, StatusOf, Attempts

LEMMA RevokeSessionRow ==
    ASSUME LedgerType, NEW a \in Attempts, RevokeSession(a)
    PROVE  LedgerType' /\ StatusOf(a, "revoked")
<1> DEFINE row == [grants[a] EXCEPT !.status = "revoked"]
<1>1. row \in GrantType /\ row.status = "revoked"
  BY DEF GrantType, LedgerType
<1>2. grants' = [grants EXCEPT ![a] = row]
  BY DEF RevokeSession
<1> HIDE DEF row
<1>3. grants' \in [Attempts -> GrantType] /\ StatusOf(a, "revoked")
  BY <1>1, <1>2 DEF LedgerType, StatusOf
<1>4. sessions' \in [Attempts -> [state : {"none", "playing", "released"}, revision : Nat]]
  BY NothingWithdrawn DEF RevokeSession, LedgerType
<1>5. outbox' = [b \in Attempts |-> [k \in Keys |-> NoDispatch]]
  BY NothingWithdrawn DEF RevokeSession, LedgerType
<1> QED BY <1>3, <1>4, <1>5 DEF RevokeSession, LedgerType

LEMMA RevokeDeviceRow ==
    ASSUME LedgerType, RevokeDevice
    PROVE  LedgerType' /\ grants' = grants
BY NothingWithdrawn DEF RevokeDevice, LedgerType, Attempts

LEMMA FinalizeRow ==
    ASSUME LedgerType, NEW a \in Attempts, NEW kind \in Kinds,
           NEW s \in Attempts \cup {None}, Finalize(a, kind, s)
    PROVE  /\ LedgerType'
           /\ grants'[a].status = "active"
           /\ \A b \in Attempts : b # a =>
                 \/ grants'[b] = grants[b]
                 \/ grants[b].status # "none" /\ grants'[b].status = "superseded"
<1> DEFINE retired == s # None /\ grants[s].status # "none"
           row == [grants[a] EXCEPT !.status = "active", !.kind = kind,
                                    !.state = "playing", !.revision = 1]
           old == [grants[s] EXCEPT !.status = "superseded"]
           played == IF kind = "canonical" THEN [state |-> "playing", revision |-> 1]
                     ELSE sessions[a]
           Sessions == [state : {"none", "playing", "released"}, revision : Nat]
<1>1. row \in GrantType /\ row.status = "active" /\ played \in Sessions
  <2>1. grants[a] \in GrantType /\ sessions[a] \in Sessions
    BY DEF LedgerType
  <2>2. row \in GrantType /\ row.status = "active"
    BY <2>1 DEF GrantType
  <2> QED BY <2>1, <2>2
<1>2. /\ replaced' \in [Attempts -> Attempts \cup {None}]
      /\ UNCHANGED <<profile, receipts, history>> /\ s # a
  BY NoneIsNoAttempt DEF Finalize, LedgerType, Attempts
<1>3. CASE ~retired
  <2>1. /\ grants' = [grants EXCEPT ![a] = row] /\ outbox' = outbox
        /\ sessions' = [sessions EXCEPT ![a] = played]
    BY <1>3 DEF Finalize, LedgerType, Attempts
  <2> HIDE DEF row, played
  <2> QED BY <1>1, <1>2, <2>1 DEF LedgerType
<1>4. CASE retired
  <2>1. s \in Attempts
    BY <1>4
  <2>2. /\ grants' = [[grants EXCEPT ![s] = old] EXCEPT ![a] = row]
        /\ sessions' = [[sessions EXCEPT ![s] = Ended(sessions[s])] EXCEPT ![a] = played]
        /\ outbox' = [outbox EXCEPT ![s] = [k \in Keys |-> Withdrawn(outbox[s][k])]]
    BY <1>2, <1>4, <2>1 DEF Finalize, Retired, LedgerType
  <2>3. old \in GrantType /\ old.status = "superseded"
    <3>1. grants[s] \in GrantType
      BY <2>1 DEF LedgerType
    <3> QED BY <3>1 DEF GrantType
  <2>4. Ended(sessions[s]) \in Sessions
    BY <2>1, NothingWithdrawn DEF LedgerType
  <2>5. outbox' = [b \in Attempts |-> [k \in Keys |-> NoDispatch]]
    BY <2>1, <2>2, NothingWithdrawn DEF LedgerType
  <2> HIDE DEF row, old, played
  <2>6. grants' \in [Attempts -> GrantType] /\ sessions' \in [Attempts -> Sessions]
    BY <1>1, <2>1, <2>2, <2>3, <2>4 DEF LedgerType
  <2>7. /\ grants'[a].status = "active"
        /\ \A b \in Attempts : b # a =>
              \/ grants'[b] = grants[b]
              \/ grants[b].status # "none" /\ grants'[b].status = "superseded"
    BY <1>1, <1>4, <2>1, <2>2, <2>3 DEF LedgerType
  <2> QED BY <1>2, <2>5, <2>6, <2>7 DEF LedgerType
<1> QED BY <1>3, <1>4

-----------------------------------------------------------------------------
(* What a request relies on stays while others run.                          *)

LEMMA RequestStays ==
    ASSUME RowsStay, AttemptsAge, NEW q \in RequestType, RequestOk(q)
    PROVE  RequestOk(q)'
<1>1. q.pc \in Handling => q.att \in Attempts /\ Bound(q.att, q.generation)'
  BY DEF RequestOk, RowsStay, Bound
<1>2. q.att \in Attempts /\ responses[q.att] # "none" => responses'[q.att] = responses[q.att]
  BY DEF RowsStay
<1>3. q.att \in Attempts /\ authority[q.att].result # "none" =>
        authority'[q.att].result = authority[q.att].result
  BY DEF RowsStay
<1>4. q.att \in Attempts =>
        /\ Disclosed(q.att) => Disclosed(q.att)'
        /\ Abandoning(q.att) => Abandoning(q.att)'
  BY DEF AttemptsAge, Ages, Disclosed, Abandoning
<1>5. /\ {"begin", "claim", "active", "finalize", "recheck", "commit", "disclose",
           "respond", "revoke"} \subseteq Handling
  BY DEF Handling
<1>6. q.pc \in {"active", "finalize", "recheck", "commit"} => Answering(q)'
  BY <1>1, <1>4, <1>5 DEF RequestOk, Answering
<1>7. q.pc \in {"recheck", "commit", "disclose", "respond"} => q.result # "none"
  BY DEF RequestOk, Answering
<1>8. q.pc \in {"recheck", "commit", "disclose", "respond"} =>
        authority'[q.att].result = q.result
  BY <1>1, <1>3, <1>5, <1>7 DEF RequestOk
<1>9. q.pc \in {"disclose", "respond"} => responses'[q.att] = q.result
  BY <1>1, <1>2, <1>5, <1>7 DEF RequestOk
<1>10. q.pc \in Handling /\ q.replay # "none" => responses'[q.att] = q.replay
  BY <1>1, <1>2 DEF RequestOk
<1> QED BY <1>1, <1>4, <1>5, <1>6, <1>8, <1>9, <1>10 DEF RequestOk

LEMMA GhostStays ==
    ASSUME RowsStay, NEW s, GhostOk(s)
    PROVE  GhostOk(s)'
BY DEF GhostOk, RowsStay, Bound

LEMMA RequestsStep ==
    ASSUME RowsStay, AttemptsAge, requests \in [Requests -> RequestType], RequestsInv,
           NEW r \in Requests, NEW q \in RequestType, Become(r, q), RequestOk(q)'
    PROVE  requests' \in [Requests -> RequestType] /\ RequestsInv'
<1>1. \A t \in Requests : requests'[t] = IF t = r THEN q ELSE requests[t]
  BY DEF Become
<1>2. requests' \in [Requests -> RequestType]
  BY DEF Become
<1>3. ASSUME NEW t \in Requests PROVE RequestOk(requests[t])'
  BY <1>1, RequestStays DEF RequestsInv
<1> QED BY <1>2, <1>3 DEF RequestsInv

LEMMA RequestsRest ==
    ASSUME RowsStay, AttemptsAge, requests \in [Requests -> RequestType], RequestsInv,
           UNCHANGED requests
    PROVE  requests' \in [Requests -> RequestType] /\ RequestsInv'
BY RequestStays DEF RequestsInv

LEMMA GhostsRest ==
    ASSUME RowsStay, ghosts \in [Requests -> GhostType], GhostsInv, UNCHANGED ghosts
    PROVE  ghosts' \in [Requests -> GhostType] /\ GhostsInv'
BY GhostStays DEF GhostsInv

LEMMA GhostsStep ==
    ASSUME RowsStay, ghosts \in [Requests -> GhostType], GhostsInv, NEW r \in Requests,
           NEW s \in GhostType, ghosts' = [ghosts EXCEPT ![r] = s], GhostOk(s)'
    PROVE  ghosts' \in [Requests -> GhostType] /\ GhostsInv'
BY GhostStays DEF GhostsInv

LEMMA GrantsRest ==
    ASSUME GrantsInv, AttemptsAge, SameRows, UNCHANGED <<responses, told>>
    PROVE  GrantsInv' /\ RowsStay
BY DEF GrantsInv, GrantOk, AttemptsAge, Ages, SameRows, Disclosed, Abandoning, RowsStay

\* A request runs a script, and goes on.
LEMMA ScriptStep ==
    ASSUME IInv, Scripted, KeepLedger, UNCHANGED told,
           ghosts' = ghosts, breaks' \in Nat,
           NEW r \in Requests, NEW q \in RequestType, Become(r, q), RequestOk(q)'
    PROVE  IInv'
<1>1. /\ LedgerType' /\ HandlingType /\ RedisType' /\ RedisInv' /\ AttemptsAge /\ SameRows
      /\ UNCHANGED <<ledgerVars, bindings, authority, responses, told>>
  BY DEF IInv, TypeOK, KeepLedger, ledgerVars, LedgerType, Scripted, SameRows
<1>2. GrantsInv' /\ RowsStay
  BY <1>1, GrantsRest DEF IInv
<1>3. requests' \in [Requests -> RequestType] /\ RequestsInv'
  BY <1>1, <1>2, RequestsStep DEF IInv, HandlingType
<1>4. ghosts' \in [Requests -> GhostType] /\ GhostsInv'
  BY <1>1, <1>2, GhostsRest DEF IInv, HandlingType
<1> QED BY <1>1, <1>2, <1>3, <1>4 DEF IInv, TypeOK, HandlingType

\* Something else runs a script.
LEMMA ScriptAside ==
    ASSUME IInv, Scripted, UNCHANGED <<ledgerVars, handling>>
    PROVE  IInv'
<1>1. /\ LedgerType' /\ HandlingType' /\ RedisType' /\ RedisInv' /\ AttemptsAge /\ SameRows
      /\ UNCHANGED <<requests, ghosts, bindings, authority, responses, told>>
  BY DEF IInv, TypeOK, ledgerVars, handling, LedgerType, HandlingType, Scripted, SameRows
<1>2. GrantsInv' /\ RowsStay
  BY <1>1, GrantsRest DEF IInv
<1>3. RequestsInv' /\ GhostsInv'
  BY <1>1, <1>2, RequestsRest, GhostsRest DEF IInv, TypeOK, HandlingType
<1> QED BY <1>1, <1>2, <1>3 DEF IInv, TypeOK

\* A request runs a transaction, and goes on.
LEMMA RowsStep ==
    ASSUME IInv, LedgerType', RowsStay, GrantsInv', KeepClaims, ghosts' = ghosts,
           bindings' \in [Attempts -> Nat],
           authority' \in [Attempts -> [result : Answers, superseded : Attempts \cup {None}]],
           responses' \in [Attempts -> Answers], told' \in [Attempts -> SUBSET Results],
           breaks' \in Nat,
           NEW r \in Requests, NEW q \in RequestType, Become(r, q), RequestOk(q)'
    PROVE  IInv'
BY RedisStays, RequestsStep, GhostsRest DEF IInv, TypeOK, KeepClaims, Scripted, HandlingType

-----------------------------------------------------------------------------
(* The steps of a request.                                                   *)

LEMMA RequestFacts ==
    ASSUME IInv, NEW r \in Requests
    PROVE  /\ requests[r] \in RequestType /\ RequestOk(requests[r])
           /\ requests[r].pc \in Handling =>
                 /\ requests[r].att \in Attempts /\ requests[r].generation \in Nat
                 /\ Bound(requests[r].att, requests[r].generation)
BY DEF IInv, TypeOK, HandlingType, RequestsInv, RequestOk, RequestType, Bound

\* What a request becomes that has nothing to rely on.
LEMMA Passing ==
    ASSUME IInv, NEW r \in Requests
    PROVE  /\ Done \in RequestType /\ RequestOk(Done)'
           /\ \A p \in {"giveUp", "done", "withdraw", "free"} :
                 [requests[r] EXCEPT !.pc = p] \in RequestType
           /\ Failing(requests[r]) \in RequestType
           /\ Failing(requests[r]).pc = "free"
           /\ Failing(requests[r]).att = requests[r].att
           /\ Failing(requests[r]).generation = requests[r].generation
           /\ Failing(requests[r]).replay = "none"
<1>1. requests[r] \in RequestType
  BY RequestFacts
<1>2. Done \in RequestType /\ Done.pc = "done"
  BY DEF Done, Idle, RequestType, Answers
<1>3. RequestOk(Done)'
  BY <1>2 DEF RequestOk, Handling, Done, Idle
<1>4. /\ Failing(requests[r]) \in RequestType
      /\ Failing(requests[r]).pc = "free"
      /\ Failing(requests[r]).att = requests[r].att
      /\ Failing(requests[r]).generation = requests[r].generation
      /\ Failing(requests[r]).replay = "none"
  BY <1>1 DEF Failing, Settled, RequestType, Handling, Answers
<1>5. \A p \in {"giveUp", "done", "withdraw", "free"} :
         [requests[r] EXCEPT !.pc = p] \in RequestType
  BY <1>1 DEF RequestType, Handling
<1> QED BY <1>2, <1>3, <1>4, <1>5

\* A request at one of these steps relies on nothing but its reservation and its replay.
LEMMA Carefree ==
    ASSUME RowsStay, NEW q, NEW p, p.pc \in {"free", "withdraw", "giveUp"},
           q.pc \in Handling, RequestOk(q), p.att = q.att, p.generation = q.generation,
           p.replay = q.replay \/ p.replay = "none"
    PROVE  RequestOk(p)'
BY DEF RequestOk, RowsStay, Bound

LEMMA DoneIsOk ==
    ASSUME NEW p, p.pc = "done"
    PROVE  RequestOk(p)'
BY DEF RequestOk, Handling

\* What a request keeps that forgets what it no longer needs.
LEMMA SettledRow ==
    ASSUME NEW q \in RequestType
    PROVE  /\ Settled(q) \in RequestType
           /\ Settled(q).pc = q.pc /\ Settled(q).att = q.att
           /\ Settled(q).generation = q.generation /\ Settled(q).replay = q.replay
           /\ Settled(q).owner = q.owner /\ Settled(q).result = q.result
BY DEF Settled, RequestType

LEMMA KeptRows ==
    ASSUME KeepLedger
    PROVE  RowsStay /\ SameRows
BY DEF KeepLedger, ledgerVars, RowsStay, SameRows

LEMMA BeginClaimStep ==
    ASSUME IInv, NEW r \in Requests, BeginClaim(r)
    PROVE  IInv'
<1> PICK q : q = requests[r]
  OBVIOUS
<1> DEFINE reply == BeginReply(q.att, q.generation, Device)
           claiming == [q EXCEPT !.pc = "claim", !.version = protocol,
                                 !.owner = reply # "disclosed"]
           settled == [q EXCEPT !.pc = "finalize", !.result = "not_found"]
<1>1. q.pc = "begin" /\ q.pc \in Handling
  BY DEF BeginClaim, At, Handling
<1>2. /\ q \in RequestType /\ RequestOk(q) /\ q.att \in Attempts /\ q.generation \in Nat
      /\ Bound(q.att, q.generation)
  BY <1>1, RequestFacts
<1>3. /\ BeginAttempt(q.att, r, q.generation, Device) /\ KeepLedger
      /\ UNCHANGED <<ghosts, told, breaks>>
  BY DEF BeginClaim, KeepRest
<1>4. RowsStay /\ SameRows
  BY <1>3, KeptRows
<1>5. Scripted /\ (reply = "disclosed" => Disclosed(q.att))
  BY <1>2, <1>3, <1>4, BeginScript DEF IInv, TypeOK
<1>6. breaks' \in Nat
  BY <1>3 DEF IInv, TypeOK, HandlingType
<1>7. CASE reply \in {"begun", "retry", "disclosed"}
  <2>1. Become(r, claiming)
    BY <1>7 DEF BeginClaim
  <2>2. /\ claiming \in RequestType /\ claiming.pc = "claim" /\ claiming.att = q.att
        /\ claiming.generation = q.generation /\ claiming.replay = q.replay
        /\ claiming.result = q.result /\ claiming.owner = (reply # "disclosed")
    BY <1>2 DEF RequestType, Handling, IInv, TypeOK, RedisType
  <2>3. Disclosed(q.att) => Disclosed(q.att)'
    BY <1>2, <1>5 DEF Scripted, AttemptsAge, Ages, Disclosed
  <2> HIDE DEF claiming, reply
  <2> PICK p : p = claiming
    OBVIOUS
  <2>4. Bound(p.att, p.generation)' /\ (p.replay # "none" => responses'[p.att] = p.replay)
    BY <1>1, <1>2, <1>4, <2>2 DEF RequestOk, RowsStay, Bound
  <2>5. RequestOk(p)'
    BY <1>1, <1>2, <1>5, <2>2, <2>3, <2>4 DEF RequestOk
  <2> QED BY <1>3, <1>5, <1>6, <2>1, <2>2, <2>5, ScriptStep
<1>8. CASE reply = "abandoned"
  <2>1. Become(r, settled)
    BY <1>8 DEF BeginClaim
  <2>2. /\ settled \in RequestType /\ settled.pc = "finalize" /\ settled.att = q.att
        /\ settled.generation = q.generation /\ settled.replay = q.replay
        /\ settled.result = "not_found" /\ settled.owner = q.owner
    BY <1>2 DEF RequestType, Handling, Answers, Results
  <2> HIDE DEF settled, reply
  <2> PICK p : p = settled
    OBVIOUS
  <2>4. Bound(p.att, p.generation)' /\ (p.replay # "none" => responses'[p.att] = p.replay)
    BY <1>1, <1>2, <1>4, <2>2 DEF RequestOk, RowsStay, Bound
  <2>5. RequestOk(p)'
    BY <1>1, <1>2, <2>2, <2>4 DEF RequestOk, Answering
  <2> QED BY <1>3, <1>5, <1>6, <2>1, <2>2, <2>5, ScriptStep
<1>9. CASE reply \notin {"begun", "retry", "disclosed", "abandoned"}
  <2>1. Become(r, Failing(q))
    BY <1>9 DEF BeginClaim
  <2> PICK p \in RequestType : p = Failing(q)
    BY Passing
  <2>2. p.pc = "free" /\ p.att = q.att /\ p.generation = q.generation /\ p.replay = "none"
    BY Passing
  <2>3. RequestOk(p)'
    BY <1>1, <1>2, <1>4, <2>2, Carefree
  <2> QED BY <1>3, <1>5, <1>6, <2>1, <2>3, ScriptStep
<1> QED BY <1>7, <1>8, <1>9

LEMMA RunClaimStep ==
    ASSUME IInv, NEW r \in Requests, NEW found \in {"claimed"} \cup Negative,
           RunClaim(r, found)
    PROVE  IInv'
<1> PICK q : q = requests[r]
  OBVIOUS
<1> DEFINE reply == ClaimReply(q.att, r, q.generation, Device, q.version, q.expected, found)
           again == [q EXCEPT !.tries = @ + 1]
           expecting == [again EXCEPT !.expected = Superseded(q.att)]
           speaking == [again EXCEPT !.version = protocol]
           claimed == [Settled(q) EXCEPT !.pc = "active", !.result = reply]
           negative == [Settled(q) EXCEPT !.pc = "finalize", !.result = reply, !.owner = FALSE]
           abandoned == [Settled(q) EXCEPT !.pc = "finalize", !.result = "not_found",
                                           !.owner = FALSE]
<1>1. q.pc = "claim" /\ q.pc \in Handling
  BY DEF RunClaim, At, Handling
<1>2. /\ q \in RequestType /\ RequestOk(q) /\ q.att \in Attempts /\ q.generation \in Nat
      /\ Bound(q.att, q.generation)
  BY <1>1, RequestFacts
<1>3. /\ Claim(q.att, r, q.generation, Device, q.version, q.expected, found) /\ KeepLedger
      /\ UNCHANGED <<ghosts, told, breaks>>
  BY DEF RunClaim, KeepRest
<1>4. RowsStay /\ SameRows
  BY <1>3, KeptRows
<1>5. Scripted
  BY <1>2, <1>3, <1>4, ClaimScript DEF RequestType, IInv, TypeOK
<1>6. breaks' \in Nat
  BY <1>3 DEF IInv, TypeOK, HandlingType
<1>7. Disclosed(q.att) => Disclosed(q.att)'
  BY <1>2, <1>5 DEF Scripted, AttemptsAge, Ages, Disclosed
<1>8. q.result = "none" /\ (q.owner \/ Disclosed(q.att))
  BY <1>1, <1>2 DEF RequestOk
<1>9. Bound(q.att, q.generation)' /\ (q.replay # "none" => responses'[q.att] = q.replay)
  BY <1>1, <1>2, <1>4 DEF RequestOk, RowsStay, Bound
<1>10. \E p \in RequestType :
          /\ Become(r, p) /\ p.att = q.att /\ p.generation = q.generation
          /\ p.replay \in {q.replay, "none"}
          /\ \/ p.pc = "free"
             \/ p.pc = "claim" /\ p.result = q.result /\ p.owner = q.owner
             \/ p.pc = "active" /\ p.result = "claimed" /\ p.owner = q.owner
             \/ p.pc = "finalize" /\ p.result \notin {"none", "claimed"} /\ ~p.owner
  <2>1. CASE Become(r, Failing(q))
    BY <2>1, Passing
  <2>2. CASE Become(r, expecting)
    <3>1. Superseded(q.att) \in Attempts \cup {None}
      BY DEF Superseded, IInv, TypeOK, RedisType, ClaimType
    <3>2. /\ expecting \in RequestType /\ expecting.pc = "claim" /\ expecting.att = q.att
          /\ expecting.generation = q.generation /\ expecting.replay = q.replay
          /\ expecting.result = q.result /\ expecting.owner = q.owner
      <4>1. /\ again \in RequestType /\ again.pc = "claim" /\ again.att = q.att
            /\ again.generation = q.generation /\ again.replay = q.replay
            /\ again.result = q.result /\ again.owner = q.owner
        BY <1>1, <1>2 DEF RequestType
      <4> HIDE DEF again
      <4> QED BY <3>1, <4>1 DEF RequestType
    <3> HIDE DEF expecting
    <3> QED BY <2>2, <3>2
  <2>3. CASE Become(r, speaking)
    <3>1. protocol \in {0, 5, 6}
      BY DEF IInv, TypeOK, RedisType
    <3>2. /\ speaking \in RequestType /\ speaking.pc = "claim" /\ speaking.att = q.att
          /\ speaking.generation = q.generation /\ speaking.replay = q.replay
          /\ speaking.result = q.result /\ speaking.owner = q.owner
      <4>1. /\ again \in RequestType /\ again.pc = "claim" /\ again.att = q.att
            /\ again.generation = q.generation /\ again.replay = q.replay
            /\ again.result = q.result /\ again.owner = q.owner
        BY <1>1, <1>2 DEF RequestType
      <4> HIDE DEF again
      <4> QED BY <3>1, <4>1 DEF RequestType
    <3> HIDE DEF speaking
    <3> QED BY <2>3, <3>2
  <2>4. CASE Become(r, claimed) /\ reply = "claimed"
    <3>1. /\ claimed \in RequestType /\ claimed.pc = "active" /\ claimed.att = q.att
          /\ claimed.generation = q.generation /\ claimed.replay = q.replay
          /\ claimed.result = "claimed" /\ claimed.owner = q.owner
      <4> PICK x : x = Settled(q)
        OBVIOUS
      <4>1. /\ x \in RequestType /\ x.att = q.att /\ x.generation = q.generation
            /\ x.replay = q.replay /\ x.owner = q.owner
        BY <1>2, SettledRow
      <4> PICK y : y = [x EXCEPT !.pc = "active"]
        OBVIOUS
      <4>2. /\ y \in RequestType /\ y.pc = "active" /\ y.att = q.att
            /\ y.generation = q.generation /\ y.replay = q.replay /\ y.owner = q.owner
        BY <4>1 DEF RequestType, Handling
      <4>3. claimed = [y EXCEPT !.result = "claimed"]
        BY <2>4
      <4> HIDE DEF claimed, reply
      <4>4. claimed \in RequestType /\ claimed.result = "claimed"
        BY <4>2, <4>3 DEF RequestType, Answers, Results
      <4> QED BY <4>2, <4>3, <4>4 DEF RequestType
    <3> HIDE DEF claimed
    <3> QED BY <2>4, <3>1
  <2>5. CASE Become(r, negative) /\ reply \in Negative
    <3>1. reply \in Results /\ reply \notin {"none", "claimed"}
      BY <2>5, NegativeAssumption DEF Results
    <3>2. /\ negative \in RequestType /\ negative.pc = "finalize" /\ negative.att = q.att
          /\ negative.generation = q.generation /\ negative.replay = q.replay
          /\ negative.result = reply /\ ~negative.owner
      <4> PICK x : x = Settled(q)
        OBVIOUS
      <4>1. /\ x \in RequestType /\ x.att = q.att /\ x.generation = q.generation
            /\ x.replay = q.replay
        BY <1>2, SettledRow
      <4>2. negative = [x EXCEPT !.pc = "finalize", !.result = reply, !.owner = FALSE]
        OBVIOUS
      <4> HIDE DEF negative, reply
      <4> QED BY <3>1, <4>1, <4>2 DEF RequestType, Handling, Answers
    <3> HIDE DEF negative, reply
    <3> QED BY <2>5, <3>1, <3>2
  <2>6. CASE Become(r, abandoned)
    <3>1. /\ abandoned \in RequestType /\ abandoned.pc = "finalize" /\ abandoned.att = q.att
          /\ abandoned.generation = q.generation /\ abandoned.replay = q.replay
          /\ abandoned.result = "not_found" /\ ~abandoned.owner
      <4> PICK x : x = Settled(q)
        OBVIOUS
      <4>1. /\ x \in RequestType /\ x.att = q.att /\ x.generation = q.generation
            /\ x.replay = q.replay
        BY <1>2, SettledRow
      <4>2. abandoned = [x EXCEPT !.pc = "finalize", !.result = "not_found",
                                  !.owner = FALSE]
        OBVIOUS
      <4>3. "not_found" \in Answers /\ "finalize" \in {"idle", "done"} \cup Handling
        BY DEF Answers, Results, Handling
      <4> HIDE DEF abandoned
      <4> QED BY <4>1, <4>2, <4>3 DEF RequestType
    <3> HIDE DEF abandoned
    <3> QED BY <2>6, <3>1
  <2>7. \/ Become(r, Failing(q)) \/ Become(r, expecting) \/ Become(r, speaking)
        \/ Become(r, claimed) /\ reply = "claimed"
        \/ Become(r, negative) /\ reply \in Negative
        \/ Become(r, abandoned)
    <3> HIDE DEF reply, expecting, speaking, claimed, negative, abandoned
    <3>1. Become(r, CASE reply \in {"retry", "writer_protocol_changed"} /\ again.tries = Retries ->
                             Failing(q)
                      [] reply = "retry" /\ again.tries < Retries -> expecting
                      [] reply = "writer_protocol_changed" /\ again.tries < Retries -> speaking
                      [] reply = "claimed" -> claimed
                      [] reply \in Negative -> negative
                      [] reply = "attempt_abandoned" -> abandoned
                      [] OTHER -> Failing(q))
      BY DEF RunClaim, reply, expecting, speaking, claimed, negative, abandoned
    <3>2. CASE reply \in {"retry", "writer_protocol_changed"} /\ again.tries = Retries
      BY <3>1, <3>2, NegativeAssumption DEF Results
    <3>3. CASE reply \in {"retry", "writer_protocol_changed"} /\ again.tries < Retries
      BY <3>1, <3>3, NegativeAssumption DEF Results
    <3>4. CASE reply = "claimed"
      BY <3>1, <3>4, NegativeAssumption DEF Results
    <3>5. CASE reply \in Negative
      BY <3>1, <3>5, NegativeAssumption DEF Results
    <3>6. CASE reply = "attempt_abandoned"
      BY <3>1, <3>6, NegativeAssumption DEF Results
    <3> QED BY <3>1, <3>2, <3>3, <3>4, <3>5, <3>6
  <2> QED BY <2>1, <2>2, <2>3, <2>4, <2>5, <2>6, <2>7
<1> HIDE DEF reply
<1> PICK p \in RequestType :
          /\ Become(r, p) /\ p.att = q.att /\ p.generation = q.generation
          /\ p.replay \in {q.replay, "none"}
          /\ \/ p.pc = "free"
             \/ p.pc = "claim" /\ p.result = q.result /\ p.owner = q.owner
             \/ p.pc = "active" /\ p.result = "claimed" /\ p.owner = q.owner
             \/ p.pc = "finalize" /\ p.result \notin {"none", "claimed"} /\ ~p.owner
  BY <1>10
<1>11. Bound(p.att, p.generation)' /\ (p.replay # "none" => responses'[p.att] = p.replay)
  BY <1>9
<1>12. p.owner \/ Disclosed(p.att)' \/ p.pc \notin {"claim", "active"}
  BY <1>7, <1>8
<1>13. RequestOk(p)'
  BY <1>8, <1>11, <1>12 DEF RequestOk, Answering
<1> QED BY <1>3, <1>5, <1>6, <1>13, ScriptStep

LEMMA MovedRow ==
    ASSUME NEW q \in RequestType, NEW pc \in {"idle", "done"} \cup Handling
    PROVE  /\ [q EXCEPT !.pc = pc] \in RequestType
           /\ [q EXCEPT !.pc = pc].pc = pc
           /\ [q EXCEPT !.pc = pc].att = q.att
           /\ [q EXCEPT !.pc = pc].generation = q.generation
           /\ [q EXCEPT !.pc = pc].replay = q.replay
           /\ [q EXCEPT !.pc = pc].owner = q.owner
           /\ [q EXCEPT !.pc = pc].result = q.result
BY DEF RequestType

\* A request gives up, or is through: nothing but its reservation is relied on.
LEMMA LetsGo ==
    ASSUME RowsStay, NEW q \in RequestType, NEW p, q.pc \in Handling, RequestOk(q),
           p = [q EXCEPT !.pc = "giveUp"] \/ p = [q EXCEPT !.pc = "done"]
    PROVE  p \in RequestType /\ RequestOk(p)'
<1>1. CASE p = [q EXCEPT !.pc = "giveUp"]
  <2>1. /\ p \in RequestType /\ p.pc = "giveUp" /\ p.att = q.att
        /\ p.generation = q.generation /\ p.replay = q.replay
    BY <1>1, MovedRow DEF Handling
  <2> QED BY <2>1, Carefree
<1>2. CASE p = [q EXCEPT !.pc = "done"]
  BY <1>2, MovedRow, DoneIsOk
<1> QED BY <1>1, <1>2

\* The connection is cut, and its script left in it.
LEMMA AbortStep ==
    ASSUME IInv, NEW r \in Requests, Abort(r)
    PROVE  IInv'
<1> PICK q : q = requests[r]
  OBVIOUS
<1> PICK s : s = [script |-> q.pc, att |-> q.att, generation |-> q.generation,
                  version |-> q.version, expected |-> q.expected]
  OBVIOUS
<1>1. q.pc \in {"begin", "claim"} /\ q.pc \in Handling
  BY DEF Abort, Handling
<1>2. /\ q \in RequestType /\ RequestOk(q) /\ Bound(q.att, q.generation)
  BY <1>1, RequestFacts
<1>3. /\ Become(r, Failing(q)) /\ KeepLedger /\ KeepClaims /\ UNCHANGED told
      /\ ghosts' = [ghosts EXCEPT ![r] = s] /\ breaks' \in Nat
  BY DEF Abort, IInv, TypeOK, HandlingType
<1>4. RowsStay /\ SameRows
  BY <1>3, KeptRows
<1>5. Scripted
  BY <1>3, <1>4, RedisStays DEF KeepClaims, IInv, TypeOK
<1>6. GrantsInv'
  BY <1>3, <1>4, <1>5, GrantsRest DEF IInv, KeepLedger, Scripted
<1>7. requests' \in [Requests -> RequestType] /\ RequestsInv'
  <2> PICK p \in RequestType : p = Failing(q)
    BY Passing
  <2>1. p.pc = "free" /\ p.att = q.att /\ p.generation = q.generation /\ p.replay = "none"
    BY Passing
  <2>2. RequestOk(p)'
    BY <1>1, <1>2, <1>4, <2>1, Carefree
  <2> QED BY <1>3, <1>4, <1>5, <2>2, RequestsStep DEF IInv, TypeOK, HandlingType, Scripted
<1>8. ghosts' \in [Requests -> GhostType] /\ GhostsInv'
  <2>1. s \in GhostType
    BY <1>1, <1>2 DEF RequestType, GhostType
  <2>2. GhostOk(s)'
    BY <1>2, <1>4 DEF GhostOk, RowsStay, Bound
  <2> QED BY <1>3, <1>4, <2>1, <2>2, GhostsStep DEF IInv, TypeOK, HandlingType
<1> QED BY <1>3, <1>5, <1>6, <1>7, <1>8
    DEF IInv, TypeOK, LedgerType, HandlingType, KeepLedger, ledgerVars, Scripted

LEMMA GhostArrivesStep ==
    ASSUME IInv, NEW r \in Requests, NEW found \in {"claimed"} \cup Negative,
           GhostArrives(r, found)
    PROVE  IInv'
<1> PICK s : s = ghosts[r]
  OBVIOUS
<1>1. s.script # "none" /\ KeepLedger /\ UNCHANGED <<requests, told, breaks>>
  BY DEF GhostArrives
<1>2. RowsStay /\ SameRows
  BY <1>1, KeptRows
<1>3. /\ s \in GhostType /\ Bound(s.att, s.generation)
      /\ s.att \in Attempts /\ s.generation \in Nat
  BY <1>1 DEF IInv, TypeOK, HandlingType, GhostsInv, GhostOk, GhostType, Bound
<1>4. Scripted
  <2>1. CASE BeginAttempt(s.att, r, s.generation, Device)
    BY <1>2, <1>3, <2>1, BeginScript DEF IInv, TypeOK
  <2>2. CASE Claim(s.att, r, s.generation, Device, s.version, s.expected, found)
    <3>1. s.version \in {0, 5, 6} /\ s.expected \in Attempts \cup {None}
      BY <1>3 DEF GhostType
    <3> QED BY <1>2, <1>3, <2>2, <3>1, ClaimScript DEF IInv, TypeOK
  <2> QED BY <2>1, <2>2 DEF GhostArrives
<1>5. GrantsInv'
  BY <1>1, <1>2, <1>4, GrantsRest DEF IInv, KeepLedger, Scripted
<1>6. requests' \in [Requests -> RequestType] /\ RequestsInv'
  BY <1>1, <1>2, <1>4, RequestsRest DEF IInv, TypeOK, HandlingType, Scripted
<1>7. ghosts' \in [Requests -> GhostType] /\ GhostsInv'
  BY <1>2, GhostsStep DEF GhostArrives, NoGhost, GhostType, GhostOk, IInv, TypeOK, HandlingType
<1> QED BY <1>1, <1>4, <1>5, <1>6, <1>7
    DEF IInv, TypeOK, LedgerType, HandlingType, KeepLedger, ledgerVars, Scripted

LEMMA FreeStep ==
    ASSUME IInv, NEW r \in Requests, Free(r)
    PROVE  IInv'
<1> PICK q : q = requests[r]
  OBVIOUS
<1> DEFINE freed == [q EXCEPT !.pc = "withdraw", !.owner = FALSE]
<1>1. q.pc = "free" /\ q.pc \in Handling
  BY DEF Free, At, Handling
<1>2. q \in RequestType /\ RequestOk(q) /\ q.att \in Attempts
  BY <1>1, RequestFacts
<1>3. /\ AbandonAttempt(q.att, r) /\ Become(r, freed) /\ KeepLedger
      /\ UNCHANGED <<ghosts, told, breaks>>
  BY DEF Free, KeepRest
<1>4. RowsStay /\ SameRows
  BY <1>3, KeptRows
<1>5. Scripted
  BY <1>2, <1>3, <1>4, AbandonScript DEF IInv, TypeOK
<1>6. /\ freed \in RequestType /\ freed.pc = "withdraw" /\ freed.att = q.att
      /\ freed.generation = q.generation /\ freed.replay = q.replay
  BY <1>2 DEF RequestType, Handling
<1> HIDE DEF freed
<1> PICK p : p = freed
  OBVIOUS
<1>7. RequestOk(p)'
  BY <1>1, <1>2, <1>4, <1>6, Carefree
<1>8. breaks' \in Nat
  BY <1>3 DEF IInv, TypeOK, HandlingType
<1> QED BY <1>3, <1>5, <1>6, <1>7, <1>8, ScriptStep

\* What is read of the standing claim is the source of the grant.
LEMMA ReadActiveStep ==
    ASSUME IInv, NEW r \in Requests, ReadActive(r)
    PROVE  IInv'
<1> PICK q : q = requests[r]
  OBVIOUS
<1> DEFINE reading == [q EXCEPT !.pc = "finalize", !.expected = claim.superseded]
           withdrawing == [q EXCEPT !.pc = "withdraw", !.replay = "none"]
<1>1. q.pc = "active" /\ q.pc \in Handling
  BY DEF ReadActive, At, Handling
<1>2. q \in RequestType /\ RequestOk(q) /\ q.att \in Attempts
  BY <1>1, RequestFacts
<1>3. /\ KeepLedger /\ KeepClaims /\ UNCHANGED <<ghosts, told, breaks>>
      /\ \/ Become(r, reading)
         \/ Become(r, withdrawing)
  BY DEF ReadActive, KeepRest
<1>4. RowsStay /\ SameRows
  BY <1>3, KeptRows
<1>5. Scripted
  BY <1>3, <1>4, RedisStays DEF IInv, TypeOK, KeepClaims
<1>6. breaks' \in Nat
  BY <1>3 DEF IInv, TypeOK, HandlingType
<1>7. CASE Become(r, reading)
  <2>1. claim.superseded \in Attempts \cup {None}
    BY DEF IInv, TypeOK, RedisType, ClaimType
  <2>2. /\ reading \in RequestType /\ reading.pc = "finalize" /\ reading.att = q.att
        /\ reading.generation = q.generation /\ reading.replay = q.replay
        /\ reading.owner = q.owner /\ reading.result = q.result
    BY <1>2, <2>1 DEF RequestType, Handling
  <2>3. Bound(q.att, q.generation)' /\ (q.replay # "none" => responses'[q.att] = q.replay)
    BY <1>1, <1>2, <1>4 DEF RequestOk, RowsStay, Bound
  <2>4. q.result = "claimed" /\ (q.owner \/ Disclosed(q.att))
    BY <1>1, <1>2 DEF RequestOk, Answering
  <2>5. Disclosed(q.att) => Disclosed(q.att)'
    BY <1>2, <1>5 DEF Scripted, AttemptsAge, Ages, Disclosed
  <2> HIDE DEF reading
  <2> PICK p : p = reading
    OBVIOUS
  <2>6. RequestOk(p)'
    BY <2>2, <2>3, <2>4, <2>5 DEF RequestOk, Answering
  <2> QED BY <1>3, <1>5, <1>6, <1>7, <2>2, <2>6, ScriptStep
<1>8. CASE Become(r, withdrawing)
  <2>1. /\ withdrawing \in RequestType /\ withdrawing.pc = "withdraw"
        /\ withdrawing.att = q.att /\ withdrawing.generation = q.generation
        /\ withdrawing.replay = "none"
    BY <1>2 DEF RequestType, Handling, Answers
  <2> HIDE DEF withdrawing
  <2> PICK p : p = withdrawing
    OBVIOUS
  <2>2. RequestOk(p)'
    BY <1>1, <1>2, <1>4, <2>1, Carefree
  <2> QED BY <1>3, <1>5, <1>6, <1>8, <2>1, <2>2, ScriptStep
<1> QED BY <1>3, <1>7, <1>8

\* A reservation is made once; a retry finds the binding that it was made under.
LEMMA ReserveGrantStep ==
    ASSUME IInv, NEW r \in Requests, NEW a \in Attempts, ReserveGrant(r, a)
    PROVE  IInv'
<1> DEFINE fresh == grants[a].status = "none"
           again == /\ bindings[a] = generation /\ GrantCurrent(a)
                    /\ grants[a].status \in {"reserved", "active"}
           started == [Idle EXCEPT !.pc = "begin", !.att = a, !.generation = generation,
                                 !.history = profile.generation, !.replay = responses[a]]
<1>1. /\ UNCHANGED <<authority, responses>> /\ KeepClaims /\ UNCHANGED <<ghosts, told, breaks>>
  BY DEF ReserveGrant, KeepRest
<1>2. /\ generation \in Nat /\ generation # 0 /\ GrantOk(a)
      /\ breaks' \in Nat
  BY <1>1 DEF IInv, TypeOK, RedisType, GrantsInv, HandlingType
<1>3. /\ LedgerType' /\ bindings' \in [Attempts -> Nat]
      /\ \A b \in Attempts :
            \/ /\ ~(b = a /\ fresh)
               /\ grants'[b] = grants[b] /\ bindings'[b] = bindings[b]
            \/ /\ b = a /\ fresh
               /\ grants'[b].status = "reserved" /\ bindings'[b] = generation
  BY ReserveRow, <1>2
     DEF ReserveGrant, IInv, TypeOK, HandlingType, StatusOf, LedgerType, ledgerVars
<1>4. RowsStay
  BY <1>1, <1>3 DEF RowsStay
<1>5. GrantsInv'
  BY <1>1, <1>3 DEF KeepClaims, redis, IInv, GrantsInv, GrantOk, Disclosed, Abandoning
<1>6. /\ authority' \in [Attempts -> [result : Answers, superseded : Attempts \cup {None}]]
      /\ responses' \in [Attempts -> Answers] /\ told' \in [Attempts -> SUBSET Results]
  BY <1>1 DEF IInv, TypeOK, HandlingType
<1>7. CASE Become(r, started) /\ (fresh \/ again)
  <2>1. profile.generation \in Nat /\ responses[a] \in Answers
    BY DEF IInv, TypeOK, LedgerType, HandlingType
  <2>2. /\ started \in RequestType /\ started.pc = "begin" /\ started.att = a
        /\ started.generation = generation /\ started.replay = responses[a]
        /\ started.result = "none" /\ ~started.owner
    BY <1>2, <2>1 DEF Idle, RequestType, Handling, Answers
  <2>3. Bound(a, generation)' /\ responses'[a] = responses[a]
    BY <1>1, <1>2, <1>3, <1>7 DEF Bound, KeepClaims, redis
  <2> PICK g : g = generation
    OBVIOUS
  <2> HIDE DEF started, fresh, again
  <2> PICK p : p = started
    OBVIOUS
  <2>4. Bound(p.att, p.generation)'
    BY <1>1, <2>2, <2>3 DEF Bound, KeepClaims, redis
  <2>5. p.replay # "none" => responses'[p.att] = p.replay
    BY <2>2, <2>3
  <2>6. RequestOk(p)'
    BY <2>2, <2>4, <2>5 DEF RequestOk
  <2>7. Become(r, p)
    BY <1>7
  <2> QED BY <1>1, <1>2, <1>3, <1>4, <1>5, <1>6, <2>2, <2>6, <2>7, RowsStep
<1>8. CASE Finish(r)
  BY <1>1, <1>2, <1>3, <1>4, <1>5, <1>6, <1>8, Passing, RowsStep DEF Finish
<1>9. (fresh \/ again) => Become(r, started)
  BY DEF ReserveGrant
<1>10. ~(fresh \/ again) => Finish(r)
  BY DEF ReserveGrant
<1> QED BY <1>7, <1>8, <1>9, <1>10

\* The row that a request acts on: what it is, and what it stays.
LEMMA WithdrawStep ==
    ASSUME IInv, NEW r \in Requests, Withdraw(r)
    PROVE  IInv'
<1> PICK q : q = requests[r]
  OBVIOUS
<1>1. q.pc = "withdraw" /\ q.pc \in Handling
  BY DEF Withdraw, At, Handling
<1>2. q \in RequestType /\ RequestOk(q) /\ q.att \in Attempts
  BY <1>1, RequestFacts
<1>3. /\ UNCHANGED <<bindings, authority, responses>> /\ KeepClaims
      /\ UNCHANGED <<ghosts, told, breaks>>
  BY DEF Withdraw, KeepRest
<1>4. /\ LedgerType'
      /\ \A b \in Attempts :
            \/ grants'[b] = grants[b]
            \/ grants[b].status = "reserved" /\ grants'[b].status = "revoked"
  BY <1>2, AbandonRow DEF IInv, TypeOK, StatusOf, Abandon, LedgerType, ledgerVars, Withdraw
<1>5. RowsStay
  BY <1>3, <1>4 DEF RowsStay
<1>6. GrantsInv'
  BY <1>3, <1>4 DEF KeepClaims, redis, IInv, GrantsInv, GrantOk, Disclosed, Abandoning
<1>7. /\ bindings' \in [Attempts -> Nat]
      /\ authority' \in [Attempts -> [result : Answers, superseded : Attempts \cup {None}]]
      /\ responses' \in [Attempts -> Answers] /\ told' \in [Attempts -> SUBSET Results]
      /\ breaks' \in Nat
  BY <1>3 DEF IInv, TypeOK, HandlingType
<1>8. CASE Goto(r, "giveUp")
  <2> PICK p : p = [q EXCEPT !.pc = "giveUp"]
    OBVIOUS
  <2>1. p \in RequestType /\ RequestOk(p)'
    BY <1>1, <1>2, <1>5, LetsGo
  <2>2. Become(r, p)
    BY <1>8 DEF Goto, Become, IInv, TypeOK, HandlingType
  <2> QED BY <1>3, <1>4, <1>5, <1>6, <1>7, <2>1, <2>2, RowsStep
<1>9. CASE Finish(r)
  BY <1>3, <1>4, <1>5, <1>6, <1>7, <1>9, Passing, RowsStep DEF Finish
<1> QED BY <1>8, <1>9 DEF Withdraw

\* A request that only goes on to another step.
LEMMA GoesOn ==
    ASSUME IInv, Scripted, KeepLedger, UNCHANGED <<ghosts, told, breaks>>,
           NEW r \in Requests, NEW q, q = requests[r], q.pc \in Handling,
           \/ Goto(r, "giveUp") \/ Goto(r, "done") \/ Finish(r)
           \/ \E pc \in Handling : Goto(r, pc) /\ RequestOk([q EXCEPT !.pc = pc])'
    PROVE  IInv'
<1>1. q \in RequestType /\ RequestOk(q)
  BY RequestFacts
<1>2. RowsStay
  BY KeptRows
<1>3. breaks' \in Nat
  BY DEF IInv, TypeOK, HandlingType
<1>4. ASSUME NEW pc, Goto(r, pc), NEW p \in RequestType, p = [q EXCEPT !.pc = pc],
             RequestOk(p)'
      PROVE  IInv'
  BY <1>4, <1>3, ScriptStep DEF Goto, Become, IInv, TypeOK, HandlingType
<1>5. CASE Finish(r)
  BY <1>3, <1>5, Passing, ScriptStep DEF Finish
<1>6. ASSUME NEW pc \in {"giveUp", "done"}, Goto(r, pc) PROVE IInv'
  BY <1>1, <1>2, LetsGo, <1>4, <1>6
<1>7. ASSUME NEW pc \in Handling, Goto(r, pc), RequestOk([q EXCEPT !.pc = pc])'
      PROVE  IInv'
  BY <1>1, <1>7, MovedRow, <1>4
<1> QED BY <1>5, <1>6, <1>7

LEMMA RecheckStep ==
    ASSUME IInv, NEW r \in Requests, Recheck(r)
    PROVE  IInv'
<1> PICK q : q = requests[r]
  OBVIOUS
<1>1. q.pc = "recheck" /\ q.pc \in Handling
  BY DEF Recheck, At, Handling
<1>2. q \in RequestType /\ RequestOk(q) /\ q.att \in Attempts
  BY <1>1, RequestFacts
<1>3. KeepLedger /\ KeepClaims /\ UNCHANGED <<ghosts, told, breaks>>
  BY DEF Recheck, KeepRest
<1>4. RowsStay
  BY <1>3, KeptRows
<1>5. Scripted
  BY <1>3, <1>4, RedisStays DEF IInv, TypeOK, KeepClaims
<1>6. CASE Goto(r, "commit")
  <2> PICK p : p = [q EXCEPT !.pc = "commit"]
    OBVIOUS
  <2>1. "commit" \in Handling
    BY DEF Handling
  <2>2. /\ p.pc = "commit" /\ p.att = q.att /\ p.generation = q.generation
        /\ p.replay = q.replay /\ p.owner = q.owner /\ p.result = q.result
    BY <1>2, <2>1, MovedRow
  <2>3. RequestOk(q)'
    BY <1>2, <1>4, <1>5, RequestStays DEF Scripted
  <2>4. RequestOk(p)'
    BY <1>1, <2>2, <2>3 DEF RequestOk, Answering, Handling
  <2> QED BY <1>1, <1>3, <1>5, <1>6, <2>1, <2>4, GoesOn
<1>7. CASE Goto(r, "giveUp") \/ Goto(r, "done")
  BY <1>1, <1>3, <1>5, <1>7, GoesOn
<1> QED BY <1>6, <1>7 DEF Recheck

\* A player is told only what its attempt disclosed.
LEMMA DiscloseClaimStep ==
    ASSUME IInv, NEW r \in Requests, DiscloseClaim(r)
    PROVE  IInv'
<1> PICK q : q = requests[r]
  OBVIOUS
<1>1. q.pc = "disclose" /\ q.pc \in Handling
  BY DEF DiscloseClaim, At, Handling
<1>2. q \in RequestType /\ RequestOk(q) /\ q.att \in Attempts
  BY <1>1, RequestFacts
<1>3. /\ DiscloseAttempt(q.att, r) /\ KeepLedger /\ UNCHANGED <<ghosts, told, breaks>>
      /\ Goto(r, IF Discloses(q.att, r) THEN "respond" ELSE "giveUp")
  BY DEF DiscloseClaim, KeepRest
<1>4. RowsStay /\ SameRows
  BY <1>3, KeptRows
<1>5. authority[q.att].result = "claimed" /\ q.result = "claimed"
  BY <1>1, <1>2 DEF RequestOk
<1>6. Scripted /\ (Discloses(q.att, r) => Disclosed(q.att)')
  BY <1>2, <1>3, <1>4, <1>5, DiscloseScript DEF IInv, TypeOK
<1>7. CASE Discloses(q.att, r)
  <2> PICK p : p = [q EXCEPT !.pc = "respond"]
    OBVIOUS
  <2>1. "respond" \in Handling /\ Goto(r, "respond")
    BY <1>3, <1>7 DEF Handling
  <2>2. /\ p.pc = "respond" /\ p.att = q.att /\ p.generation = q.generation
        /\ p.replay = q.replay /\ p.owner = q.owner /\ p.result = q.result
    BY <1>2, <2>1, MovedRow
  <2>3. RequestOk(q)'
    BY <1>2, <1>4, <1>6, RequestStays DEF Scripted
  <2>4. Disclosed(q.att)'
    BY <1>6, <1>7
  <2>5. Disclosed(p.att)'
    BY <2>2, <2>4 DEF Disclosed
  <2>6. RequestOk(p)'
    BY <1>1, <2>2, <2>3, <2>5 DEF RequestOk, Handling
  <2> QED BY <1>1, <1>3, <1>6, <2>1, <2>6, GoesOn
<1>8. CASE ~Discloses(q.att, r)
  BY <1>1, <1>3, <1>6, <1>8, GoesOn
<1> QED BY <1>7, <1>8

\* A claim that is given up is released before its grant is revoked.
LEMMA GiveUpStep ==
    ASSUME IInv, NEW r \in Requests, GiveUp(r)
    PROVE  IInv'
<1> PICK q : q = requests[r]
  OBVIOUS
<1>1. q.pc = "giveUp" /\ q.pc \in Handling
  BY DEF GiveUp, At, Handling
<1>2. q \in RequestType /\ RequestOk(q) /\ q.att \in Attempts
  BY <1>1, RequestFacts
<1>3. /\ AbandonAttempt(q.att, r) /\ KeepLedger /\ UNCHANGED <<ghosts, told, breaks>>
      /\ IF AbandonReleases(q.att, r) THEN Goto(r, "revoke") ELSE Finish(r)
  BY DEF GiveUp, KeepRest
<1>4. RowsStay /\ SameRows
  BY <1>3, KeptRows
<1>5. Scripted /\ (AbandonReleases(q.att, r) => Abandoning(q.att)')
  BY <1>2, <1>3, <1>4, AbandonScript DEF IInv, TypeOK
<1>6. CASE AbandonReleases(q.att, r)
  <2> PICK p : p = [q EXCEPT !.pc = "revoke"]
    OBVIOUS
  <2>1. "revoke" \in Handling /\ Goto(r, "revoke")
    BY <1>3, <1>6 DEF Handling
  <2>2. /\ p.pc = "revoke" /\ p.att = q.att /\ p.generation = q.generation
        /\ p.replay = q.replay
    BY <1>2, <2>1, MovedRow
  <2>3. RequestOk(q)'
    BY <1>2, <1>4, <1>5, RequestStays DEF Scripted
  <2>4. Abandoning(q.att)'
    BY <1>5, <1>6
  <2>5. Abandoning(p.att)'
    BY <2>2, <2>4 DEF Abandoning
  <2>6. RequestOk(p)'
    BY <1>1, <2>2, <2>3, <2>5 DEF RequestOk, Handling
  <2> QED BY <1>1, <1>3, <1>5, <2>1, <2>6, GoesOn
<1>7. CASE ~AbandonReleases(q.att, r)
  BY <1>1, <1>3, <1>5, <1>7, GoesOn
<1> QED BY <1>6, <1>7

\* A request that acts on the rows of its grant, which stay where it relies on them.
LEMMA RevokeGrantStep ==
    ASSUME IInv, NEW r \in Requests, RevokeGrant(r)
    PROVE  IInv'
<1> PICK q : q = requests[r]
  OBVIOUS
<1>1. q.pc = "revoke" /\ q.pc \in Handling
  BY DEF RevokeGrant, At, Handling
<1>2. q \in RequestType /\ RequestOk(q) /\ q.att \in Attempts
  BY <1>1, RequestFacts
<1>3. /\ UNCHANGED <<bindings, authority, responses>> /\ KeepClaims
      /\ UNCHANGED <<ghosts, told, breaks>> /\ Finish(r)
  BY DEF RevokeGrant, KeepRest
<1>4. /\ LedgerType'
      /\ \A b \in Attempts :
            \/ grants'[b] = grants[b]
            \/ b = q.att /\ grants[b].status # "none" /\ grants'[b].status = "revoked"
  BY <1>2, RevokeSessionRow DEF IInv, TypeOK, StatusOf, LedgerType, ledgerVars, RevokeGrant
<1>5. RowsStay
  BY <1>3, <1>4 DEF RowsStay
<1>6. GrantsInv'
  <2>1. UNCHANGED <<attempts, bindings, authority, responses, told>>
    BY <1>3 DEF KeepClaims, redis
  <2>2. Abandoning(q.att)
    BY <1>1, <1>2 DEF RequestOk
  <2>3. ASSUME NEW b \in Attempts PROVE GrantOk(b)'
    BY <1>4, <2>1, <2>2 DEF IInv, GrantsInv, GrantOk, Disclosed, Abandoning
  <2> QED BY <2>3 DEF GrantsInv
<1>7. /\ bindings' \in [Attempts -> Nat]
      /\ authority' \in [Attempts -> [result : Answers, superseded : Attempts \cup {None}]]
      /\ responses' \in [Attempts -> Answers] /\ told' \in [Attempts -> SUBSET Results]
      /\ breaks' \in Nat
  BY <1>3 DEF IInv, TypeOK, HandlingType
<1> QED BY <1>3, <1>4, <1>5, <1>6, <1>7, Passing, RowsStep DEF Finish

LEMMA CrashStep ==
    ASSUME IInv, NEW r \in Requests, Crash(r)
    PROVE  IInv'
<1>1. /\ Finish(r) /\ KeepLedger /\ KeepClaims /\ UNCHANGED <<ghosts, told>>
      /\ breaks' \in Nat
  BY DEF Crash, IInv, TypeOK, HandlingType
<1>2. Scripted
  BY <1>1, KeptRows, RedisStays DEF IInv, TypeOK, KeepClaims
<1> QED BY <1>1, <1>2, Passing, ScriptStep DEF Finish

LEMMA RevokeStep ==
    ASSUME IInv, Revoke
    PROVE  IInv'
<1>1. LedgerType' /\ grants' = grants /\ UNCHANGED <<redis, handling>>
  BY RevokeDeviceRow DEF Revoke, IInv, TypeOK
<1>2. RowsStay /\ SameRows
  BY <1>1 DEF RowsStay, SameRows, handling
<1>3. Scripted
  BY <1>1, <1>2, RedisStays DEF IInv, TypeOK
<1>4. GrantsInv' /\ RequestsInv' /\ GhostsInv'
  BY <1>1, <1>2, <1>3, GrantsRest, RequestsRest, GhostsRest
  DEF IInv, TypeOK, HandlingType, handling, Scripted
<1>5. HandlingType'
  BY <1>1 DEF IInv, TypeOK, HandlingType, handling
<1> QED BY <1>1, <1>3, <1>4, <1>5 DEF IInv, TypeOK, Scripted

LEMMA EnvironmentStep ==
    ASSUME IInv, Environment \/ FenceRevoked
    PROVE  IInv'
BY EnvironmentScript, FenceScript, ScriptAside
   DEF Environment, FenceRevoked, SameRows, ledgerVars, handling, IInv, TypeOK

\* A grant that is active has the source that it was finalized with.
LEMMA FinalizeGrantStep ==
    ASSUME IInv, NEW r \in Requests, FinalizeGrant(r)
    PROVE  IInv'
<1> PICK q : q = requests[r]
  OBVIOUS
<1> DEFINE fresh == grants[q.att].status = "reserved" /\ GrantCurrent(q.att) /\ Replaceable(q)
           next == IF q.result = "claimed" THEN "recheck" ELSE "commit"
           going == [Settled(q) EXCEPT !.pc = next]
           withdrawing == [Settled(q) EXCEPT !.pc = "withdraw", !.replay = "none"]
<1>1. q.pc = "finalize" /\ q.pc \in Handling
  BY DEF FinalizeGrant, At, Handling
<1>2. q \in RequestType /\ RequestOk(q) /\ q.att \in Attempts /\ Answering(q)
  BY <1>1, RequestFacts DEF RequestOk
<1>3. /\ UNCHANGED <<bindings, responses>> /\ KeepClaims /\ UNCHANGED <<ghosts, told, breaks>>
  BY DEF FinalizeGrant, KeepRest
<1>4. /\ Source(q) \in [result : Answers, superseded : Attempts \cup {None}]
      /\ Source(q).result = q.result /\ q.result # "none"
  BY <1>2 DEF Source, RequestType, Answering
<1>5. GrantOk(q.att)
  BY <1>2 DEF IInv, GrantsInv
<1>6. /\ LedgerType'
      /\ authority' \in [Attempts -> [result : Answers, superseded : Attempts \cup {None}]]
      /\ \A b \in Attempts :
            \/ grants'[b] = grants[b] /\ authority'[b] = authority[b] /\ ~(fresh /\ b = q.att)
            \/ /\ grants[b].status # "none" /\ grants'[b].status = "superseded"
               /\ authority'[b] = authority[b] /\ ~(fresh /\ b = q.att)
            \/ /\ fresh /\ b = q.att /\ grants'[b].status = "active"
               /\ authority'[b] = Source(q)
  <2>1. authority \in [Attempts -> [result : Answers, superseded : Attempts \cup {None}]]
    BY DEF IInv, TypeOK, HandlingType
  <2>2. CASE fresh
    <3>1. PICK kind \in Kinds : Finalize(q.att, kind, Source(q).superseded)
      BY <2>2 DEF FinalizeGrant
    <3>2. authority' = [authority EXCEPT ![q.att] = Source(q)]
      BY <2>2 DEF FinalizeGrant
    <3>3. Source(q).superseded \in Attempts \cup {None}
      BY <1>4
    <3>4. /\ LedgerType' /\ grants'[q.att].status = "active"
          /\ \A b \in Attempts : b # q.att =>
                \/ grants'[b] = grants[b]
                \/ grants[b].status # "none" /\ grants'[b].status = "superseded"
      BY <1>2, <3>1, <3>3, FinalizeRow DEF IInv, TypeOK
    <3> HIDE DEF fresh
    <3> QED BY <1>4, <2>1, <2>2, <3>2, <3>4
  <2>3. CASE ~fresh
    <3>1. UNCHANGED <<ledgerVars, authority>>
      BY <2>3 DEF FinalizeGrant
    <3> HIDE DEF fresh
    <3> QED BY <2>1, <2>3, <3>1 DEF IInv, TypeOK, LedgerType, ledgerVars
  <2> QED BY <2>2, <2>3
<1>7. fresh => authority[q.att].result = "none"
  BY <1>5 DEF GrantOk
<1>8. RowsStay
  BY <1>3, <1>6, <1>7 DEF RowsStay
<1>9. GrantsInv'
  <2>1. UNCHANGED <<attempts, bindings, responses, told>>
    BY <1>3 DEF KeepClaims, redis
  <2>2. fresh => responses[q.att] = "none"
    BY <1>5, <1>7 DEF GrantOk
  <2> HIDE DEF fresh
  <2>3. ASSUME NEW b \in Attempts PROVE GrantOk(b)'
    BY <1>4, <1>6, <2>1, <2>2 DEF IInv, GrantsInv, GrantOk, Disclosed, Abandoning
  <2> QED BY <2>3 DEF GrantsInv
<1>10. /\ bindings' \in [Attempts -> Nat]
       /\ responses' \in [Attempts -> Answers] /\ told' \in [Attempts -> SUBSET Results]
       /\ breaks' \in Nat
  BY <1>3 DEF IInv, TypeOK, HandlingType
<1> PICK x : x = Settled(q)
  OBVIOUS
<1>11. /\ x \in RequestType /\ x.att = q.att /\ x.generation = q.generation
       /\ x.replay = q.replay /\ x.owner = q.owner /\ x.result = q.result
  BY <1>2, SettledRow
<1>12. CASE fresh \/ FinalizedAlike(q)
  <2>1. Become(r, going)
    BY <1>12 DEF FinalizeGrant
  <2>2. next \in {"recheck", "commit"} /\ (next = "recheck" => q.result = "claimed")
    OBVIOUS
  <2>3. next \in {"idle", "done"} \cup Handling
    BY <2>2 DEF Handling
  <2>4. authority'[q.att].result = q.result
    BY <1>2, <1>4, <1>6, <1>12 DEF FinalizedAlike
  <2> HIDE DEF next
  <2> PICK p : p = [x EXCEPT !.pc = next]
    OBVIOUS
  <2>5. /\ p \in RequestType /\ p.pc = next /\ p.att = q.att /\ p.generation = q.generation
        /\ p.replay = q.replay /\ p.owner = q.owner /\ p.result = q.result
    BY <1>11, <2>3, MovedRow
  <2>6. RequestOk(q)'
    BY <1>3, <1>2, <1>8, RequestStays DEF AttemptsAge, Ages, KeepClaims, redis
  <2>7. RequestOk(p)'
    BY <1>1, <2>2, <2>4, <2>5, <2>6 DEF RequestOk, Answering, Handling
  <2> QED BY <1>3, <1>6, <1>8, <1>9, <1>10, <2>1, <2>5, <2>7, RowsStep
<1>13. CASE ~(fresh \/ FinalizedAlike(q))
  <2>1. Become(r, withdrawing)
    BY <1>13 DEF FinalizeGrant
  <2>2. withdrawing = [x EXCEPT !.pc = "withdraw", !.replay = "none"]
    OBVIOUS
  <2> HIDE DEF withdrawing, fresh
  <2> PICK p : p = withdrawing
    OBVIOUS
  <2>3. /\ p \in RequestType /\ p.pc = "withdraw" /\ p.att = q.att
        /\ p.generation = q.generation /\ p.replay = "none"
    BY <1>11, <2>2 DEF RequestType, Handling, Answers
  <2>4. RequestOk(p)'
    BY <1>1, <1>2, <1>8, <2>3, Carefree
  <2> QED BY <1>3, <1>6, <1>8, <1>9, <1>10, <2>1, <2>3, <2>4, RowsStep
<1> QED BY <1>12, <1>13

\* The response that is stored is what the grant was finalized with.
LEMMA CommitResponseStep ==
    ASSUME IInv, NEW r \in Requests, CommitResponse(r)
    PROVE  IInv'
<1> PICK q : q = requests[r]
  OBVIOUS
<1> DEFINE answer == IF q.replay # "none" THEN q.replay ELSE q.result
           agreed == /\ GrantCurrent(q.att) /\ grants[q.att].status \in {"active", "released"}
                     /\ responses[q.att] \in {"none", answer}
           next == IF q.owner THEN "disclose" ELSE "respond"
           answering == [q EXCEPT !.pc = next, !.result = answer, !.replay = "none"]
           leaving == [q EXCEPT !.pc = IF q.owner THEN "giveUp" ELSE "done"]
<1>1. q.pc = "commit" /\ q.pc \in Handling
  BY DEF CommitResponse, At, Handling
<1>2. /\ q \in RequestType /\ RequestOk(q) /\ q.att \in Attempts /\ Answering(q)
      /\ authority[q.att].result = q.result /\ q.result # "none"
      /\ q.replay # "none" => responses[q.att] = q.replay
  BY <1>1, RequestFacts DEF RequestOk, Answering
<1>3. /\ UNCHANGED <<ledgerVars, bindings, authority>> /\ KeepClaims
      /\ UNCHANGED <<ghosts, told, breaks>>
  BY DEF CommitResponse, KeepRest
<1>4. GrantOk(q.att)
  BY <1>2 DEF IInv, GrantsInv
<1>5. answer = q.result
  BY <1>2, <1>4 DEF GrantOk
<1>6. responses' = IF agreed THEN [responses EXCEPT ![q.att] = answer] ELSE responses
  BY DEF CommitResponse
<1>7. responses' = IF agreed THEN [responses EXCEPT ![q.att] = q.result] ELSE responses
  BY <1>5, <1>6
<1>8. agreed => responses[q.att] \in {"none", q.result}
  BY <1>5
<1>9. IF agreed THEN Become(r, answering) ELSE Become(r, leaving)
  BY DEF CommitResponse
<1>10. q.result \in Answers
  BY <1>2 DEF RequestType
<1>11. answering = [q EXCEPT !.pc = next, !.result = q.result, !.replay = "none"]
  BY <1>5
<1> HIDE DEF agreed, answer, answering
<1>12. /\ responses \in [Attempts -> Answers] /\ responses' \in [Attempts -> Answers]
       /\ \A b \in Attempts : responses[b] # "none" => responses'[b] = responses[b]
       /\ \A b \in Attempts : responses'[b] # responses[b] =>
             b = q.att /\ responses'[b] = q.result /\ responses[b] = "none"
       /\ agreed => responses'[q.att] = q.result
  BY <1>2, <1>7, <1>8, <1>10 DEF IInv, TypeOK, HandlingType
<1>13. RowsStay
  BY <1>3, <1>12 DEF RowsStay, ledgerVars
<1>14. GrantsInv'
  <2>1. UNCHANGED <<attempts, grants, bindings, authority, told>>
    BY <1>3 DEF KeepClaims, redis, ledgerVars
  <2>2. ASSUME NEW b \in Attempts PROVE GrantOk(b)'
    <3>1. GrantOk(b) /\ told[b] \subseteq Results /\ "none" \notin Results
      BY DEF IInv, TypeOK, HandlingType, GrantsInv, Results
    <3> QED BY <1>2, <1>12, <2>1, <3>1 DEF GrantOk, Disclosed, Abandoning
  <2> QED BY <2>2 DEF GrantsInv
<1>15. /\ LedgerType' /\ bindings' \in [Attempts -> Nat]
       /\ authority' \in [Attempts -> [result : Answers, superseded : Attempts \cup {None}]]
       /\ told' \in [Attempts -> SUBSET Results] /\ breaks' \in Nat
  BY <1>3 DEF IInv, TypeOK, HandlingType, LedgerType, ledgerVars
<1>16. AttemptsAge
  BY <1>3 DEF AttemptsAge, Ages, KeepClaims, redis
<1>17. CASE agreed
  <2>1. next \in {"disclose", "respond"} /\ (next = "disclose" <=> q.owner)
    BY <1>2 DEF RequestType
  <2>2. next \in {"idle", "done"} \cup Handling
    BY <2>1 DEF Handling
  <2>3. "none" \in Answers
    BY DEF Answers
  <2> HIDE DEF next
  <2>4. /\ answering \in RequestType /\ answering.pc = next /\ answering.att = q.att
        /\ answering.generation = q.generation /\ answering.replay = "none"
        /\ answering.owner = q.owner /\ answering.result = q.result
    BY <1>2, <1>10, <1>11, <2>2, <2>3 DEF RequestType
  <2> PICK p : p = answering
    OBVIOUS
  <2>5. RequestOk(q)'
    BY <1>2, <1>12, <1>13, <1>16, RequestStays
  <2>6. responses'[q.att] = q.result
    BY <1>12, <1>17
  <2>7. p.pc = "respond" /\ p.result = "claimed" => Disclosed(p.att)'
    BY <1>1, <2>5, <2>1, <2>4 DEF RequestOk, Answering, Disclosed
  <2>8. p.pc = "disclose" => p.result = "claimed"
    BY <1>2, <2>1, <2>4 DEF Answering
  <2>9. RequestOk(p)'
    BY <1>1, <1>2, <2>1, <2>4, <2>5, <2>6, <2>7, <2>8 DEF RequestOk, Handling
  <2>10. Become(r, p)
    BY <1>9, <1>17
  <2> QED BY <1>3, <1>12, <1>13, <1>14, <1>15, <2>4, <2>9, <2>10, RowsStep
<1>18. CASE ~agreed
  <2> PICK p : p = leaving
    OBVIOUS
  <2>1. p = [q EXCEPT !.pc = "giveUp"] \/ p = [q EXCEPT !.pc = "done"]
    OBVIOUS
  <2>2. p \in RequestType /\ RequestOk(p)'
    BY <1>1, <1>2, <1>13, <2>1, LetsGo
  <2>3. Become(r, p)
    BY <1>9, <1>18
  <2> QED BY <1>3, <1>12, <1>13, <1>14, <1>15, <2>2, <2>3, RowsStep
<1> QED BY <1>17, <1>18

\* What a player is told is the response that is stored.
LEMMA RespondStep ==
    ASSUME IInv, NEW r \in Requests, Respond(r)
    PROVE  IInv'
<1> PICK q : q = requests[r]
  OBVIOUS
<1>1. q.pc = "respond" /\ q.pc \in Handling
  BY DEF Respond, At, Handling
<1>2. /\ q \in RequestType /\ RequestOk(q) /\ q.att \in Attempts
      /\ q.result # "none" /\ responses[q.att] = q.result
      /\ q.result = "claimed" => Disclosed(q.att)
  BY <1>1, RequestFacts DEF RequestOk
<1>3. KeepLedger /\ KeepClaims /\ UNCHANGED <<ghosts, breaks>>
  BY DEF Respond
<1>4. RowsStay /\ SameRows
  BY <1>3, KeptRows
<1>5. Scripted
  BY <1>3, <1>4, RedisStays DEF IInv, TypeOK, KeepClaims
<1>6. CASE /\ told' = [told EXCEPT ![q.att] = @ \cup {q.result}]
           /\ Finish(r)
  <2>1. q.result \in Results /\ told \in [Attempts -> SUBSET Results]
    BY <1>2 DEF RequestType, Answers, IInv, TypeOK, HandlingType
  <2>2. /\ told' \in [Attempts -> SUBSET Results]
        /\ \A b \in Attempts : told'[b] \subseteq told[b] \cup (IF b = q.att THEN {q.result}
                                                                 ELSE {})
    BY <1>2, <1>6, <2>1
  <2>3. GrantsInv'
    <3>1. UNCHANGED <<attempts, grants, bindings, authority, responses>>
      BY <1>3 DEF KeepClaims, redis, KeepLedger, ledgerVars
    <3>2. ASSUME NEW b \in Attempts PROVE GrantOk(b)'
      BY <1>2, <2>2, <3>1 DEF IInv, GrantsInv, GrantOk, Disclosed, Abandoning
    <3> QED BY <3>2 DEF GrantsInv
  <2>4. /\ LedgerType' /\ bindings' \in [Attempts -> Nat]
        /\ authority' \in [Attempts -> [result : Answers, superseded : Attempts \cup {None}]]
        /\ responses' \in [Attempts -> Answers] /\ breaks' \in Nat
    BY <1>3 DEF IInv, TypeOK, HandlingType, LedgerType, ledgerVars, KeepLedger
  <2> QED BY <1>3, <1>4, <1>6, <2>2, <2>3, <2>4, Passing, RowsStep DEF Finish
<1>7. CASE Goto(r, IF q.owner THEN "giveUp" ELSE "done") /\ UNCHANGED told
  BY <1>1, <1>3, <1>5, <1>7, GoesOn
<1> QED BY <1>6, <1>7 DEF Respond

-----------------------------------------------------------------------------
(* The theorems.                                                             *)

LEMMA InitIInv ==
    ASSUME Init
    PROVE  IInv
<1>1. LedgerType
  BY DEF Init, LedgerInit, LedgerType, NoGrant, NoSession, GrantType, Attempts
<1>2. RedisType
  BY DEF Init, ClaimsInit, RedisType, NoAttempt, AttemptType, NoClaim, ClaimType, Answers, Device
<1>3. HandlingType
  BY DEF Idle, RequestType, NoGhost, GhostType, Answers, NoSource, Init, HandlingType
<1>4. RedisInv
  BY DEF Init, ClaimsInit, RedisInv, AttemptsInv, AttemptOk, NoAttempt, ClaimInv, NoClaim
<1>5. GrantsInv
  BY DEF Init, LedgerInit, ClaimsInit, GrantsInv, GrantOk, NoGrant, NoSource, Attempts
<1>6. RequestsInv
  BY DEF Init, Idle, RequestOk, Handling, RequestsInv
<1>7. GhostsInv
  BY DEF Init, GhostsInv, GhostOk, NoGhost
<1> QED BY <1>1, <1>2, <1>3, <1>4, <1>5, <1>6, <1>7 DEF IInv, TypeOK

LEMMA NextIInv ==
    ASSUME IInv, [Next]_vars
    PROVE  IInv'
<1>1. ASSUME NEW r \in Requests, Step(r) PROVE IInv'
  BY <1>1, BeginClaimStep, RunClaimStep, FreeStep, ReadActiveStep, FinalizeGrantStep,
     WithdrawStep, RecheckStep, CommitResponseStep, DiscloseClaimStep, RespondStep,
     GiveUpStep, RevokeGrantStep DEF Step
<1>2. ASSUME NEW r \in Requests,
             \/ \E a \in Attempts : ReserveGrant(r, a)
             \/ Abort(r) \/ Crash(r)
             \/ \E found \in {"claimed"} \cup Negative : GhostArrives(r, found)
      PROVE  IInv'
  BY <1>2, ReserveGrantStep, AbortStep, CrashStep, GhostArrivesStep
<1>3. CASE Revoke \/ FenceRevoked \/ Environment
  BY <1>3, RevokeStep, EnvironmentStep
<1>4. CASE UNCHANGED vars
  BY <1>4, RedisStays, ScriptAside DEF vars, ledgerVars, handling, RowsStay, IInv, TypeOK
<1> QED BY <1>1, <1>2, <1>3, <1>4 DEF Next

\* The inductive invariant.
THEOREM Invariance == Spec => []IInv
BY InitIInv, NextIInv, PTL DEF Spec

\* Every value stays in its domain, whatever a request, a late script or a crash does
\* (claim-bound-history-service.js).
THEOREM TypeCorrect == Spec => []TypeOK
<1>1. IInv => TypeOK
  BY DEF IInv
<1> QED BY <1>1, Invariance, PTL

\* A grant that was told of as claimed is not taken away.
LEMMA ToldIsKeptHolds ==
    ASSUME IInv
    PROVE  ToldIsKept
<1> SUFFICES ASSUME NEW a \in Attempts, "claimed" \in told[a]
             PROVE  /\ told[a] = {"claimed"}
                    /\ claim.attempt = a => ~claim.released
                    /\ BindingCurrent(a) =>
                          grants[a].status \in {"active", "released", "superseded"}
  BY DEF ToldIsKept
<1>1. /\ \A t \in told[a] : t = responses[a]
      /\ Disclosed(a)
  BY DEF IInv, GrantsInv, GrantOk
<1>2. responses[a] = "claimed" /\ authority[a].result = "claimed"
  BY <1>1 DEF IInv, GrantsInv, GrantOk
<1>3. grants[a].status \notin {"none", "reserved", "revoked"}
  BY <1>1, <1>2 DEF IInv, GrantsInv, GrantOk, Disclosed, Abandoning
<1>4. grants[a].status \in {"active", "released", "superseded"}
  BY <1>3 DEF IInv, TypeOK, LedgerType, GrantType
<1>5. claim.attempt = a => ~claim.released
  BY <1>1, NoneIsNoAttempt DEF IInv, RedisInv, ClaimInv, ClaimOk, Disclosed
<1> QED BY <1>1, <1>2, <1>4, <1>5

\* What the stores keep of a claim agrees.
LEMMA ClaimsAgree ==
    ASSUME IInv
    PROVE  DisclosedIsGranted /\ UndisclosedIsListed /\ ClaimIsCurrent
<1>1. ASSUME NEW a \in Attempts, Holds(a)
      PROVE  ClaimOk(claim, attempts[a])
  BY <1>1, NoneIsNoAttempt DEF Holds, IInv, RedisInv, ClaimInv
<1>2. DisclosedIsGranted
  BY <1>1 DEF DisclosedIsGranted, ClaimOk, Holds
<1>3. UndisclosedIsListed
  <2> SUFFICES ASSUME NEW a \in Attempts, Holds(a), attempts[a].state # "disclosed"
               PROVE  attempts[a].listed
    BY DEF UndisclosedIsListed
  <2>1. attempts[a].state \in {"none", "pending", "disclosed", "abandoned"}
    BY DEF IInv, TypeOK, RedisType, AttemptType
  <2>2. attempts[a].state = "pending"
    BY <1>1, <2>1 DEF ClaimOk, Holds
  <2> QED BY <2>2 DEF IInv, RedisInv, AttemptsInv, AttemptOk
<1>4. ClaimIsCurrent
  BY DEF ClaimIsCurrent, IInv, RedisInv, ClaimInv, ClaimOk
<1> QED BY <1>2, <1>3, <1>4

\* What a player was told of its claim stands, what it was not told of is found by
\* the reconciliation, and the claim that stands is of the profile and the device as
\* they are (claim-bound-history-service.js, claim-v6.lua, get-active-claim.lua).
THEOREM ToldStandsCorrect == Spec => []ToldStands
<1>1. IInv => ToldStands
  BY ToldIsKeptHolds, ClaimsAgree DEF ToldStands
<1> QED BY <1>1, Invariance, PTL

-----------------------------------------------------------------------------
(***************************************************************************)
(* The store of the subtitle objects.                                      *)
(*                                                                         *)
(* Versions are only added and only marked as gone (Grows), so that what a *)
(* put was told of them stays true.  A scan that has met none of the       *)
(* versions that it answers for has the ones that are left before it: they *)
(* are below its mark and of a key that it has still to list.              *)
(***************************************************************************)
VersionType ==
    [key : Objects!KeySet, body : Bodies \cup {Marker}, attempt : Nat, present : BOOLEAN]
PutRequest == [key : Objects!KeySet, body : Bodies, attempt : Nat]
PutType == [op : {"put"}, pc : {"sent", "reconcile"}, request : PutRequest]
DeletionType ==
    [op : {"delete", "version", "purge"}, pc : {"list", "absent", "remove"},
     keys : Seq(Objects!KeySet), version : Nat, round : Nat, scans : {0, 1},
     rest : Seq(Objects!KeySet), below : Nat, targets : SUBSET Nat, failed : BOOLEAN,
     answersFor : SUBSET Nat]

ObjectsTypeOK ==
    /\ versions \in Seq(VersionType)
    /\ flying \subseteq PutRequest
    /\ calls \in [Callers -> {Objects!NoCall} \cup PutType \cup DeletionType]
    /\ begun \in Nat
    /\ answered \subseteq [request : PutRequest, version : Nat]

Versions == 1..Len(versions)

\* What a scan has still to meet.
Ahead(all, d, i) ==
    i < d.below /\ \E j \in 1..Len(d.rest) : d.rest[j] = all[i].key

DeletionOk(all, d) ==
    /\ d.answersFor \subseteq 1..Len(all)
    /\ d.keys # <<>>
    /\ d.pc = "list" =>
          /\ d.rest # <<>>
          /\ d.targets = {} => \A i \in d.answersFor : all[i].present => Ahead(all, d, i)
    /\ d.pc = "absent" => \A i \in d.answersFor : ~all[i].present
    /\ d.op = "version" =>
          /\ d.version \in 1..Len(all) /\ d.answersFor = {d.version}
          /\ d.keys = <<all[d.version].key>>
          /\ d.pc = "list" => d.rest = d.keys

DeletionsOk == \A c \in Callers : calls[c] \in DeletionType => DeletionOk(versions, calls[c])

AnsweredOk ==
    \A t \in answered :
        /\ \E i \in Versions :
              versions[i].key = t.request.key /\ versions[i].body = t.request.body
        /\ t.version # 0 =>
              /\ t.version \in Versions
              /\ versions[t.version].key = t.request.key
              /\ versions[t.version].attempt = t.request.attempt

GoneOk == \A i \in gone : i \in Versions /\ ~versions[i].present

ObjectsInv ==
    /\ ObjectsTypeOK
    /\ DeletionsOk
    /\ AnsweredOk
    /\ GoneOk

LEMMA ObjectsInit == Objects!Init => ObjectsInv
BY DEF Objects!Init, Objects!NoCall, DeletionType, ObjectsInv, ObjectsTypeOK, DeletionsOk,
       AnsweredOk, GoneOk

\* A set of numbers up to a bound has a greatest and a least one.
LEMMA GreatestOf ==
    ASSUME NEW n \in Nat, NEW S, S \subseteq 1..n, S # {}
    PROVE  \E m \in S : \A j \in S : j <= m
<1> DEFINE Above(i) == {j \in S : j > i}
           Family == {Above(i) : i \in S}
<1>1. IsFiniteSet(S)
  <2>1. IsFiniteSet(1..n)
    BY FS_Interval
  <2> QED BY <2>1, FS_Subset
<1>2. IsWellFoundedOn(StrictSubsetOrdering(S), SUBSET S)
  BY <1>1, FS_StrictSubsetOrderingWellFounded, FS_FiniteSubsetsOfFinite
<1>3. PICK least \in Family : \A other \in Family : ~(<<other, least>> \in StrictSubsetOrdering(S))
  <2>1. Family \subseteq SUBSET S /\ Family # {}
    OBVIOUS
  <2> HIDE DEF Family
  <2> QED BY <1>2, <2>1, WFMin
<1>4. PICK m \in S : least = Above(m)
  OBVIOUS
<1>5. ASSUME NEW j \in S, ~(j <= m) PROVE FALSE
  <2>0. S \subseteq Nat
    OBVIOUS
  <2>1. \A i : Above(i) \subseteq S /\ \A k : k \in Above(i) <=> k \in S /\ k > i
    OBVIOUS
  <2>2. Above(j) \in Family /\ Above(m) \subseteq S
    OBVIOUS
  <2> HIDE DEF Above, Family
  <2>3. j \in Above(m) /\ j \notin Above(j) /\ \A k : k \in Above(j) => k \in Above(m)
    <3>1. j \in Nat /\ m \in Nat /\ j > m /\ ~(j > j)
      BY <1>5, <2>0
    <3>2. \A k \in S : k > j => k > m
      BY <2>0, <3>1
    <3> QED BY <2>1, <3>1, <3>2
  <2>4. <<Above(j), Above(m)>> \in StrictSubsetOrdering(S)
    BY <2>1, <2>3 DEF StrictSubsetOrdering
  <2> QED BY <1>3, <1>4, <2>2, <2>4
<1> QED BY <1>5

LEMMA LeastOf ==
    ASSUME NEW n \in Nat, NEW S, S \subseteq 1..n, S # {}
    PROVE  \E m \in S : \A j \in S : m <= j
<1> DEFINE T == {n + 1 - i : i \in S}
<1>1. PICK m \in T : \A j \in T : j <= m
  <2>1. T \subseteq 1..n /\ T # {}
    OBVIOUS
  <2> HIDE DEF T
  <2> QED BY <2>1, GreatestOf
<1>2. PICK i \in S : m = n + 1 - i
  OBVIOUS
<1>3. \A j \in S : n + 1 - j <= m
  BY <1>1
<1> QED BY <1>2, <1>3

LEMMA NewestIn ==
    ASSUME NEW n \in Nat, NEW S, S \subseteq 1..n, S # {}
    PROVE  Objects!Newest(S) \in S /\ \A j \in S : j <= Objects!Newest(S)
BY GreatestOf DEF Objects!Newest

\* What a request for a key finds is of that key.
LEMMA LiveIs ==
    ASSUME ObjectsTypeOK, NEW k, Objects!Live(k) # 0
    PROVE  Objects!Live(k) \in Versions /\ versions[Objects!Live(k)].key = k
<1>1. Objects!Present(k) # {} /\ Objects!Live(k) = Objects!Newest(Objects!Present(k))
  BY DEF Objects!Live
<1>2. Objects!Present(k) \subseteq Versions /\ Len(versions) \in Nat
  BY DEF Objects!Present, Versions, ObjectsTypeOK
<1>3. Objects!Live(k) \in Objects!Present(k)
  BY <1>1, <1>2, NewestIn DEF Versions
<1> QED BY <1>2, <1>3 DEF Objects!Present

-----------------------------------------------------------------------------
Grows ==
    /\ versions' \in Seq(VersionType)
    /\ Len(versions) <= Len(versions')
    /\ \A i \in Versions :
          /\ versions'[i].key = versions[i].key /\ versions'[i].body = versions[i].body
          /\ versions'[i].attempt = versions[i].attempt
          /\ versions'[i].present => versions[i].present

LEMMA Rests ==
    ASSUME ObjectsTypeOK, versions' = versions
    PROVE  Grows
BY DEF ObjectsTypeOK, Grows, Versions

LEMMA VersionAdded ==
    ASSUME ObjectsTypeOK, NEW k \in Objects!KeySet, NEW body \in Bodies \cup {Marker},
           NEW attempt \in Nat, Objects!Add(k, body, attempt)
    PROVE  /\ Grows
           /\ Len(versions') = Len(versions) + 1
           /\ versions'[Len(versions) + 1] =
                 [key |-> k, body |-> body, attempt |-> attempt, present |-> TRUE]
<1> DEFINE new == [key |-> k, body |-> body, attempt |-> attempt, present |-> TRUE]
<1>1. versions' = Append(versions, new)
  BY DEF Objects!Add
<1>2. new \in VersionType
  BY DEF VersionType
<1> HIDE DEF new
<1>3. /\ versions' \in Seq(VersionType) /\ Len(versions') = Len(versions) + 1
      /\ versions'[Len(versions) + 1] = new
      /\ \A i \in 1..Len(versions) : versions'[i] = versions[i]
  BY <1>1, <1>2 DEF ObjectsTypeOK
<1>4. Len(versions) \in Nat
  BY DEF ObjectsTypeOK
<1> QED BY <1>3, <1>4 DEF Grows, Versions, new

LEMMA VersionRemoved ==
    ASSUME ObjectsTypeOK, NEW i, versions' = [versions EXCEPT ![i].present = FALSE]
    PROVE  Grows
<1>1. CASE i \in Versions
  <2>1. versions[i] \in VersionType
    BY <1>1 DEF ObjectsTypeOK, Versions
  <2>2. [versions[i] EXCEPT !.present = FALSE] \in VersionType
    BY <2>1 DEF VersionType
  <2>3. versions' = [versions EXCEPT ![i] = [versions[i] EXCEPT !.present = FALSE]]
    OBVIOUS
  <2>4. /\ versions' \in Seq(VersionType) /\ Len(versions') = Len(versions)
        /\ \A j \in 1..Len(versions) :
              versions'[j] = IF j = i THEN [versions[i] EXCEPT !.present = FALSE] ELSE versions[j]
    BY <1>1, <2>2, <2>3, ExceptSeq DEF ObjectsTypeOK, Versions
  <2>5. Len(versions) \in Nat
    BY DEF ObjectsTypeOK
  <2> QED BY <2>1, <2>4, <2>5 DEF Grows, Versions, VersionType
<1>2. CASE i \notin Versions
  BY LenProperties, <1>2, Rests DEF ObjectsTypeOK, Versions
<1> QED BY <1>1, <1>2

LEMMA Longer ==
    ASSUME ObjectsTypeOK, Grows
    PROVE  Len(versions) \in Nat /\ Len(versions') \in Nat /\ Versions \subseteq Versions'
BY DEF ObjectsTypeOK, Grows, Versions

LEMMA DeletionStays ==
    ASSUME ObjectsTypeOK, Grows, NEW d \in DeletionType, DeletionOk(versions, d)
    PROVE  DeletionOk(versions', d)
BY Longer DEF DeletionOk, Versions, Ahead, Grows

LEMMA AnsweredStays ==
    ASSUME ObjectsInv, Grows, answered' = answered
    PROVE  AnsweredOk'
BY Longer DEF AnsweredOk, ObjectsInv, Grows

LEMMA GoneStays ==
    ASSUME ObjectsInv, Grows, gone' = gone
    PROVE  GoneOk'
BY Longer DEF ObjectsInv, GoneOk, Grows

\* A call goes on; the others stay as they are.
LEMMA CallMoves ==
    ASSUME ObjectsInv, Grows, NEW c \in Callers, NEW new,
           calls' = [calls EXCEPT ![c] = new],
           new \in {Objects!NoCall} \cup PutType \cup DeletionType,
           new \in DeletionType => DeletionOk(versions', new)
    PROVE  /\ calls' \in [Callers -> {Objects!NoCall} \cup PutType \cup DeletionType]
           /\ DeletionsOk'
<1>1. /\ calls' \in [Callers -> {Objects!NoCall} \cup PutType \cup DeletionType]
      /\ calls'[c] = new /\ \A i \in Callers : i # c => calls'[i] = calls[i]
  BY DEF ObjectsInv, ObjectsTypeOK
<1>2. ASSUME NEW i \in Callers, calls'[i] \in DeletionType PROVE DeletionOk(versions', calls'[i])
  <2>1. CASE i = c
    BY <1>1, <1>2, <2>1
  <2>2. CASE i # c
    <3>1. calls'[i] = calls[i]
      BY <1>1, <2>2
    <3> DEFINE d == calls[i]
    <3>2. d \in DeletionType /\ DeletionOk(versions, d)
      BY <1>2, <3>1 DEF ObjectsInv, DeletionsOk
    <3> HIDE DEF d
    <3>3. DeletionOk(versions', d)
      BY <3>2, DeletionStays DEF ObjectsInv
    <3> QED BY <3>1, <3>3 DEF d
  <2> QED BY <2>1, <2>2
<1> QED BY <1>1, <1>2 DEF DeletionsOk

-----------------------------------------------------------------------------
CallTypes == {Objects!NoCall} \cup PutType \cup DeletionType
AnswerType == [request : PutRequest, version : Nat]

LEMMA SameCardinality == \A S : Objects!Cardinality(S) = Cardinality(S)
BY DEF Objects!Cardinality, Cardinality

LEMMA ObjectsNow ==
    ASSUME Grows, flying' \subseteq PutRequest, calls' \in [Callers -> CallTypes],
           DeletionsOk', begun' \in Nat, answered' \subseteq AnswerType, AnsweredOk', GoneOk'
    PROVE  ObjectsInv'
BY DEF ObjectsInv, ObjectsTypeOK, Grows, CallTypes, AnswerType

\* The three kinds of calls are told apart by where they are.
LEMMA CallKinds ==
    /\ Objects!NoCall \notin PutType \cup DeletionType
    /\ \A new \in PutType : new \notin DeletionType
BY DEF Objects!NoCall, PutType, DeletionType

LEMMA KindOf ==
    ASSUME ObjectsTypeOK, NEW c \in Callers, NEW pc, Objects!At(c, pc)
    PROVE  /\ pc \in {"sent", "reconcile"} => calls[c] \in PutType
           /\ pc \in {"list", "absent", "remove"} => calls[c] \in DeletionType
BY DEF ObjectsTypeOK, Objects!At, PutType, DeletionType

LEMMA CallEnds ==
    ASSUME ObjectsInv, Grows, NEW c \in Callers, Objects!Ends(c)
    PROVE  calls' \in [Callers -> CallTypes] /\ DeletionsOk'
BY CallMoves, CallKinds DEF Objects!Ends, CallTypes

LEMMA CallsRest ==
    ASSUME ObjectsInv, Grows, calls' = calls
    PROVE  calls' \in [Callers -> CallTypes] /\ DeletionsOk'
<1>1. calls' \in [Callers -> CallTypes]
  BY DEF ObjectsInv, ObjectsTypeOK, CallTypes
<1>2. ASSUME NEW c \in Callers, calls[c] \in DeletionType PROVE DeletionOk(versions', calls[c])
  <2> DEFINE d == calls[c]
  <2>1. d \in DeletionType /\ DeletionOk(versions, d)
    BY <1>2 DEF ObjectsInv, DeletionsOk
  <2> HIDE DEF d
  <2>2. DeletionOk(versions', d)
    BY <2>1, DeletionStays DEF ObjectsInv
  <2>3. d' = d
    BY DEF d
  <2> QED BY <2>2, <2>3 DEF d
<1> QED BY <1>1, <1>2 DEF DeletionsOk

LEMMA FailStep ==
    ASSUME ObjectsInv, NEW c \in Callers, Objects!Fail(c)
    PROVE  ObjectsInv'
BY Rests, CallEnds, AnsweredStays, GoneStays, ObjectsNow
   DEF Objects!Fail, Objects!Throw, ObjectsInv, ObjectsTypeOK, AnswerType

LEMMA PutStep ==
    ASSUME ObjectsInv, NEW c \in Callers, NEW k \in Objects!KeySet, NEW body \in Bodies,
           Objects!Put(c, k, body)
    PROVE  ObjectsInv'
<1> DEFINE request == [key |-> k, body |-> body, attempt |-> begun + 1]
           new == [op |-> "put", pc |-> "sent", request |-> request]
<1>1. /\ begun' = begun + 1 /\ calls' = [calls EXCEPT ![c] = new]
      /\ flying' = flying \cup {request} /\ UNCHANGED <<versions, answered, gone>>
  BY DEF Objects!Put
<1>2. Grows
  BY <1>1, Rests DEF ObjectsInv
<1>3. begun' \in Nat /\ request \in PutRequest /\ new \in PutType
  BY <1>1 DEF ObjectsInv, ObjectsTypeOK, PutRequest, PutType
<1> HIDE DEF request, new
<1>4. calls' \in [Callers -> CallTypes] /\ DeletionsOk'
  BY <1>1, <1>2, <1>3, CallKinds, CallMoves DEF CallTypes
<1> QED
  BY <1>1, <1>2, <1>3, <1>4, AnsweredStays, GoneStays, ObjectsNow
  DEF ObjectsInv, ObjectsTypeOK, AnswerType

LEMMA ToReconcile ==
    ASSUME ObjectsInv, Grows, NEW c \in Callers, Objects!At(c, "sent"),
           Objects!To(c, "reconcile")
    PROVE  calls' \in [Callers -> CallTypes] /\ DeletionsOk'
<1> DEFINE new == [calls[c] EXCEPT !.pc = "reconcile"]
<1>1. new \in PutType
  BY KindOf DEF ObjectsInv, PutType
<1>2. calls' = [calls EXCEPT ![c] = new]
  BY DEF Objects!To
<1> HIDE DEF new
<1> QED BY <1>1, <1>2, CallKinds, CallMoves DEF CallTypes

\* A put that is told has added its version, or has found it.
LEMMA ToldStep ==
    ASSUME ObjectsInv, Grows, NEW request \in PutRequest, NEW version \in Nat,
           Objects!Told(request, version), NEW i \in Versions',
           versions'[i].key = request.key, versions'[i].body = request.body,
           version # 0 => version = i /\ versions'[i].attempt = request.attempt
    PROVE  answered' \subseteq AnswerType /\ AnsweredOk'
<1> DEFINE t == [request |-> request, version |-> version]
<1>1. answered' = answered \cup {t}
  BY DEF Objects!Told
<1>2. answered' \subseteq AnswerType
  BY <1>1 DEF AnswerType, ObjectsInv, ObjectsTypeOK
<1> DEFINE Stands(a) ==
             /\ \E j \in Versions' : /\ versions'[j].key = a.request.key
                                     /\ versions'[j].body = a.request.body
             /\ a.version # 0 =>
                   /\ a.version \in Versions'
                   /\ versions'[a.version].key = a.request.key
                   /\ versions'[a.version].attempt = a.request.attempt
<1>3. ASSUME NEW a \in answered PROVE Stands(a)
  BY Longer DEF ObjectsInv, AnsweredOk, Grows
<1>4. Stands(t)
  OBVIOUS
<1> HIDE DEF Stands, t
<1>5. \A a \in answered' : Stands(a)
  BY <1>1, <1>3, <1>4
<1> QED BY <1>2, <1>5 DEF AnsweredOk, Stands

LEMMA ArriveStep ==
    ASSUME ObjectsInv, NEW request \in flying, Objects!Arrive(request)
    PROVE  ObjectsInv'
<1> DEFINE free == Objects!Live(request.key) = 0
<1>1. request \in PutRequest /\ flying' \subseteq PutRequest /\ UNCHANGED <<begun, gone>>
  BY DEF ObjectsInv, ObjectsTypeOK, Objects!Arrive
<1>2. CASE free
  <2>1. Objects!Add(request.key, request.body, request.attempt)
    BY <1>2 DEF Objects!Arrive
  <2>2. /\ Grows /\ Len(versions') = Len(versions) + 1 /\ Len(versions) \in Nat
        /\ versions'[Len(versions) + 1] =
              [key |-> request.key, body |-> request.body, attempt |-> request.attempt,
               present |-> TRUE]
    BY <1>1, <2>1, VersionAdded DEF ObjectsInv, ObjectsTypeOK, PutRequest
  <2>3. calls' \in [Callers -> CallTypes] /\ DeletionsOk'
    BY <1>2, <2>2, CallEnds, ToReconcile, CallsRest DEF Objects!Arrive, Objects!Waits
  <2>4. answered' \subseteq AnswerType /\ AnsweredOk'
    BY <2>2, <1>1, ToldStep, AnsweredStays, <1>2
       DEF Versions, ObjectsInv, ObjectsTypeOK, AnswerType, Objects!Arrive
  <2> QED
    BY <1>1, <2>2, <2>3, <2>4, GoneStays, ObjectsNow DEF ObjectsInv, ObjectsTypeOK
<1>3. CASE ~free
  <2>1. versions' = versions /\ answered' = answered
    BY <1>3 DEF Objects!Arrive
  <2>2. Grows
    BY <2>1, Rests DEF ObjectsInv
  <2>3. calls' \in [Callers -> CallTypes] /\ DeletionsOk'
    BY <1>3, <2>2, ToReconcile, CallsRest DEF Objects!Arrive, Objects!Waits
  <2> QED
    BY <1>1, <2>1, <2>2, <2>3, AnsweredStays, GoneStays, ObjectsNow
    DEF ObjectsInv, ObjectsTypeOK, AnswerType
<1> QED BY <1>2, <1>3

LEMMA VanishStep ==
    ASSUME ObjectsInv, NEW request \in flying, Objects!Vanish(request)
    PROVE  ObjectsInv'
BY Rests, CallsRest, AnsweredStays, GoneStays, ObjectsNow
   DEF Objects!Vanish, ObjectsInv, ObjectsTypeOK, AnswerType

LEMMA TimeOutStep ==
    ASSUME ObjectsInv, NEW c \in Callers, Objects!TimeOut(c)
    PROVE  ObjectsInv'
BY Rests, ToReconcile, AnsweredStays, GoneStays, ObjectsNow
   DEF Objects!TimeOut, ObjectsInv, ObjectsTypeOK, AnswerType

LEMMA ReconcileStep ==
    ASSUME ObjectsInv, NEW c \in Callers, Objects!Reconcile(c)
    PROVE  ObjectsInv'
<1> DEFINE request == calls[c].request
           found == Objects!Live(request.key)
<1>1. /\ Objects!At(c, "reconcile") /\ Objects!Ends(c)
      /\ UNCHANGED <<versions, flying, begun, gone>>
  BY DEF Objects!Reconcile
<1>2. Grows
  BY <1>1, Rests DEF ObjectsInv
<1>3. request \in PutRequest
  BY <1>1, KindOf DEF ObjectsInv, PutType
<1>4. answered' \subseteq AnswerType /\ AnsweredOk'
  <2>1. CASE found # 0 /\ versions[found].body = request.body
    <3>1. found \in Versions /\ versions[found].key = request.key
      BY <2>1, LiveIs DEF ObjectsInv
    <3>2. Objects!Told(request, Objects!OwnVersion(found, request))
      BY <2>1 DEF Objects!Reconcile
    <3>3. found \in Nat /\ found \in Versions'
      BY <1>1, <3>1 DEF Versions
    <3>4. /\ Objects!OwnVersion(found, request) \in Nat
          /\ Objects!OwnVersion(found, request) # 0 =>
                /\ Objects!OwnVersion(found, request) = found
                /\ versions[found].attempt = request.attempt
      BY <3>3 DEF Objects!OwnVersion
    <3> HIDE DEF found, request
    <3> QED BY <1>1, <1>2, <1>3, <2>1, <3>1, <3>2, <3>3, <3>4, ToldStep
  <2>2. CASE ~(found # 0 /\ versions[found].body = request.body)
    BY <2>2, <1>2, AnsweredStays DEF Objects!Reconcile, ObjectsInv, ObjectsTypeOK, AnswerType
  <2> QED BY <2>1, <2>2
<1> QED
  BY <1>1, <1>2, <1>4, CallEnds, GoneStays, ObjectsNow DEF ObjectsInv, ObjectsTypeOK

-----------------------------------------------------------------------------
\* A scan that begins has all that it answers for before it.
LEMMA ScanBegins ==
    ASSUME ObjectsInv, NEW call, call.op \in {"delete", "version", "purge"},
           call.keys \in Seq(Objects!KeySet), call.keys # <<>>, call.version \in Nat,
           call.op = "version" => /\ call.version \in Versions
                                  /\ call.keys = <<versions[call.version].key>>,
           NEW round \in Nat, NEW scans \in {0, 1}
    PROVE  /\ Objects!Scan(call, round, scans) \in DeletionType
           /\ DeletionOk(versions, Objects!Scan(call, round, scans))
<1> DEFINE d == Objects!Scan(call, round, scans)
           found == UNION {Objects!Present(call.keys[i]) : i \in 1..Len(call.keys)}
<1>1. /\ d.op = call.op /\ d.pc = "list" /\ d.keys = call.keys /\ d.version = call.version
      /\ d.round = round /\ d.scans = scans /\ d.rest = call.keys /\ d.below = Len(versions) + 1
      /\ d.targets = {} /\ d.failed = FALSE
      /\ d.answersFor = IF call.op = "version" THEN {call.version} ELSE found
  BY DEF Objects!Scan, Objects!Top
<1>2. Len(versions) \in Nat /\ Versions \subseteq Nat
  BY DEF ObjectsInv, ObjectsTypeOK, Versions
<1>3. \A i \in found : i \in Versions /\ \E j \in 1..Len(call.keys) : call.keys[j] = versions[i].key
  BY DEF Objects!Present, Versions
<1>4. d.answersFor \subseteq Versions
  BY <1>1, <1>3
<1>5. d \in DeletionType
  <2>1. d.answersFor \in SUBSET Nat
    BY <1>2, <1>4
  <2>2. d = [op |-> d.op, pc |-> d.pc, keys |-> d.keys, version |-> d.version, round |-> d.round,
             scans |-> d.scans, rest |-> d.rest, below |-> d.below, targets |-> d.targets,
             failed |-> d.failed, answersFor |-> d.answersFor]
    BY DEF Objects!Scan
  <2> HIDE DEF d, found
  <2>3. /\ d.op \in {"delete", "version", "purge"} /\ d.pc \in {"list", "absent", "remove"}
        /\ d.keys \in Seq(Objects!KeySet) /\ d.rest \in Seq(Objects!KeySet)
        /\ d.version \in Nat /\ d.round \in Nat /\ d.scans \in {0, 1} /\ d.below \in Nat
        /\ d.targets \in SUBSET Nat
    BY <1>1, <1>2
  <2>4. d.failed \in BOOLEAN
    BY <1>1
  <2> QED BY <2>1, <2>2, <2>3, <2>4 DEF DeletionType
<1>6. \A i \in d.answersFor : Ahead(versions, d, i)
  <2> SUFFICES ASSUME NEW i \in d.answersFor PROVE Ahead(versions, d, i)
    OBVIOUS
  <2> HIDE DEF d, found
  <2>1. i < d.below
    BY <1>1, <1>2, <1>4 DEF Versions
  <2>2. \E j \in 1..Len(d.rest) : d.rest[j] = versions[i].key
    BY <1>1, <1>3
  <2> QED BY <2>1, <2>2 DEF Ahead
<1> HIDE DEF d
<1>7. DeletionOk(versions, d)
  BY <1>1, <1>4, <1>6 DEF DeletionOk, Versions
<1> QED BY <1>5, <1>7 DEF d

LEMMA StartStep ==
    ASSUME ObjectsInv, NEW c \in Callers, NEW op \in {"delete", "version", "purge"},
           NEW keys \in Seq(Objects!KeySet), keys # <<>>, NEW version \in Nat,
           op = "version" => version \in Versions /\ keys = <<versions[version].key>>,
           Objects!StartDeletion(c, op, keys, version)
    PROVE  ObjectsInv'
<1> DEFINE call == [op |-> op, keys |-> keys, version |-> version]
           new == Objects!Scan(call, 1, 0)
<1>1. /\ begun' = begun + 1 /\ calls' = [calls EXCEPT ![c] = new]
      /\ UNCHANGED <<versions, flying, answered, gone>>
  BY DEF Objects!StartDeletion
<1>2. Grows
  BY <1>1, Rests DEF ObjectsInv
<1>3. /\ call.op = op /\ call.keys = keys /\ call.version = version
  OBVIOUS
<1> HIDE DEF call
<1>4. new \in DeletionType /\ DeletionOk(versions, new)
  BY <1>3, ScanBegins
<1> HIDE DEF new
<1>5. DeletionOk(versions', new)
  BY <1>2, <1>4, DeletionStays DEF ObjectsInv
<1>6. calls' \in [Callers -> CallTypes] /\ DeletionsOk'
  BY <1>1, <1>2, <1>4, <1>5, CallMoves DEF CallTypes
<1> QED
  BY <1>1, <1>2, <1>6, AnsweredStays, GoneStays, ObjectsNow
  DEF ObjectsInv, ObjectsTypeOK, AnswerType

LEMMA KeysOfStore ==
    /\ Prefixes \in Seq(Objects!KeySet) /\ Prefixes # <<>>
    /\ \A k \in Objects!KeySet : <<k>> \in Seq(Objects!KeySet) /\ <<k>> # <<>>
BY ObjectsAssumption, LenProperties DEF Objects!KeySet

LEMMA CallStarts ==
    ASSUME ObjectsInv, NEW c \in Callers,
           \/ \E k \in Objects!KeySet : Objects!Delete(c, k)
           \/ \E t \in answered : Objects!DeleteVersion(c, t)
           \/ Objects!PurgeNamespace(c)
    PROVE  ObjectsInv'
BY KeysOfStore, StartStep
   DEF Objects!Delete, ObjectsInv, ObjectsTypeOK, PutRequest, AnsweredOk, Objects!DeleteVersion,
       Objects!PurgeNamespace

-----------------------------------------------------------------------------
\* A page has the newest of what is left, and whatever it has not is older.
LEMMA PageIs ==
    ASSUME ObjectsInv, NEW d
    PROVE  /\ Objects!NextPage(d) \subseteq Objects!Left(d) /\ Objects!Left(d) \subseteq Versions
           /\ Objects!Left(d) # {} => Objects!NextPage(d) # {}
           /\ \A i \in Objects!Left(d) \ Objects!NextPage(d), j \in Objects!NextPage(d) : i < j
<1> DEFINE left == Objects!Left(d)
           page == Objects!NextPage(d)
           Above(i) == {j \in left : j > i}
<1>1. page \subseteq left /\ left \subseteq Versions /\ Len(versions) \in Nat
  BY DEF Objects!NextPage, Objects!Left, Objects!Present, Versions, ObjectsInv, ObjectsTypeOK
<1>2. \A i \in left : i \in page <=> Cardinality(Above(i)) < PageSize
  BY SameCardinality DEF Objects!NextPage
<1>3. IsFiniteSet(left)
  <2>1. IsFiniteSet(Versions)
    BY <1>1, FS_Interval DEF Versions
  <2> HIDE DEF left
  <2> QED BY <1>1, <2>1, FS_Subset
<1>4. ASSUME left # {} PROVE page # {}
  <2> HIDE DEF left, page
  <2>1. PICK m \in left : \A j \in left : j <= m
    BY <1>1, <1>4, GreatestOf DEF Versions
  <2>2. m \in Nat /\ \A j \in left : j \in Nat
    BY <1>1 DEF Versions
  <2>3. Above(m) = {}
    <3>1. \A j \in left : ~(j > m)
      BY <2>1, <2>2
    <3> QED BY <3>1
  <2>4. Cardinality(Above(m)) = 0
    BY <2>3, FS_EmptySet
  <2> HIDE DEF Above
  <2>5. 0 < PageSize
    BY ObjectsAssumption
  <2> QED BY <1>2, <2>4, <2>5
<1>5. ASSUME NEW i \in left \ page, NEW j \in page PROVE i < j
  <2> HIDE DEF left, page
  <2>1. i \in Nat /\ j \in Nat
    BY <1>1 DEF Versions
  <2>2. SUFFICES ASSUME j < i PROVE FALSE
    BY <2>1
  <2>3. Above(i) \subseteq Above(j)
    <3>1. \A k \in left : k \in Nat
      BY <1>1 DEF Versions
    <3>2. \A k \in left : k > i => k > j
      BY <2>1, <2>2, <3>1
    <3> QED BY <3>2
  <2>4. IsFiniteSet(Above(j))
    BY <1>3, FS_Subset
  <2> DEFINE a == Above(i)
             b == Above(j)
  <2> HIDE DEF a, b
  <2>5. Cardinality(a) \in Nat /\ Cardinality(b) \in Nat /\ Cardinality(a) <= Cardinality(b)
    BY <2>3, <2>4, FS_Subset, FS_CardinalityType DEF a, b
  <2>6. Cardinality(b) < PageSize /\ ~(Cardinality(a) < PageSize)
    BY <1>1, <1>2, <1>5 DEF a, b
  <2> QED BY <2>5, <2>6, ObjectsAssumption
<1> QED BY <1>1, <1>4, <1>5

LEMMA PageStep ==
    ASSUME ObjectsInv, NEW c \in Callers, Objects!Page(c)
    PROVE  ObjectsInv'
<1> DEFINE d == calls[c]
           page == Objects!NextPage(d)
           left == Objects!Left(d)
           targets == d.targets \cup IF d.op = "version" THEN page \cap {d.version} ELSE page
           truncated == page # left
           rest == IF truncated THEN d.rest ELSE Tail(d.rest)
           below == IF truncated THEN Objects!Oldest(page) ELSE Objects!Top
           pc == IF rest # <<>> THEN "list" ELSE IF targets = {} THEN "absent" ELSE "remove"
           new == [d EXCEPT !.targets = targets, !.rest = rest, !.below = below, !.pc = pc]
<1>1. /\ Objects!At(c, "list") /\ UNCHANGED <<versions, flying, begun, answered, gone>>
      /\ calls' = [calls EXCEPT ![c] = new]
  BY DEF Objects!Page
<1>2. Grows /\ Len(versions) \in Nat
  BY <1>1, Rests DEF ObjectsInv, ObjectsTypeOK
<1>3. d \in DeletionType /\ d.pc = "list" /\ DeletionOk(versions, d)
  BY <1>1, KindOf DEF ObjectsInv, DeletionsOk, Objects!At
<1>4. /\ page \subseteq left /\ left \subseteq Versions /\ (left # {} => page # {})
      /\ \A i \in left \ page, j \in page : i < j
  BY PageIs DEF ObjectsInv
<1>5. d.rest \in Seq(Objects!KeySet) /\ d.rest # <<>> /\ Len(d.rest) \in Nat
  BY <1>3 DEF DeletionType, DeletionOk
<1>6. /\ Tail(d.rest) \in Seq(Objects!KeySet) /\ Len(Tail(d.rest)) = Len(d.rest) - 1
      /\ \A i \in 1..Len(Tail(d.rest)) : Tail(d.rest)[i] = d.rest[i + 1]
      /\ Head(d.rest) = d.rest[1]
  BY <1>5, HeadTailProperties
<1>7. \A i : i \in left <=> /\ i \in Versions /\ versions[i].present
                            /\ versions[i].key = d.rest[1] /\ i < d.below
  BY <1>6 DEF Objects!Left, Objects!Present, Versions
<1>8. truncated => below \in page /\ \A j \in page : below <= j
  <2> SUFFICES ASSUME truncated PROVE below \in page /\ \A j \in page : below <= j
    OBVIOUS
  <2>1. page # {}
    BY <1>4
  <2>2. \E i \in page : \A j \in page : i <= j
    BY <1>2, <1>4, <2>1, LeastOf DEF Versions
  <2>3. below = Objects!Oldest(page)
    OBVIOUS
  <2> HIDE DEF below, page
  <2> QED BY <2>2, <2>3 DEF Objects!Oldest
<1>9. ~truncated => below = Len(versions) + 1
  BY DEF Objects!Top
<1>10. below \in Nat /\ targets \in SUBSET Nat
  <2>1. d.targets \in SUBSET Nat
    BY <1>3 DEF DeletionType
  <2>2. Versions \subseteq Nat
    BY DEF Versions
  <2> HIDE DEF below, page, left
  <2>3. below \in Nat
    <3>1. CASE truncated
      BY <1>4, <1>8, <2>2, <3>1
    <3>2. CASE ~truncated
      BY <1>2, <1>9, <3>2
    <3> QED BY <3>1, <3>2
  <2> QED BY <1>4, <2>1, <2>2, <2>3
<1>11. rest \in Seq(Objects!KeySet) /\ pc \in {"list", "absent", "remove"}
  BY <1>5, <1>6
<1> HIDE DEF page, left, below
<1>12. ASSUME targets = {}, NEW i \in d.answersFor, versions[i].present
       PROVE  i < below /\ \E j \in 1..Len(rest) : rest[j] = versions[i].key
  <2>1. d.targets = {}
    BY <1>12
  <2>2. Ahead(versions, d, i) /\ i \in Versions
    BY <1>3, <1>12, <2>1 DEF DeletionOk, Versions
  <2>3. d.op # "version" => page = {}
    BY <1>12
  <2>4. d.op = "version" => i = d.version /\ i \notin page /\ Len(d.rest) = 1
                            /\ d.rest[1] = versions[i].key
    <3> SUFFICES ASSUME d.op = "version"
                 PROVE  /\ i = d.version /\ i \notin page /\ Len(d.rest) = 1
                        /\ d.rest[1] = versions[i].key
      OBVIOUS
    <3>1. i = d.version /\ d.rest = <<versions[d.version].key>>
      BY <1>3, <1>12 DEF DeletionOk, Versions
    <3>2. i \notin page
      BY <1>12, <3>1
    <3> QED BY <3>1, <3>2
  <2>5. CASE truncated
    BY <1>4, <2>3, <2>5, <1>7, <1>12, <2>2, <2>4, <1>8 DEF Ahead
  <2>6. CASE ~truncated
    <3>1. i < below
      BY <1>2, <1>9, <2>2, <2>6 DEF Versions
    <3>2. i \notin left
      BY <2>3, <2>4, <2>6
    <3>3. versions[i].key # d.rest[1]
      BY <1>7, <1>12, <2>2, <3>2 DEF Ahead
    <3>4. PICK j \in 1..Len(d.rest) : d.rest[j] = versions[i].key
      BY <2>2 DEF Ahead
    <3>5. j - 1 \in 1..Len(Tail(d.rest)) /\ Tail(d.rest)[j - 1] = versions[i].key
      BY <1>5, <1>6, <3>3, <3>4
    <3> QED BY <2>6, <3>1, <3>5
  <2> QED BY <2>5, <2>6
<1>13. d.op = "version" /\ rest # <<>> => rest = d.rest
  <2> SUFFICES ASSUME d.op = "version" PROVE Tail(d.rest) = <<>>
    OBVIOUS
  <2>1. d.rest = <<versions[d.version].key>>
    BY <1>3 DEF DeletionOk, Versions
  <2> QED BY <2>1
<1> HIDE DEF rest, targets, pc, truncated
<1>14. /\ new.op = d.op /\ new.pc = pc /\ new.keys = d.keys /\ new.version = d.version
       /\ new.rest = rest /\ new.below = below /\ new.targets = targets
       /\ new.answersFor = d.answersFor
       /\ new \in DeletionType
  BY <1>3, <1>10, <1>11 DEF DeletionType
<1>15. /\ pc = "list" => rest # <<>>
       /\ pc = "absent" => rest = <<>> /\ targets = {}
  BY DEF pc
<1> HIDE DEF new
<1>16. DeletionOk(versions, new)
  <2>1. pc = "list" /\ targets = {} =>
           \A i \in new.answersFor : versions[i].present => Ahead(versions, new, i)
    BY <1>12, <1>14 DEF Ahead
  <2>2. pc = "absent" => \A i \in new.answersFor : ~versions[i].present
    BY <1>14, <1>12, <1>15
  <2> HIDE DEF d
  <2> QED BY <1>3, <1>13, <1>14, <1>15, <2>1, <2>2 DEF DeletionOk, Versions
<1>17. DeletionOk(versions', new)
  BY <1>2, <1>14, <1>16, DeletionStays DEF ObjectsInv
<1>18. calls' \in [Callers -> CallTypes] /\ DeletionsOk'
  BY <1>1, <1>2, <1>14, <1>17, CallMoves DEF CallTypes
<1> QED
  BY <1>1, <1>2, <1>18, AnsweredStays, GoneStays, ObjectsNow
  DEF ObjectsInv, ObjectsTypeOK, AnswerType

LEMMA RemoveStep ==
    ASSUME ObjectsInv, NEW c \in Callers, Objects!Remove(c)
    PROVE  ObjectsInv'
<1> DEFINE d == calls[c]
           target == Objects!Newest(d.targets)
           rest == d.targets \ {target}
<1>1. /\ Objects!At(c, "remove") /\ UNCHANGED <<flying, begun, answered, gone>>
      /\ \/ versions' = [versions EXCEPT ![target].present = FALSE]
         \/ versions' = versions
      /\ \/ calls' = [calls EXCEPT ![c] = [d EXCEPT !.targets = rest]]
         \/ calls' = [calls EXCEPT ![c] = [d EXCEPT !.targets = rest, !.failed = TRUE]]
  BY DEF Objects!Remove
<1>2. Grows
  BY <1>1, Rests, VersionRemoved DEF ObjectsInv
<1>3. d \in DeletionType /\ d.pc = "remove" /\ DeletionOk(versions, d)
  BY <1>1, KindOf DEF ObjectsInv, DeletionsOk, Objects!At
<1>4. PICK new : /\ calls' = [calls EXCEPT ![c] = new] /\ new \in DeletionType
                 /\ new.pc = d.pc /\ new.op = d.op /\ new.keys = d.keys
                 /\ new.version = d.version /\ new.answersFor = d.answersFor
  <2>1. rest \in SUBSET Nat
    BY <1>3 DEF DeletionType
  <2> HIDE DEF rest
  <2> DEFINE done == [d EXCEPT !.targets = rest]
             failed == [d EXCEPT !.targets = rest, !.failed = TRUE]
  <2>2. /\ done \in DeletionType
        /\ done.pc = d.pc /\ done.op = d.op /\ done.keys = d.keys
        /\ done.version = d.version /\ done.answersFor = d.answersFor
    BY <1>3, <2>1 DEF DeletionType
  <2>3. /\ failed \in DeletionType
        /\ failed.pc = d.pc /\ failed.op = d.op /\ failed.keys = d.keys
        /\ failed.version = d.version /\ failed.answersFor = d.answersFor
    BY <1>3, <2>1 DEF DeletionType
  <2>4. calls' = [calls EXCEPT ![c] = done] \/ calls' = [calls EXCEPT ![c] = failed]
    BY <1>1 DEF rest
  <2> HIDE DEF done, failed, d
  <2> QED BY <2>2, <2>3, <2>4
<1> HIDE DEF d
<1>5. DeletionOk(versions, new)
  BY <1>3, <1>4 DEF DeletionOk, Versions
<1>6. DeletionOk(versions', new)
  BY <1>2, <1>4, <1>5, DeletionStays DEF ObjectsInv
<1>7. calls' \in [Callers -> CallTypes] /\ DeletionsOk'
  BY <1>2, <1>4, <1>6, CallMoves DEF CallTypes
<1> QED
  BY <1>1, <1>2, <1>7, AnsweredStays, GoneStays, ObjectsNow
  DEF ObjectsInv, ObjectsTypeOK, AnswerType

LEMMA AgainMoves ==
    ASSUME ObjectsInv, NEW c \in Callers, NEW scans \in {0, 1}, calls[c] \in DeletionType,
           versions' = versions, Objects!Again(c, scans)
    PROVE  calls' \in [Callers -> CallTypes] /\ DeletionsOk'
<1> DEFINE d == calls[c]
           new == Objects!Scan(d, d.round + 1, scans)
<1>1. Grows
  BY Rests DEF ObjectsInv
<1>2. CASE d.round = MaxRounds
  BY <1>1, <1>2, CallEnds DEF Objects!Again
<1>3. CASE d.round # MaxRounds
  <2>1. calls' = [calls EXCEPT ![c] = new]
    BY <1>3 DEF Objects!Again
  <2>2. DeletionOk(versions, d) /\ d \in DeletionType
    BY DEF ObjectsInv, DeletionsOk
  <2> HIDE DEF d
  <2>3. new \in DeletionType /\ DeletionOk(versions, new)
    <3>1. /\ d.op \in {"delete", "version", "purge"} /\ d.keys \in Seq(Objects!KeySet)
          /\ d.version \in Nat /\ d.round + 1 \in Nat
      BY <2>2 DEF DeletionType
    <3>2. /\ d.keys # <<>>
          /\ d.op = "version" => /\ d.version \in Versions
                                 /\ d.keys = <<versions[d.version].key>>
      BY <2>2 DEF DeletionOk, Versions
    <3> QED BY <3>1, <3>2, ScanBegins
  <2> HIDE DEF new
  <2>4. DeletionOk(versions', new)
    BY <1>1, <2>3, DeletionStays DEF ObjectsInv
  <2> QED BY <1>1, <2>1, <2>3, <2>4, CallMoves DEF CallTypes
<1> QED BY <1>2, <1>3

LEMMA RemovedStep ==
    ASSUME ObjectsInv, NEW c \in Callers, Objects!Removed(c)
    PROVE  ObjectsInv'
<1>1. /\ Objects!At(c, "remove") /\ UNCHANGED <<versions, flying, begun, answered, gone>>
      /\ Objects!Ends(c) \/ Objects!Again(c, 0)
  BY DEF Objects!Removed
<1>2. Grows /\ calls[c] \in DeletionType
  BY <1>1, Rests, KindOf DEF ObjectsInv
<1>3. calls' \in [Callers -> CallTypes] /\ DeletionsOk'
  BY <1>1, <1>2, CallEnds, AgainMoves
<1> QED
  BY <1>1, <1>2, <1>3, AnsweredStays, GoneStays, ObjectsNow
  DEF ObjectsInv, ObjectsTypeOK, AnswerType

LEMMA AbsentStep ==
    ASSUME ObjectsInv, NEW c \in Callers, Objects!Absent(c)
    PROVE  ObjectsInv'
<1>1. /\ Objects!At(c, "absent") /\ UNCHANGED <<versions, flying, begun, answered>>
      /\ \/ Objects!Ends(c) /\ UNCHANGED gone
         \/ Objects!Answer(c)
         \/ Objects!Again(c, 1) /\ UNCHANGED gone
  BY DEF Objects!Absent
<1>2. Grows /\ calls[c] \in DeletionType
  BY <1>1, Rests, KindOf DEF ObjectsInv
<1>3. calls' \in [Callers -> CallTypes] /\ DeletionsOk'
  BY <1>1, <1>2, CallEnds, AgainMoves DEF Objects!Answer
<1>4. GoneOk'
  <2>1. CASE UNCHANGED gone
    BY <1>2, <2>1, GoneStays
  <2>2. CASE gone' = gone \cup calls[c].answersFor
    BY <1>1, <1>2, <2>2 DEF ObjectsInv, DeletionsOk, Objects!At, DeletionOk, Versions, GoneOk
  <2> QED BY <1>1, <2>1, <2>2 DEF Objects!Answer
<1> QED
  BY <1>1, <1>2, <1>3, <1>4, AnsweredStays, ObjectsNow DEF ObjectsInv, ObjectsTypeOK, AnswerType

LEMMA HideStep ==
    ASSUME ObjectsInv, NEW k \in Objects!KeySet, Objects!Hide(k)
    PROVE  ObjectsInv'
BY VersionAdded, CallsRest, AnsweredStays, GoneStays, ObjectsNow
   DEF Objects!Hide, ObjectsInv, ObjectsTypeOK, AnswerType

LEMMA ObjectsNext == ObjectsInv /\ Objects!Next => ObjectsInv'
<1> SUFFICES ASSUME ObjectsInv, Objects!Next PROVE ObjectsInv'
  OBVIOUS
<1>1. ASSUME NEW c \in Callers, Objects!Call(c) PROVE ObjectsInv'
  BY <1>1, PutStep, CallStarts, TimeOutStep, ReconcileStep, PageStep, RemoveStep, RemovedStep,
     AbsentStep, FailStep DEF Objects!Call
<1> QED BY <1>1, ArriveStep, VanishStep, HideStep DEF Objects!Next

LEMMA ObjectsRest == ObjectsInv /\ UNCHANGED ObjectsVars => ObjectsInv'
BY Rests, CallsRest, AnsweredStays, GoneStays, ObjectsNow
   DEF ObjectsVars, ObjectsInv, ObjectsTypeOK, AnswerType

\* A put answers its own version, and what a deletion answers to be gone is gone, for any
\* callers and pages, whatever requests fail, are lost or come late
\* (subtitle-object-store.js).
THEOREM ObjectsHoldCorrect == AllSpec => []ObjectsHold
<1> DEFINE Inv == part = "objects" => ObjectsInv
<1>1. AllInit => Inv
  BY ObjectsInit DEF AllInit
<1>2. Inv /\ [AllNext]_<<part, vars, ObjectsVars, ServerVars>> => Inv'
  BY ObjectsNext, ObjectsRest DEF AllNext, ClaimsMoves, ObjectsMoves, ServerMoves
<1>3. Inv => ObjectsHold
  BY DEF ObjectsInv, AnsweredOk, GoneOk, ObjectsHold, Objects!PutAnswersTrue, Objects!ErasedIsGone,
         Versions
<1> QED BY <1>1, <1>2, <1>3, PTL DEF AllSpec

-----------------------------------------------------------------------------
(***************************************************************************)
(* The life of a server.                                                   *)
(*                                                                         *)
(* Ready is true because a runtime that is ready has all its resources     *)
(* open: the start has opened them one by one (StorageStands), and they    *)
(* are closed only after it stopped being ready.  What is not closed yet   *)
(* is still to be closed (ClosingStands).  A shutdown passes the cleanup,  *)
(* the start and the worker in this order, and none of them comes back     *)
(* (ProcessStands).  A task that proves the erasure has purged what was    *)
(* there before it writes (AttestationStands).                             *)
(***************************************************************************)
ResourceType == [state : {"absent", "open", "forced", "closed"}, heard : BOOLEAN]

AttestationType ==
    [fresh : BOOLEAN, task : {"none", "purge", "write", "delete", "recover"},
     canaries : Nat, landed : Nat, flying : Nat]

StorageType ==
    [state : {"none", "starting", "ready", "failing", "failed", "closing", "closed"},
     step : Nat, errors : SUBSET Server!Stores]

ProcessType ==
    [http : {"up", "down"}, cleanup : BOOLEAN, worker : {"on", "off"},
     stopping : {"no", "http", "cleanup", "start", "worker", "close", "ended"},
     hung : SUBSET {"request", "cleanup", "pass"}, outcome : {"none", "clean", "failed"}]

CheckState == {"idle", "durable", "ttl", "objects", "attesting", "closing"}

ServerTypeOK ==
    /\ storage \in StorageType
    /\ resources \in [Server!Stores -> ResourceType]
    /\ closing \subseteq Server!Stores
    /\ checks \in [Readiness -> CheckState]
    /\ attestation \in AttestationType
    /\ process \in ProcessType

StorageStands ==
    /\ storage.state = "none" => \A k \in Server!Stores : resources[k] = Server!Absent
    /\ storage.state = "starting" =>
          /\ storage.step \in 1..8
          /\ resources["postgres"] = IF storage.step > 1 THEN Server!Open ELSE Server!Absent
          /\ resources["s3"] = IF storage.step > 5 THEN Server!Open ELSE Server!Absent
          /\ resources["redis"] = IF storage.step > 6 THEN Server!Open ELSE Server!Absent
    /\ storage.state = "ready" => Server!AllOpen

\* What is not to be closed any more has no listener, and is open only when
\* closing it has failed.
ClosingStands ==
    /\ closing # {} => storage.state \in {"failing", "closing"}
    /\ storage.state \in {"failing", "closing", "failed", "closed"} =>
          \A k \in Server!Stores \ closing :
             ~resources[k].heard /\ (resources[k].state = "open" => k \in storage.errors)

ProcessStands ==
    /\ process.stopping \in {"start", "worker", "close", "ended"} => ~process.cleanup
    /\ process.worker = "on" => storage.state \in {"ready", "closing", "closed"}
    /\ process.stopping = "worker" => storage.state \in {"ready", "closing", "closed"}
    /\ process.stopping = "close" => storage.state \in {"closing", "closed"}
    /\ process.stopping \in {"close", "ended"} => process.worker = "off"
    /\ process.stopping = "ended" => storage.state \in {"none", "failed", "closed"}
    /\ process.outcome = "clean" => storage.state = "closed" /\ storage.errors = {}

\* While a run of the attestation is at its write, every canary in the store has
\* landed since it began; at its deletion, every one but its own.
ProofStands(a) ==
    /\ storage.state \in {"none", "starting"} =>
          a.task = "none" /\ a.canaries = 0 /\ a.landed = 0 /\ a.flying = 0
    /\ a.task # "none" => ~a.fresh
    /\ a.task = "write" => a.canaries = a.landed
    /\ a.task = "delete" => a.canaries = a.landed + 1
    /\ a.fresh => a.canaries = a.landed

AttestationStands ==
    /\ ProofStands(attestation)
    /\ storage.state \notin {"ready", "closing", "closed"} =>
          \A c \in Readiness : checks[c] = "idle"

ServerInv ==
    /\ ServerTypeOK
    /\ StorageStands
    /\ ClosingStands
    /\ ProcessStands
    /\ AttestationStands
    /\ misled = {}

LEMMA ServerInit == Server!Init => ServerInv
BY DEF StorageType, ProcessType, CheckState, Server!Init, ServerInv, ServerTypeOK, StorageStands,
       ClosingStands, ProcessStands,
       AttestationStands, AttestationType, ProofStands, ResourceType, Server!Stores, Server!Absent

\* The runtime begins to close, the start fails: whatever is there is to be closed.
LEMMA Closes ==
    ASSUME ServerInv
    PROVE  /\ Server!Owned \subseteq Server!Stores
           /\ storage.state \in {"starting", "ready"} =>
                 \A k \in Server!Stores \ Server!Owned :
                    resources[k].state # "open" /\ ~resources[k].heard
<1>1. \A k \in Server!Stores : storage.state \in {"starting", "ready"} /\ k \notin Server!Owned =>
          resources[k] = Server!Absent
  BY DEF ServerInv, StorageStands, Server!Owned, Server!Stores, Server!Open, Server!AllOpen
<1> QED BY <1>1 DEF Server!Owned, Server!Absent

LEMMA StartSteps ==
    ASSUME ServerInv, Server!Start
    PROVE  ServerInv'
<1>1. CASE Server!EnsureStorageReady
  <2>1. /\ storage.state = "none" /\ storage'.state = "starting" /\ storage'.step = 1
        /\ storage'.errors = storage.errors /\ storage' \in StorageType
        /\ process.stopping = "no"
        /\ UNCHANGED <<resources, closing, checks, attestation, process, misled>>
    BY <1>1 DEF Server!EnsureStorageReady, ServerInv, ServerTypeOK, StorageType
  <2>2. StorageStands'
    BY <2>1 DEF ServerInv, StorageStands, Server!Stores
  <2> QED
    BY <2>1, <2>2
    DEF ServerInv, ServerTypeOK, ClosingStands, ProcessStands, AttestationStands, ProofStands
<1>2. ASSUME NEW k \in Server!Stores, NEW name, Server!OpenResource(k, name),
             \/ k = "postgres" /\ name = "openPostgres"
             \/ k = "s3" /\ name = "openS3"
             \/ k = "redis" /\ name = "openRedis"
      PROVE  ServerInv'
  <2>1. /\ storage.state = "starting" /\ storage.step \in 1..8
        /\ UNCHANGED <<checks, attestation, process, misled>>
        /\ k = "postgres" => storage.step = 1
        /\ k = "s3" => storage.step = 5
        /\ k = "redis" => storage.step = 6
    BY <1>2 DEF Server!OpenResource, Server!StepIs, Server!StartSteps, ServerInv, StorageStands
  <2>2. CASE /\ resources' = [resources EXCEPT ![k] = Server!Open] /\ Server!Advance
             /\ UNCHANGED closing
    <3>1. /\ Server!Open \in ResourceType /\ storage.step + 1 \in 2..8
          /\ storage.step + 1 \in Nat /\ (storage.step + 1 > 1)
          /\ storage.step + 1 > 5 <=> storage.step > 5 \/ k = "s3"
          /\ storage.step + 1 > 6 <=> storage.step > 6 \/ k = "redis"
          /\ k # "postgres" => storage.step > 1
      BY <2>1, <1>2 DEF Server!Open, ResourceType
    <3>2. /\ resources' \in [Server!Stores -> ResourceType] /\ resources'[k] = Server!Open
          /\ \A j \in Server!Stores : j # k => resources'[j] = resources[j]
      BY <1>2, <2>2, <3>1 DEF ServerInv, ServerTypeOK, StorageType, ProcessType, CheckState
    <3>3. /\ storage'.state = "starting" /\ storage'.step = storage.step + 1
          /\ storage' \in StorageType
      BY <2>1, <2>2, <3>1 DEF Server!Advance, ServerInv, ServerTypeOK, StorageType, ProcessType,
                              CheckState
    <3>4. StorageStands'
      BY <1>2, <2>1, <3>1, <3>2, <3>3 DEF ServerInv, StorageStands, Server!Stores
    <3> QED
      BY <2>1, <2>2, <3>2, <3>3, <3>4
      DEF ServerInv, ServerTypeOK, StorageType, ProcessType, CheckState, ClosingStands,
          ProcessStands, AttestationStands, AttestationType, ProofStands
  <2>3. CASE UNCHANGED resources /\ Server!Abandon
    BY <2>1, <2>3, Closes
    DEF Server!Abandon, ServerInv, ServerTypeOK, StorageType, ProcessType, CheckState,
        StorageStands, ClosingStands, ProcessStands,
        AttestationStands, AttestationType, ProofStands
  <2> QED BY <1>2, <2>2, <2>3 DEF Server!OpenResource
<1>3. ASSUME NEW name \in {"probe", "migrate", "attestMode", "connect"}, NEW force \in BOOLEAN,
             Server!BoundedStep(name, force)
      PROVE  ServerInv'
  <2>1. /\ storage.state = "starting" /\ storage.step \in {2, 3, 4, 7}
        /\ UNCHANGED <<checks, attestation, process, misled>>
    BY <1>3 DEF Server!BoundedStep, Server!StepIs, Server!StartSteps, ServerInv, StorageStands
  <2>2. CASE Server!Advance /\ UNCHANGED <<resources, closing>>
    BY <2>1, <2>2
    DEF Server!Advance, ServerInv, ServerTypeOK, StorageType, ProcessType, CheckState,
        StorageStands, ClosingStands, ProcessStands,
        AttestationStands, AttestationType, ProofStands
  <2>3. CASE UNCHANGED resources /\ Server!Abandon
    BY <2>1, <2>3, Closes
    DEF Server!Abandon, ServerInv, ServerTypeOK, StorageType, ProcessType, CheckState,
        StorageStands, ClosingStands, ProcessStands,
        AttestationStands, AttestationType, ProofStands
  <2>4. CASE /\ resources' = [resources EXCEPT !["postgres"].state = "forced"]
             /\ Server!Abandon
    <3>1. \A k \in Server!Stores :
              /\ resources'[k] \in ResourceType /\ resources'[k].heard = resources[k].heard
              /\ resources'[k].state # "open" \/ resources'[k].state = resources[k].state
      BY <2>4 DEF ServerInv, ServerTypeOK, StorageType, ProcessType, CheckState, ResourceType,
                  Server!Stores
    <3>2. resources' \in [Server!Stores -> ResourceType]
      BY <2>4, <3>1 DEF ServerInv, ServerTypeOK, StorageType, ProcessType, CheckState
    <3> QED
      BY <2>1, <2>4, <3>1, <3>2, Closes
      DEF Server!Abandon, ServerInv, ServerTypeOK, StorageType, ProcessType, CheckState,
          StorageStands, ClosingStands, ProcessStands,
          AttestationStands, AttestationType, ProofStands
  <2> QED BY <1>3, <2>2, <2>3, <2>4 DEF Server!BoundedStep
<1>4. CASE Server!FirstReadiness
  <2>1. /\ storage.state = "starting" /\ storage.step = 8
        /\ UNCHANGED <<resources, checks, misled>>
    BY <1>4 DEF Server!FirstReadiness, Server!StepIs, Server!StartSteps, ServerInv, StorageStands
  <2>2. CASE /\ storage' = [storage EXCEPT !.state = "ready"]
             /\ process' = [process EXCEPT !.worker = "on"]
             /\ attestation' = [attestation EXCEPT !.fresh = TRUE]
             /\ UNCHANGED closing
    <3>1. \A k \in Server!Stores : resources[k].state = "open"
      BY <2>1 DEF ServerInv, StorageStands, Server!Stores, Server!Open
    <3>2. /\ storage' \in StorageType
          /\ storage'.state = "ready"
      BY <2>2 DEF ServerInv, ServerTypeOK, StorageType, ProcessType, CheckState
    <3>3. StorageStands' /\ ClosingStands'
      BY <2>1, <2>2, <3>1, <3>2 DEF ServerInv, StorageStands, ClosingStands, Server!AllOpen
    <3> QED
      BY <2>1, <2>2, <3>2, <3>3 DEF ServerInv, ServerTypeOK, StorageType, ProcessType, CheckState,
                                    ProcessStands, AttestationStands, AttestationType, ProofStands
  <2>3. CASE Server!Abandon /\ UNCHANGED <<process, attestation>>
    BY <2>1, <2>3, Closes
    DEF Server!Abandon, ServerInv, ServerTypeOK, StorageType, ProcessType, CheckState,
        StorageStands, ClosingStands, ProcessStands,
        AttestationStands, AttestationType, ProofStands
  <2> QED BY <1>4, <2>2, <2>3 DEF Server!FirstReadiness
<1> QED
  BY <1>1, <1>2, <1>3, <1>4
  DEF Server!Start, Server!OpenPostgres, Server!OpenS3, Server!OpenRedis, Server!ProbePostgres,
      Server!Migrate, Server!AttestMode, Server!ConnectRedis, Server!Stores

LEMMA CloseSteps ==
    ASSUME ServerInv, Server!CloseResource \/ Server!Closed
    PROVE  ServerInv'
<1>1. CASE Server!CloseResource
  <2>1. PICK k \in closing, state \in {"absent", "open", "closed", "forced"} :
            /\ resources' = [resources EXCEPT ![k] = [state |-> state, heard |-> FALSE]]
            /\ \/ UNCHANGED storage /\ state # "open"
               \/ storage' = [storage EXCEPT !.errors = @ \cup {k}]
            /\ closing' = closing \ {k} /\ UNCHANGED <<checks, attestation, process, misled>>
    BY <1>1 DEF Server!CloseResource, ServerInv, ServerTypeOK, ResourceType
  <2>2. /\ k \in Server!Stores /\ resources' \in [Server!Stores -> ResourceType]
        /\ resources'[k].state = state /\ ~resources'[k].heard
        /\ \A j \in Server!Stores : j # k => resources'[j] = resources[j]
    BY <2>1 DEF ServerInv, ServerTypeOK, ResourceType
  <2>3. /\ storage.state \in {"failing", "closing"} /\ storage'.state = storage.state
        /\ storage' \in StorageType /\ storage.errors \subseteq storage'.errors
        /\ state = "open" => k \in storage'.errors
    BY <2>1 DEF ServerInv, ServerTypeOK, StorageType, ClosingStands
  <2>4. ClosingStands'
    BY <2>1, <2>2, <2>3 DEF ServerInv, ClosingStands
  <2> QED
    BY <2>1, <2>2, <2>3, <2>4
    DEF ServerInv, ServerTypeOK, StorageStands, ProcessStands, AttestationStands, AttestationType,
        ProofStands
<1>2. CASE Server!Closed
  <2>1. /\ storage' \in StorageType /\ storage'.errors = storage.errors
        /\ storage.state = "closing" => storage'.state = "closed"
        /\ storage.state = "failing" => storage'.state = "failed"
        /\ storage.state \in {"closing", "failing"}
        /\ UNCHANGED <<resources, closing, attestation, misled>>
    BY <1>2 DEF Server!Closed, ServerInv, ServerTypeOK, StorageType
  <2>2. /\ checks' \in [Readiness -> CheckState]
        /\ \A c \in Readiness : checks[c] = "idle" => checks'[c] = "idle"
    BY <1>2 DEF Server!Closed, ServerInv, ServerTypeOK, CheckState
  <2>3. process' \in ProcessType /\ ProcessStands'
    BY <1>2, <2>1 DEF Server!Closed, ServerInv, ServerTypeOK, ProcessType, ProcessStands
  <2>4. AttestationStands'
    BY <2>1, <2>2 DEF ServerInv, AttestationStands, ProofStands
  <2>5. StorageStands' /\ ClosingStands'
    <3>1. storage'.state \in {"closed", "failed"} /\ closing = {}
      BY <1>2, <2>1 DEF Server!Closed
    <3> QED BY <2>1, <3>1 DEF ServerInv, StorageStands, ClosingStands
  <2> QED BY <2>1, <2>2, <2>3, <2>4, <2>5 DEF ServerInv, ServerTypeOK
<1> QED BY <1>1, <1>2

\* What a check may do: answer, go on, wait for the proof, or close the runtime.
LEMMA Checked ==
    ASSUME ServerInv, NEW c \in Readiness, checks[c] # "idle",
           NEW next \in {"idle", "ttl", "objects", "attesting", "closing"},
           checks' = [checks EXCEPT ![c] = next], misled' = misled,
           UNCHANGED <<storage, closing>> \/ (storage.state = "ready" /\ Server!CloseRuntime),
           UNCHANGED <<resources, attestation, process>>
    PROVE  ServerInv'
<1>1. checks' \in [Readiness -> CheckState]
  BY DEF ServerInv, ServerTypeOK, StorageType, ProcessType, CheckState
<1>2. storage.state \in {"ready", "closing", "closed"}
  BY DEF ServerInv, ServerTypeOK, StorageType, ProcessType, CheckState, AttestationStands,
         AttestationType, ProofStands
<1>3. CASE UNCHANGED <<storage, closing>>
  BY <1>1, <1>2, <1>3
  DEF ServerInv, ServerTypeOK, StorageType, ProcessType, CheckState, StorageStands, ClosingStands,
      ProcessStands, AttestationStands, AttestationType, ProofStands,
      Server!AllOpen
<1>4. CASE storage.state = "ready" /\ Server!CloseRuntime
  BY <1>1, <1>4, Closes
  DEF ServerInv, ServerTypeOK, StorageType, ProcessType, CheckState, StorageStands, ClosingStands,
      ProcessStands, AttestationStands, AttestationType, ProofStands,
      Server!CloseRuntime
<1> QED BY <1>3, <1>4

LEMMA CheckSteps ==
    ASSUME ServerInv, NEW c \in Readiness, Server!Check(c)
    PROVE  ServerInv'
<1>1. storage.state = "ready" => Server!AllOpen
  BY DEF ServerInv, StorageStands
<1>2. CASE Server!AskReady(c)
  BY <1>2
  DEF Server!AskReady, ServerInv, ServerTypeOK, StorageType, ProcessType, CheckState,
      StorageStands, ClosingStands, ProcessStands,
      AttestationStands, AttestationType, ProofStands, Server!AllOpen
<1>3. ASSUME checks[c] # "idle", UNCHANGED <<resources, attestation, process>>,
             \/ /\ \E next \in {"ttl", "objects", "done"} : Server!Passed(c, next)
                /\ UNCHANGED <<storage, closing>>
             \/ \E k \in Server!Stores : Server!Refused(c, k)
             \/ Server!Failed(c)
      PROVE  ServerInv'
  <2>1. /\ \E next \in {"idle", "ttl", "objects", "attesting", "closing"} :
              checks' = [checks EXCEPT ![c] = next]
        /\ misled' = misled
        /\ UNCHANGED <<storage, closing>> \/ (storage.state = "ready" /\ Server!CloseRuntime)
    BY <1>1, <1>3
    DEF Server!Passed, Server!Refused, Server!Failed, Server!Ready, Server!NotReady
  <2> QED BY <1>3, <2>1, Checked
<1>4. CASE Server!CheckDurable(c)
  BY <1>3, <1>4 DEF Server!CheckDurable, Server!Stores
<1>5. CASE Server!CheckTtl(c)
  BY <1>3, <1>5 DEF Server!CheckTtl, Server!Stores
<1>6. CASE Server!AttestTimesOut(c)
  BY <1>3, <1>6 DEF Server!AttestTimesOut
<1>7. CASE Server!CheckObjects(c)
  <2>1. CASE /\ ~attestation.fresh /\ checks' = [checks EXCEPT ![c] = "attesting"]
             /\ UNCHANGED misled
             /\ attestation' = IF attestation.task # "none" THEN attestation
                               ELSE [attestation EXCEPT !.task = "purge", !.landed = 0]
             /\ UNCHANGED <<storage, closing>>
    <3>1. storage.state \in {"ready", "closing", "closed"}
      BY <1>7 DEF Server!CheckObjects, ServerInv, ServerTypeOK, StorageType, ProcessType,
                  CheckState, AttestationStands, AttestationType, ProofStands
    <3>2. attestation' \in AttestationType /\ ProofStands(attestation')
      BY <2>1, <3>1 DEF ServerInv, ServerTypeOK, AttestationStands, AttestationType, ProofStands
    <3>3. UNCHANGED <<storage, resources, closing, process, misled>>
      BY <1>7, <2>1 DEF Server!CheckObjects
    <3>4. checks' \in [Readiness -> CheckState]
      BY <2>1 DEF ServerInv, ServerTypeOK, CheckState
    <3>5. AttestationStands'
      BY <3>1, <3>2, <3>3 DEF AttestationStands, ProofStands
    <3> QED
      BY <3>1, <3>2, <3>3, <3>4, <3>5
      DEF ServerInv, ServerTypeOK, StorageStands, ClosingStands, ProcessStands, Server!AllOpen
  <2>2. CASE /\ UNCHANGED attestation
             /\ \/ Server!Passed(c, "done") /\ UNCHANGED <<storage, closing>>
                \/ Server!Refused(c, "s3") \/ Server!Failed(c)
    BY <1>3, <1>7, <2>2 DEF Server!CheckObjects, Server!Stores
  <2> QED BY <1>7, <2>1, <2>2 DEF Server!CheckObjects
<1> QED BY <1>2, <1>4, <1>5, <1>6, <1>7 DEF Server!Check

\* The task goes on; or it ends, and what waits for it does; or a canary lands.
LEMMA AttestSteps ==
    ASSUME ServerInv, Server!Attest \/ Server!LandCanary \/ Server!BecomeStale
    PROVE  ServerInv'
<1>1. /\ UNCHANGED <<storage, resources, closing, process>> /\ misled' = {}
      /\ checks' = checks \/ checks' = [c \in Readiness |-> IF c \in Server!Waiting THEN "idle"
                                                          ELSE checks[c]]
  BY DEF Server!Attest, Server!BecomeStale, Server!AttestPurge, Server!AttestWrite,
         Server!AttestDelete, Server!AttestRecover, Server!LandCanary, Server!Settle, ServerInv,
         StorageStands
<1>2. /\ checks' \in [Readiness -> CheckState]
      /\ \A c \in Readiness : checks[c] = "idle" => checks'[c] = "idle"
  BY <1>1 DEF ServerInv, ServerTypeOK, CheckState
<1>3. attestation \in AttestationType /\ ProofStands(attestation)
  BY DEF ServerInv, ServerTypeOK, AttestationStands
<1>4. attestation' \in AttestationType /\ ProofStands(attestation')
  <2>0. PICK more \in Nat, late \in Nat, sent \in Nat :
            /\ more = attestation.canaries + 1 /\ late = attestation.landed + 1
            /\ sent = attestation.flying + 1
    BY <1>3 DEF AttestationType
  <2>1. CASE Server!AttestPurge
    <3>1. attestation.task = "purge"
      BY <2>1 DEF Server!AttestPurge
    <3>2. CASE attestation' = [attestation EXCEPT !.canaries = 0, !.landed = 0, !.task = "write"]
      BY <1>3, <3>1, <3>2 DEF AttestationType, ProofStands
    <3>3. CASE attestation' = [attestation EXCEPT !.task = "none"]
      BY <1>3, <3>1, <3>3 DEF AttestationType, ProofStands
    <3> QED BY <2>1, <3>2, <3>3 DEF Server!AttestPurge
  <2>2. CASE Server!AttestWrite
    <3>1. attestation.task = "write" /\ attestation.canaries = attestation.landed
      BY <1>3, <2>2 DEF Server!AttestWrite, ProofStands
    <3>2. CASE attestation' = [attestation EXCEPT !.canaries = more, !.task = "delete"]
      BY <1>3, <2>0, <3>1, <3>2 DEF AttestationType, ProofStands
    <3>3. CASE attestation' = [attestation EXCEPT !.task = "recover"]
      BY <1>3, <3>1, <3>3 DEF AttestationType, ProofStands
    <3>4. CASE attestation' = [attestation EXCEPT !.flying = sent, !.task = "recover"]
      BY <1>3, <2>0, <3>1, <3>4 DEF AttestationType, ProofStands
    <3>5. CASE attestation' = [attestation EXCEPT !.canaries = more, !.flying = sent,
                                                 !.task = "delete"]
      BY <1>3, <2>0, <3>1, <3>5 DEF AttestationType, ProofStands
    <3> QED BY <2>0, <2>2, <3>2, <3>3, <3>4, <3>5 DEF Server!AttestWrite
  <2>3. CASE Server!AttestDelete
    <3>1. /\ attestation.task = "delete" /\ attestation.landed \in Nat
          /\ attestation.canaries - 1 = attestation.landed
      BY <1>3, <2>3 DEF Server!AttestDelete, AttestationType, ProofStands
    <3>2. CASE attestation' = [attestation EXCEPT !.canaries = attestation.landed,
                                                 !.task = "none", !.fresh = TRUE]
      BY <1>3, <3>1, <3>2 DEF AttestationType, ProofStands
    <3>3. CASE attestation' = [attestation EXCEPT !.task = "recover"]
      BY <1>3, <3>1, <3>3 DEF AttestationType, ProofStands
    <3> QED BY <2>3, <3>1, <3>2, <3>3 DEF Server!AttestDelete
  <2>4. CASE Server!AttestRecover
    <3>1. attestation.task = "recover"
      BY <2>4 DEF Server!AttestRecover
    <3>2. CASE attestation' = [attestation EXCEPT !.canaries = 0, !.landed = 0, !.task = "none"]
      BY <1>3, <3>1, <3>2 DEF AttestationType, ProofStands
    <3>3. CASE attestation' = [attestation EXCEPT !.task = "none"]
      BY <1>3, <3>1, <3>3 DEF AttestationType, ProofStands
    <3> QED BY <2>4, <3>2, <3>3 DEF Server!AttestRecover
  <2>5. CASE Server!LandCanary
    <3>1. PICK left \in Nat : left = attestation.flying - 1
      BY <1>3, <2>5 DEF Server!LandCanary, AttestationType
    <3>2. /\ attestation.flying > 0
          /\ attestation' = [attestation EXCEPT !.canaries = more, !.landed = late, !.flying = left]
      BY <2>0, <2>5, <3>1 DEF Server!LandCanary
    <3>3. /\ attestation' \in AttestationType /\ attestation'.task = attestation.task
          /\ attestation'.fresh = attestation.fresh /\ attestation'.canaries = more
          /\ attestation'.landed = late
      BY <1>3, <2>0, <3>1, <3>2 DEF AttestationType
    <3>4. attestation.canaries \in Nat /\ attestation.landed \in Nat
      BY <1>3 DEF AttestationType
    <3>5. storage.state \notin {"none", "starting"}
      BY <1>3, <3>2 DEF ProofStands
    <3> QED BY <1>3, <2>0, <3>3, <3>4, <3>5 DEF ProofStands
  <2>6. CASE Server!BecomeStale
    BY <1>3, <2>6 DEF Server!BecomeStale, AttestationType, ProofStands
  <2> QED BY <2>1, <2>2, <2>3, <2>4, <2>5, <2>6 DEF Server!Attest
<1>5. AttestationStands'
  BY <1>1, <1>2, <1>4 DEF ServerInv, AttestationStands, ProofStands
<1> QED
  BY <1>1, <1>2, <1>4, <1>5
  DEF ServerInv, ServerTypeOK, StorageStands, ClosingStands, ProcessStands, Server!AllOpen

LEMMA ProcessSteps ==
    ASSUME ServerInv,
           \/ Server!StartCleanup \/ Server!EndCleanup \/ Server!Signal \/ Server!HttpCloses
           \/ Server!CleanupEnds \/ Server!StartEnds \/ Server!CloseEnds
           \/ \E work \in {"request", "cleanup", "pass"} : Server!Hang(work)
    PROVE  ServerInv'
<1>1. UNCHANGED <<storage, resources, closing, checks, attestation, misled>>
  BY DEF Server!StartCleanup, Server!EndCleanup, Server!Signal, Server!HttpCloses,
         Server!CleanupEnds, Server!StartEnds, Server!CloseEnds, Server!Hang,
         Server!UnchangedStorage
<1>2. process \in ProcessType /\ ProcessStands
  BY DEF ServerInv, ServerTypeOK
<1>3. process' \in ProcessType /\ ProcessStands'
  <2>1. CASE \E work \in {"request", "cleanup", "pass"} : Server!Hang(work)
    <3>1. PICK work \in {"request", "cleanup", "pass"} :
              process' = [process EXCEPT !.hung = @ \cup {work}]
      BY <2>1 DEF Server!Hang
    <3>2. process.hung \cup {work} \in SUBSET {"request", "cleanup", "pass"}
      BY <1>2 DEF ProcessType
    <3>3. /\ process' \in ProcessType /\ process'.stopping = process.stopping
          /\ process'.cleanup = process.cleanup /\ process'.worker = process.worker
          /\ process'.outcome = process.outcome
      BY <1>2, <3>1, <3>2 DEF ProcessType
    <3> QED BY <1>1, <1>2, <3>3 DEF ProcessStands
  <2>2. CASE Server!CloseEnds
    <3>1. /\ process.stopping = "close" /\ storage.state = "closed"
          /\ \E outcome \in {"clean", "failed"} :
                /\ process' = [process EXCEPT !.stopping = "ended", !.outcome = outcome]
                /\ outcome = "clean" => storage.errors = {}
      BY <2>2 DEF Server!CloseEnds
    <3>2. /\ process' \in ProcessType /\ process'.stopping = "ended"
          /\ process'.cleanup = process.cleanup /\ process'.worker = process.worker
          /\ process'.outcome = "clean" => storage.errors = {}
      BY <1>2, <3>1 DEF ProcessType
    <3> QED BY <1>1, <1>2, <3>1, <3>2 DEF ProcessStands
  <2>3. CASE Server!StartCleanup \/ Server!EndCleanup \/ Server!Signal \/ Server!HttpCloses
    BY <1>1, <1>2, <2>3
    DEF Server!StartCleanup, Server!EndCleanup, Server!Signal, Server!HttpCloses, ProcessType,
        ProcessStands
  <2>4. CASE Server!CleanupEnds \/ Server!StartEnds
    BY <1>1, <1>2, <2>4
    DEF Server!CleanupEnds, Server!StartEnds, Server!Stopping, ProcessType, ProcessStands
  <2> QED BY <2>1, <2>2, <2>3, <2>4
<1> QED
  BY <1>1, <1>3
  DEF ServerInv, ServerTypeOK, StorageStands, ClosingStands, AttestationStands, ProofStands,
      Server!AllOpen

\* The worker is off, and the runtime begins to close unless it has.
LEMMA WorkerSteps ==
    ASSUME ServerInv, Server!WorkerStops
    PROVE  ServerInv'
<1>1. /\ process.stopping = "worker" /\ storage.state \in {"ready", "closing", "closed"}
      /\ UNCHANGED <<resources, checks, attestation, misled>> /\ ~process.cleanup
      /\ process.outcome = "clean" => storage.state = "closed"
  BY DEF Server!WorkerStops, ServerInv, ProcessStands
<1>2. /\ process' \in ProcessType /\ process'.worker = "off" /\ ~process'.cleanup
      /\ process'.stopping = IF storage.state = "closed" THEN "ended" ELSE "close"
      /\ process'.outcome = process.outcome
  BY <1>1 DEF Server!WorkerStops, ServerInv, ServerTypeOK, ProcessType
<1>3. CASE storage.state = "ready"
  <2>1. storage' = [storage EXCEPT !.state = "closing"] /\ closing' = Server!Owned
    BY <1>3 DEF Server!WorkerStops, Server!CloseRuntime
  <2> QED
    BY <1>1, <1>2, <1>3, <2>1, Closes
    DEF ServerInv, ServerTypeOK, StorageType, StorageStands, ClosingStands, ProcessStands,
        AttestationStands, ProofStands
<1>4. CASE storage.state # "ready"
  <2>1. UNCHANGED <<storage, closing>>
    BY <1>4 DEF Server!WorkerStops
  <2> QED
    BY <1>1, <1>2, <1>4, <2>1
    DEF ServerInv, ServerTypeOK, StorageStands, ClosingStands, ProcessStands, AttestationStands,
        ProofStands
<1> QED BY <1>3, <1>4

LEMMA ServerNext == ServerInv /\ Server!Next => ServerInv'
BY StartSteps, CloseSteps, CheckSteps, AttestSteps, ProcessSteps, WorkerSteps
DEF Server!Next, Server!Shutdown

LEMMA ServerRest == ServerInv /\ UNCHANGED ServerVars => ServerInv'
BY DEF ServerVars, ServerInv, ServerTypeOK, StorageType, ProcessType, CheckState, StorageStands,
       ClosingStands, ProcessStands,
       AttestationStands, AttestationType, ProofStands, Server!AllOpen

\* Ready is answered only by a runtime that is, a start that failed and a stop
\* leave nothing open but what itself failed to close, and a proof of erasure is
\* one but for what landed since its run began (storage/factory.js), for any
\* readiness requests and any number of calls that fail, time out or hang.
THEOREM ServerSoundCorrect == AllSpec => []ServerSound
<1> DEFINE Inv == part = "server" => ServerInv
<1>1. AllInit => Inv
  BY ServerInit DEF AllInit
<1>2. Inv /\ [AllNext]_<<part, vars, ObjectsVars, ServerVars>> => Inv'
  BY ServerNext, ServerRest DEF AllNext, ClaimsMoves, ObjectsMoves, ServerMoves
<1>3. Inv => ServerSound
  BY DEF ServerInv, ClosingStands, ProcessStands, AttestationStands, AttestationType, ProofStands,
         ServerSound,
         Server!ReadyIsTrue, Server!NothingLeft, Server!ErasureProven
<1> QED BY <1>1, <1>2, <1>3, PTL DEF AllSpec
=============================================================================
