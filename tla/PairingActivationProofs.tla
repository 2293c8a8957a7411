----------------------- MODULE PairingActivationProofs -----------------------
(***************************************************************************)
(* A pairing ends for one owner, its device is registered before it can be *)
(* redeemed, and a retry reaches the answer that is kept for it.           *)
(*                                                                         *)
(* A pairing gets its owner (a retry token, a configuration and a device   *)
(* token) when it is activated and never another.  The invariant says of   *)
(* each pairing who that is, and that everything which names the pairing   *)
(* (its record, requests and polls under way, device rows, answers and     *)
(* disclosures) names this owner.  Between two activations of a record     *)
(* there is none that could do so, for records only wane.                  *)
(***************************************************************************)
EXTENDS PairingActivation, TLAPS

Early == {"unissued", "pending"}

\* The states in which a retry token may lead to a record.
Bound == {"activating", "activated", "consumed", "expired"}

Past == {"consumed", "expired", "gone"}

\* What the fields of a record say together.
RecordOk(r) ==
    /\ IF r.activation = "none" THEN r.envelope = NoEnvelope
       ELSE /\ r.envelope.config \in Configs /\ r.token \in Tokens
            /\ r.envelope.profile =
                  IF r.activation = "activated" THEN ProfileOf[r.envelope.config] ELSE None
    /\ r.state \in Early \cup {"cancelled", "gone"} => r.activation = "none"
    /\ r.state = "activating" => r.activation = "activating"
    /\ r.state \in {"activated", "consumed"} => r.activation = "activated"
    /\ r.state = "cancelled" => r.userUntil = 0
    /\ r.retryUntil <= r.until /\ r.retryUntil <= r.expiresAt

Recorded == \A k \in Pairings : RecordOk(pairings[k])

Requested ==
    \A k \in Pairings :
        pairings[k].token # None =>
            \E x \in Requests : x.token = pairings[k].token /\ x.pairing = k

\* A retry token leads to the pairing it activated, as long as a retry may ask.
LeadsBack(t) ==
    retryIndex[t].pairing # None =>
        LET r == pairings[retryIndex[t].pairing]
        IN r.token = t /\ r.retryUntil = retryIndex[t].until /\ r.state \in Bound

LedTo(k) ==
    LET r == pairings[k]
    IN r.activation # "none" /\ ~Over(r.retryUntil) =>
           retryIndex[r.token] = [pairing |-> k, until |-> r.retryUntil]

Indexed == (\A t \in Tokens : LeadsBack(t)) /\ (\A k \in Pairings : LedTo(k))

StoreType ==
    /\ now \in Nat
    /\ pairings \in [Pairings -> Records]
    /\ retryIndex \in [Tokens -> [pairing : Pairings \cup {None}, until : Nat]]

StoreInv == StoreType /\ Recorded /\ Requested /\ Indexed

-----------------------------------------------------------------------------
(* Records only wane, unless they are activated or finalized.                *)

\* By the time t, record r has become s.
WanesTo(r, s, t) ==
    /\ s \in Records /\ RecordOk(s)
    /\ s.activation # "none" =>
          /\ s.activation = r.activation /\ s.envelope = r.envelope
          /\ s.token = r.token /\ s.retryUntil = r.retryUntil
    /\ r.activation # "none" /\ s.activation = "none" =>
          s.state \in {"cancelled", "gone"} \/ r.retryUntil <= t
    /\ s.state \in Early => r.state \in Early
    /\ r.state \in Past => s.state \in Past
    /\ r.state = "gone" => s.state = "gone"
    /\ r.state = "cancelled" => s.state \in {"cancelled", "gone"}
    /\ s.state = "consumed" => r.state \in {"activated", "consumed"}
    /\ s.token \in {r.token, None}

\* What a retry token leads to stays where it is.
StaysBound(r, s) ==
    r.state \in Bound => s.state \in Bound /\ s.token = r.token /\ s.retryUntil = r.retryUntil

Wane == \A k \in Pairings : WanesTo(pairings[k], pairings'[k], now')

LEMMA SameRecord ==
    ASSUME NEW r \in Records, RecordOk(r), NEW t
    PROVE  WanesTo(r, r, t) /\ StaysBound(r, r)
<1>1. r.state \in Early => r.state \in Early
  OBVIOUS
<1> QED BY <1>1 DEF WanesTo, StaysBound, RecordOk

LEMMA LapsedRecord ==
    ASSUME now \in Nat, NEW r \in Records, RecordOk(r), Lapsed(r)
    PROVE  WanesTo(r, Lapse(r), now) /\ StaysBound(r, Lapse(r))
<1>1. ~(r.retryUntil > now) /\ r.retryUntil <= now
  BY DEF Lapsed, Over, RecordOk, Records
<1>2. PICK u \in Nat, d \in Nat :
         /\ Lapse(r) = [r EXCEPT !.state = "expired", !.until = u, !.userUntil = 0,
                                 !.deviceUntil = d, !.activation = "none",
                                 !.envelope = NoEnvelope]
         /\ u > now
  <2>1. now + TombstoneTtl \in Nat /\ now + TombstoneTtl > now
    BY PairingAssumption
  <2>2. Refresh(r.deviceUntil, now + TombstoneTtl) \in Nat
    BY <2>1 DEF Refresh
  <2> QED BY <1>1, <2>1, <2>2 DEF Lapse
<1>3. NoEnvelope \in Envelopes
  BY DEF NoEnvelope, Envelopes
<1>4. Lapse(r) \in Records
  <2>1. [r EXCEPT !.state = "expired", !.until = u, !.userUntil = 0, !.deviceUntil = d,
                  !.activation = "none", !.envelope = NoEnvelope] \in Records
    BY <1>3, Zenon DEF Records
  <2> QED BY <1>2, <2>1
<1>5. /\ Lapse(r).state = "expired" /\ Lapse(r).activation = "none"
      /\ Lapse(r).envelope = NoEnvelope /\ Lapse(r).token = r.token
      /\ Lapse(r).retryUntil = r.retryUntil /\ Lapse(r).expiresAt = r.expiresAt
      /\ Lapse(r).until > now
  BY <1>2 DEF Records
<1>6. r.state \in Live
  BY DEF Lapsed
<1>7. RecordOk(Lapse(r))
  BY <1>1, <1>4, <1>5 DEF RecordOk, Records, Early
<1> QED BY <1>1, <1>4, <1>5, <1>6, <1>7 DEF WanesTo, StaysBound, Live, Early, Past, Bound

\* An index key that is taken away was of no more use.
IndexWanes ==
    \A t \in Tokens :
        \/ retryIndex'[t] = retryIndex[t]
        \/ /\ retryIndex'[t] = Unindexed
           /\ retryIndex[t].pairing # None =>
                 LET r == pairings[retryIndex[t].pairing]
                 IN r.activation = "none" \/ r.retryUntil <= now'

LEMMA StoreStays ==
    ASSUME StoreInv, StoreType', now' >= now, Wane, IndexWanes,
           \A k \in Pairings : StaysBound(pairings[k], pairings'[k])
    PROVE  StoreInv'
<1>1. now \in Nat /\ now' \in Nat
  BY DEF StoreInv, StoreType
<1>2. Recorded'
  BY DEF Wane, WanesTo, Recorded
<1>3. Requested'
  <2>1. \A k \in Pairings : pairings'[k].token \in {pairings[k].token, None}
    BY DEF Wane, WanesTo
  <2> QED BY <2>1 DEF StoreInv, Requested
<1>4. ASSUME NEW t \in Tokens PROVE LeadsBack(t)'
  <2>1. CASE retryIndex'[t] = Unindexed
    BY <2>1 DEF LeadsBack, Unindexed
  <2>2. CASE retryIndex'[t] = retryIndex[t] /\ retryIndex[t].pairing # None
    <3>1. retryIndex[t].pairing \in Pairings /\ LeadsBack(t)
      BY <2>2 DEF StoreInv, StoreType, Indexed
    <3> QED BY <2>2, <3>1 DEF LeadsBack, StaysBound
  <2>3. CASE retryIndex'[t] = retryIndex[t] /\ retryIndex[t].pairing = None
    BY <2>3 DEF LeadsBack
  <2> QED BY <2>1, <2>2, <2>3 DEF IndexWanes
<1>5. ASSUME NEW k \in Pairings PROVE LedTo(k)'
  <2> DEFINE r == pairings[k]
             s == pairings'[k]
  <2>1. CASE s.activation = "none" \/ s.retryUntil <= now'
    BY <2>1 DEF LedTo, Over
  <2>2. CASE s.activation # "none" /\ ~(s.retryUntil <= now')
    <3>1. /\ s.activation = r.activation /\ s.token = r.token /\ s.retryUntil = r.retryUntil
          /\ r.token \in Tokens
      BY <2>2 DEF Wane, WanesTo, StoreInv, Recorded, RecordOk
    <3>2. r.retryUntil \in Nat
      BY DEF StoreInv, StoreType, Records
    <3>3. retryIndex[r.token] = [pairing |-> k, until |-> r.retryUntil]
      BY <1>1, <2>2, <3>1, <3>2 DEF StoreInv, Indexed, LedTo, Over
    <3>4. retryIndex'[r.token] = retryIndex[r.token]
      <4>1. retryIndex[r.token].pairing = k /\ k # None
        BY <3>3, NamesAssumption
      <4>2. r.activation # "none" /\ ~(r.retryUntil <= now')
        BY <2>2, <3>1
      <4> QED BY <3>1, <4>1, <4>2 DEF IndexWanes
    <3> QED BY <3>1, <3>3, <3>4 DEF LedTo
  <2> QED BY <2>1, <2>2
<1> QED BY <1>2, <1>3, <1>4, <1>5 DEF StoreInv, Indexed

\* One record wanes.
LEMMA OneWanes ==
    ASSUME StoreInv, now' = now, NEW k \in Pairings, NEW s, Update(k, s),
           WanesTo(pairings[k], s, now), StaysBound(pairings[k], s)
    PROVE  /\ pairings' \in [Pairings -> Records] /\ Wane
           /\ \A j \in Pairings : StaysBound(pairings[j], pairings'[j])
<1>1. s \in Records
  BY DEF WanesTo
<1>2. ASSUME NEW j \in Pairings
      PROVE  /\ WanesTo(pairings[j], pairings'[j], now')
             /\ StaysBound(pairings[j], pairings'[j])
  <2>1. CASE j = k
    BY <2>1 DEF Update, StoreInv, StoreType
  <2>2. CASE j # k
    <3>1. pairings'[j] = pairings[j] /\ pairings[j] \in Records /\ RecordOk(pairings[j])
      BY <2>2 DEF Update, StoreInv, StoreType, Recorded
    <3> QED BY <3>1, SameRecord
  <2> QED BY <2>1, <2>2
<1> QED BY <1>1, <1>2 DEF Update, StoreInv, StoreType, Wane

LEMMA NoneWanes ==
    ASSUME StoreInv, UNCHANGED pairings
    PROVE  /\ pairings' \in [Pairings -> Records] /\ Wane
           /\ \A j \in Pairings : StaysBound(pairings[j], pairings'[j])
  BY SameRecord DEF StoreInv, StoreType, Recorded, Wane

\* Index keys: all stay, or that of t goes, whose pairing no longer needs it.
LEMMA OneUnindexed ==
    ASSUME StoreInv, now' = now, NEW t \in Tokens, Unindex(t),
           retryIndex[t].pairing # None =>
              LET r == pairings[retryIndex[t].pairing]
              IN r.activation = "none" \/ r.retryUntil <= now
    PROVE  /\ IndexWanes
           /\ retryIndex' \in [Tokens -> [pairing : Pairings \cup {None}, until : Nat]]
<1>1. Unindexed \in [pairing : Pairings \cup {None}, until : Nat]
  BY DEF Unindexed
<1> QED BY <1>1 DEF StoreInv, StoreType, Unindex, IndexWanes

LEMMA NoneUnindexed ==
    ASSUME StoreInv, UNCHANGED retryIndex
    PROVE  /\ IndexWanes
           /\ retryIndex' \in [Tokens -> [pairing : Pairings \cup {None}, until : Nat]]
  BY DEF StoreInv, StoreType, IndexWanes

\* A step of the store that only wanes.
Waned == StoreInv' /\ Wane

LEMMA Unchanged ==
    ASSUME StoreInv, now' = now, UNCHANGED pairingVars
    PROVE  Waned
<1>1. UNCHANGED pairings /\ UNCHANGED retryIndex
  BY DEF pairingVars
<1>2. StoreType' /\ now' >= now
  BY <1>1 DEF StoreInv, StoreType
<1> QED BY <1>1, <1>2, NoneWanes, NoneUnindexed, StoreStays DEF Waned

\* The expiry of a record, seen by the script that activates.
Erased(r, d) ==
    [r EXCEPT !.state = "expired", !.activation = "none", !.envelope = NoEnvelope,
              !.userUntil = 0, !.until = now + TombstoneTtl, !.deviceUntil = d]

LEMMA ErasedRecord ==
    ASSUME now \in Nat, NEW r \in Records, RecordOk(r), Over(r.expiresAt),
           r.state \notin {"cancelled", "unissued", "gone"}, NEW d \in Nat
    PROVE  WanesTo(r, Erased(r, d), now) /\ StaysBound(r, Erased(r, d))
<1> DEFINE s == Erased(r, d)
<1>1. now + TombstoneTtl \in Nat /\ now + TombstoneTtl > now
  BY PairingAssumption
<1>2. s \in Records
  <2>1. NoEnvelope \in Envelopes
    BY DEF NoEnvelope, Envelopes
  <2> QED BY <1>1, <2>1, Zenon DEF Records, Erased
<1>3. r.retryUntil <= r.expiresAt /\ r.expiresAt <= now /\ r.retryUntil \in Nat /\ r.expiresAt \in Nat
  BY DEF RecordOk, Over, Records
<1>4. /\ s.state = "expired" /\ s.activation = "none" /\ s.envelope = NoEnvelope
      /\ s.token = r.token /\ s.retryUntil = r.retryUntil /\ s.expiresAt = r.expiresAt
      /\ s.until = now + TombstoneTtl
  BY DEF Records, Erased
<1>5. RecordOk(s)
  BY <1>1, <1>3, <1>4 DEF RecordOk, Early
<1> QED BY <1>2, <1>3, <1>4, <1>5 DEF WanesTo, StaysBound, Early, Past, Bound

\* The keys of the user code and of the device code are no part of what wanes.
Codes(r, u, d) == [r EXCEPT !.userUntil = u, !.deviceUntil = d]

LEMMA CodesRecord ==
    ASSUME NEW r \in Records, RecordOk(r), NEW u \in Nat, NEW d \in Nat, NEW t,
           r.userUntil = 0 => u = 0
    PROVE  WanesTo(r, Codes(r, u, d), t) /\ StaysBound(r, Codes(r, u, d))
<1> DEFINE s == Codes(r, u, d)
<1>1. s \in Records
  BY Zenon DEF Records, Codes
<1>2. /\ s.state = r.state /\ s.activation = r.activation /\ s.envelope = r.envelope
      /\ s.token = r.token /\ s.retryUntil = r.retryUntil /\ s.expiresAt = r.expiresAt
      /\ s.until = r.until /\ s.userUntil = u
  BY DEF Records, Codes
<1>3. RecordOk(s)
  BY <1>2 DEF RecordOk
<1> QED BY <1>1, <1>2, <1>3 DEF WanesTo, StaysBound

-----------------------------------------------------------------------------
(* The scripts on the pairings.                                              *)

\* pairing-activate.lua, when it activates nothing.
LEMMA ActivateWanes ==
    ASSUME StoreInv, now' = now, NEW k \in Pairings, NEW t \in Tokens, NEW f, NEW device,
           ActivateEffect(k, t, f, device, ActivateVerdict(k, t, f)),
           ActivateVerdict(k, t, f) # "new"
    PROVE  Waned
<1> DEFINE v == ActivateVerdict(k, t, f)
           r == pairings[k]
           until == now + TombstoneTtl
<1>1. now \in Nat /\ r \in Records /\ RecordOk(r) /\ LeadsBack(t)
  BY DEF StoreInv, StoreType, Recorded, Indexed
<1>2. r.retryUntil \in Nat /\ r.expiresAt \in Nat /\ r.retryUntil <= r.expiresAt
      /\ r.userUntil \in Nat /\ r.deviceUntil \in Nat
  BY <1>1 DEF RecordOk, Records
<1>3. until \in Nat /\ Refresh(r.deviceUntil, until) \in Nat
  BY <1>1, PairingAssumption DEF Refresh
<1>4. CASE v = "lapsed"
  <2>1. Over(r.expiresAt) /\ r.state \notin {"cancelled", "unissued", "gone"}
    <3>1. Over(r.expiresAt) /\ ~Gone(k) /\ (FoundByUser(k) \/ retryIndex[t].pairing = k)
      BY <1>1, <1>4 DEF ActivateVerdict, Records
    <3>2. r.state # "cancelled"
      <4>1. CASE FoundByUser(k)
        BY <1>1, <4>1 DEF FoundByUser, RecordOk
      <4>2. CASE retryIndex[t].pairing = k
        BY <1>1, <4>2, NamesAssumption DEF LeadsBack, Bound
      <4> QED BY <3>1, <4>1, <4>2
    <3> QED BY <3>1, <3>2 DEF Gone
  <2>2. r.retryUntil <= now
    BY <1>1, <1>2, <2>1 DEF Over
  <2>3. Update(k, Erased(r, Refresh(r.deviceUntil, until)))
    BY <1>4 DEF ActivateEffect, Erased
  <2>4. /\ pairings' \in [Pairings -> Records] /\ Wane
        /\ \A j \in Pairings : StaysBound(pairings[j], pairings'[j])
    BY <1>1, <1>3, <2>1, <2>3, ErasedRecord, OneWanes
  <2>5. IndexWanes /\ retryIndex' \in [Tokens -> [pairing : Pairings \cup {None}, until : Nat]]
    <3>1. CASE retryIndex[t].pairing = k
      <4>1. Unindex(t)
        BY <1>4, <3>1 DEF ActivateEffect
      <4> QED BY <2>2, <3>1, <4>1, OneUnindexed
    <3>2. CASE retryIndex[t].pairing # k
      BY <1>4, <3>2, NoneUnindexed DEF ActivateEffect
    <3> QED BY <3>1, <3>2
  <2> QED BY <1>1, <2>4, <2>5, StoreStays DEF Waned, StoreType
<1>5. CASE v = "gone"
  <2>1. Update(k, Codes(r, 0, r.deviceUntil)) /\ Gone(k)
    <3>1. [r EXCEPT !.userUntil = 0] = Codes(r, 0, r.deviceUntil)
      BY <1>1 DEF Codes, Records
    <3>2. Gone(k)
      BY <1>1, <1>5 DEF ActivateVerdict, Records
    <3> QED BY <1>5, <3>1, <3>2 DEF ActivateEffect
  <2>2. /\ pairings' \in [Pairings -> Records] /\ Wane
        /\ \A j \in Pairings : StaysBound(pairings[j], pairings'[j])
    BY <1>1, <1>2, <2>1, CodesRecord, OneWanes
  <2>3. retryIndex[t].pairing # k
    BY <1>1, <2>1, NamesAssumption DEF LeadsBack, Bound, Gone
  <2>4. UNCHANGED retryIndex
    BY <1>5, <2>3 DEF ActivateEffect
  <2> QED BY <1>1, <2>2, <2>4, NoneUnindexed, StoreStays DEF Waned, StoreType
<1>6. CASE v = "expired"
  <2>1. retryIndex[t].pairing = k /\ Over(r.retryUntil)
    BY <1>1, <1>6 DEF ActivateVerdict, Records
  <2>2. Unindex(t) /\ UNCHANGED pairings
    BY <1>6 DEF ActivateEffect
  <2> QED BY <1>1, <2>1, <2>2, NoneWanes, OneUnindexed, StoreStays DEF Waned, StoreType, Over
<1>7. CASE v \notin {"lapsed", "gone", "expired"}
  <2>1. UNCHANGED pairingVars
    BY <1>7 DEF ActivateEffect
  <2> QED BY <2>1, Unchanged
<1> QED BY <1>4, <1>5, <1>6, <1>7

\* pairing-recover.lua
LEMMA RecoverWanes ==
    ASSUME StoreInv, now' = now, NEW t \in Tokens, NEW f,
           RecoverPairingEffect(t, RecoverPairingVerdict(t, f))
    PROVE  Waned
<1> DEFINE v == RecoverPairingVerdict(t, f)
<1>1. now \in Nat /\ LeadsBack(t)
  BY DEF StoreInv, StoreType, Indexed
<1>2. CASE v \in {"gone", "expired"}
  <2>1. Unindex(t) /\ UNCHANGED pairings
    BY <1>2 DEF RecoverPairingEffect
  <2>2. retryIndex[t].pairing # None
    BY <1>2 DEF RecoverPairingVerdict
  <2> DEFINE r == pairings[retryIndex[t].pairing]
  <2>3. r \in Records /\ RecordOk(r)
    BY <2>2 DEF StoreInv, StoreType, Recorded
  <2>4. r.retryUntil <= now
    <3>1. ~Gone(retryIndex[t].pairing)
      BY <1>1, <2>2 DEF LeadsBack, Bound, Gone
    <3>2. Over(r.expiresAt) \/ Over(r.retryUntil)
      BY <1>2, <2>2, <2>3, <3>1 DEF RecoverPairingVerdict, Records
    <3> QED BY <1>1, <2>3, <3>2 DEF Over, RecordOk, Records
  <2> QED BY <1>1, <2>1, <2>4, NoneWanes, OneUnindexed, StoreStays DEF Waned, StoreType
<1>3. CASE v \notin {"gone", "expired"}
  BY <1>3, Unchanged DEF RecoverPairingEffect, pairingVars
<1> QED BY <1>2, <1>3

\* pairing-redeem-peek.lua and pairing-redeem.lua
LEMMA RedeemWanes ==
    ASSUME StoreInv, now' = now, NEW k \in Pairings, NEW v, RedeemEffect(k, v),
           v = "consume" => PeekVerdict(k) = "ready",
           v = "gone" => Gone(k)
    PROVE  Waned
<1> DEFINE r == pairings[k]
           until == Later(now + TombstoneTtl, r.retryUntil)
<1>1. now \in Nat /\ r \in Records /\ RecordOk(r) /\ UNCHANGED retryIndex
  BY DEF StoreInv, StoreType, Recorded, RedeemEffect
<1>2. r.retryUntil \in Nat /\ r.expiresAt \in Nat /\ r.userUntil \in Nat /\ r.deviceUntil \in Nat
  BY <1>1 DEF Records
<1>3. until \in Nat /\ until >= r.retryUntil /\ Refresh(r.deviceUntil, until) \in Nat
  BY <1>1, <1>2, PairingAssumption DEF Refresh, Later
<1>4. ASSUME NEW s, Update(k, s), WanesTo(r, s, now), StaysBound(r, s)
      PROVE  Waned
  BY <1>1, <1>4, OneWanes, NoneUnindexed, StoreStays DEF Waned, StoreType
<1>5. CASE v = "gone"
  <2>1. [r EXCEPT !.deviceUntil = 0] = Codes(r, r.userUntil, 0)
    BY <1>1 DEF Codes, Records
  <2> QED BY <1>1, <1>2, <1>4, <1>5, <2>1, CodesRecord DEF RedeemEffect
<1>6. CASE v = "expired" /\ Lapsed(r)
  BY <1>1, <1>4, <1>6, LapsedRecord DEF RedeemEffect
<1>7. CASE v = "consume"
  <2> DEFINE s == [r EXCEPT !.state = "consumed", !.userUntil = 0, !.until = until,
                            !.deviceUntil = Refresh(r.deviceUntil, until)]
  <2>1. r.state = "activated" /\ r.activation = "activated"
    BY <1>1, <1>7 DEF PeekVerdict, Redeemable
  <2>2. s \in Records
    BY <1>1, <1>3, Zenon DEF Records
  <2>3. /\ s.state = "consumed" /\ s.activation = r.activation /\ s.envelope = r.envelope
        /\ s.token = r.token /\ s.retryUntil = r.retryUntil /\ s.expiresAt = r.expiresAt
        /\ s.until = until
    BY <1>1 DEF Records
  <2>4. Update(k, s)
    BY <1>7 DEF RedeemEffect
  <2> HIDE DEF s, until
  <2>5. RecordOk(s)
    BY <1>1, <1>3, <2>1, <2>3 DEF RecordOk, Early
  <2>6. WanesTo(r, s, now) /\ StaysBound(r, s)
    BY <2>1, <2>2, <2>3, <2>5 DEF WanesTo, StaysBound, Early, Past, Bound
  <2> QED BY <1>4, <2>4, <2>6
<1>8. CASE v # "gone" /\ ~(v = "expired" /\ Lapsed(r)) /\ v # "consume"
  BY <1>1, <1>8, Unchanged DEF RedeemEffect, pairingVars
<1> QED BY <1>5, <1>6, <1>7, <1>8

\* pairing-cancel.lua: what led to the pairing goes with it, and the token that
\* led to it leads to no other.
LEMMA CancelWanes ==
    ASSUME StoreInv, now' = now, NEW k \in Pairings, CancelPairing(k)
    PROVE  Waned
<1> DEFINE r == pairings[k]
           until == now + TombstoneTtl
           s == [r EXCEPT !.state = IF Over(r.expiresAt) THEN "expired" ELSE "cancelled",
                     !.activation = "none", !.envelope = NoEnvelope, !.token = None,
                     !.retryUntil = 0, !.userUntil = 0, !.until = until, !.deviceUntil = until]
<1>1. now \in Nat /\ r \in Records /\ RecordOk(r)
  BY DEF StoreInv, StoreType, Recorded
<1>2. until \in Nat /\ r.state \in Live
  BY <1>1, PairingAssumption DEF CancelPairing
<1>3. pairings' = [pairings EXCEPT ![k] = s]
  BY DEF CancelPairing, Update
<1>4. PICK state \in {"expired", "cancelled"} :
         /\ s = [r EXCEPT !.state = state, !.activation = "none", !.envelope = NoEnvelope,
                          !.token = None, !.retryUntil = 0, !.userUntil = 0, !.until = until,
                          !.deviceUntil = until]
         /\ state = "expired" => Over(r.expiresAt)
  OBVIOUS
<1>5. s \in Records
  <2>1. NoEnvelope \in Envelopes
    BY DEF NoEnvelope, Envelopes
  <2>2. [r EXCEPT !.state = state, !.activation = "none", !.envelope = NoEnvelope,
                  !.token = None, !.retryUntil = 0, !.userUntil = 0, !.until = until,
                  !.deviceUntil = until] \in Records
    BY <1>1, <1>2, <2>1, Zenon DEF Records
  <2> QED BY <1>4, <2>2
<1>6. /\ s.state = state /\ s.activation = "none" /\ s.envelope = NoEnvelope /\ s.token = None
      /\ s.retryUntil = 0 /\ s.userUntil = 0 /\ s.until = until /\ s.expiresAt = r.expiresAt
  BY <1>1, <1>4 DEF Records
<1> HIDE DEF s
<1>7. RecordOk(s)
  BY <1>1, <1>2, <1>6 DEF RecordOk, Early, Records
<1>8. WanesTo(r, s, now)
  <2>1. state = "expired" => r.retryUntil <= now
    BY <1>1, <1>4 DEF Over, RecordOk, Records
  <2> QED BY <1>2, <1>5, <1>6, <1>7, <2>1 DEF WanesTo, Early, Past, Live
<1>9. \A j \in Pairings : pairings'[j] = IF j = k THEN s ELSE pairings[j]
  BY <1>3 DEF StoreInv, StoreType
<1>10. Wane
  <2>1. ASSUME NEW j \in Pairings, j # k PROVE WanesTo(pairings[j], pairings'[j], now')
    BY <1>9, <2>1, SameRecord DEF StoreInv, StoreType, Recorded
  <2> QED BY <1>8, <1>9, <2>1 DEF Wane
<1>11. StoreType'
  <2>1. Unindexed \in [pairing : Pairings \cup {None}, until : Nat]
    BY DEF Unindexed
  <2> QED BY <1>3, <1>5, <2>1 DEF StoreInv, StoreType, CancelPairing
<1>12. Recorded' /\ Requested'
  BY <1>6, <1>7, <1>9 DEF StoreInv, Recorded, Requested
<1>13. ASSUME NEW t \in Tokens PROVE LeadsBack(t)'
  <2>1. retryIndex'[t] = IF t = r.token THEN Unindexed ELSE retryIndex[t]
    BY DEF CancelPairing
  <2>2. CASE t = r.token \/ retryIndex[t].pairing = None
    BY <2>1, <2>2 DEF LeadsBack, Unindexed
  <2>3. CASE t # r.token /\ retryIndex[t].pairing # None
    <3>1. LeadsBack(t) /\ retryIndex[t].pairing \in Pairings
      BY <2>3 DEF StoreInv, StoreType, Indexed
    <3>2. retryIndex[t].pairing # k
      BY <2>3, <3>1 DEF LeadsBack
    <3> QED BY <1>9, <2>1, <2>3, <3>1, <3>2 DEF LeadsBack
  <2> QED BY <2>2, <2>3
<1>14. ASSUME NEW j \in Pairings PROVE LedTo(j)'
  <2>1. CASE j = k
    BY <1>6, <1>9, <2>1 DEF LedTo
  <2>2. CASE j # k /\ pairings[j].activation # "none"
    <3>1. pairings[j].token \in Tokens /\ LedTo(j)
      BY <2>2 DEF StoreInv, Recorded, RecordOk, Indexed
    <3>2. pairings[j].token # r.token
      <4>1. pairings[j].token # None
        BY <3>1, NamesAssumption
      <4>2. ASSUME pairings[j].token = r.token PROVE FALSE
        <5>1. PICK x \in Requests : x.token = pairings[j].token /\ x.pairing = j
          BY <4>1 DEF StoreInv, Requested
        <5>2. PICK y \in Requests : y.token = r.token /\ y.pairing = k
          BY <4>1, <4>2 DEF StoreInv, Requested
        <5> QED BY <2>2, <4>2, <5>1, <5>2, RequestsAssumption
      <4> QED BY <4>2
    <3>3. retryIndex'[pairings[j].token] = retryIndex[pairings[j].token]
      BY <3>1, <3>2 DEF CancelPairing
    <3> QED BY <1>9, <2>2, <3>1, <3>3 DEF LedTo, Over
  <2>3. CASE j # k /\ pairings[j].activation = "none"
    BY <1>9, <2>3 DEF LedTo
  <2> QED BY <2>1, <2>2, <2>3
<1> QED BY <1>10, <1>11, <1>12, <1>13, <1>14 DEF Waned, StoreInv, Indexed

\* A record that Redis has dropped.
GoneRow(r) ==
    [Unissued EXCEPT !.state = "gone", !.userUntil = r.userUntil, !.deviceUntil = r.deviceUntil]

LEMMA GoneRecord ==
    ASSUME NEW r \in Records, RecordOk(r), r.state # "unissued",
           NEW n \in Nat, NEW d \in Nat, NEW t
    PROVE  WanesTo(r, Codes(GoneRow(r), n, d), t)
<1> DEFINE s == Codes(GoneRow(r), n, d)
<1>1. s = [Unissued EXCEPT !.state = "gone", !.userUntil = n, !.deviceUntil = d]
  BY DEF Codes, GoneRow, Unissued
<1>2. s \in Records
  <2>1. Unissued \in Records
    BY DEF Unissued, Records, NoEnvelope, Envelopes
  <2>2. [Unissued EXCEPT !.state = "gone", !.userUntil = n, !.deviceUntil = d] \in Records
    BY <2>1, Zenon DEF Records
  <2> QED BY <1>1, <2>2
<1>3. /\ s.state = "gone" /\ s.activation = "none" /\ s.envelope = NoEnvelope /\ s.token = None
      /\ s.retryUntil = 0 /\ s.until = 0 /\ s.expiresAt = 0
  BY <1>1 DEF Unissued
<1>4. RecordOk(s)
  BY <1>3 DEF RecordOk
<1> QED BY <1>2, <1>3, <1>4 DEF WanesTo, Early, Past

\* Keys that expire: an index expires no later than its record.
LEMMA DropWanes ==
    ASSUME StoreInv, now' = now + 1, DropPairings(now')
    PROVE  Waned
<1> DEFINE u == now + 1
           Kept(until) == IF DroppedAt(until, u) THEN 0 ELSE until
           Dropped(r) == r.state \notin {"unissued", "gone"} /\ r.until < u
<1>1. now \in Nat /\ u \in Nat /\ now' = u /\ now' > now
  BY DEF StoreInv, StoreType
<1>2. ASSUME NEW k \in Pairings
      PROVE  \E n \in Nat, d \in Nat :
                /\ pairings'[k] = IF Dropped(pairings[k]) THEN Codes(GoneRow(pairings[k]), n, d)
                                  ELSE Codes(pairings[k], n, d)
                /\ pairings[k].userUntil = 0 => n = 0
  <2> DEFINE r == pairings[k]
             s == IF Dropped(r) THEN GoneRow(r) ELSE r
  <2>1. r \in Records
    BY DEF StoreInv, StoreType
  <2>2. s.userUntil = r.userUntil /\ s.deviceUntil = r.deviceUntil
    BY DEF Unissued, GoneRow
  <2>3. pairings'[k] = [s EXCEPT !.userUntil = Kept(s.userUntil),
                                 !.deviceUntil = Kept(s.deviceUntil)]
    BY <1>1 DEF DropPairings, DroppedAt, GoneRow
  <2>4. pairings'[k] = Codes(s, Kept(r.userUntil), Kept(r.deviceUntil))
    BY <2>2, <2>3 DEF Codes
  <2>5. Kept(r.userUntil) \in Nat /\ Kept(r.deviceUntil) \in Nat
    BY <2>1 DEF Records
  <2>6. r.userUntil = 0 => Kept(r.userUntil) = 0
    OBVIOUS
  <2> QED BY <2>4, <2>5, <2>6
<1>3. ASSUME NEW k \in Pairings
      PROVE  /\ WanesTo(pairings[k], pairings'[k], now')
             /\ ~Dropped(pairings[k]) => StaysBound(pairings[k], pairings'[k])
  <2>1. pairings[k] \in Records /\ RecordOk(pairings[k])
    BY DEF StoreInv, StoreType, Recorded
  <2>2. PICK n \in Nat, d \in Nat :
           /\ pairings'[k] = IF Dropped(pairings[k]) THEN Codes(GoneRow(pairings[k]), n, d)
                             ELSE Codes(pairings[k], n, d)
           /\ pairings[k].userUntil = 0 => n = 0
    BY <1>2
  <2> QED BY <2>1, <2>2, GoneRecord, CodesRecord
<1>4. Wane
  BY <1>3 DEF Wane
<1>5. StoreType'
  <2>1. \A k \in Pairings : pairings'[k] \in Records
    BY <1>4 DEF Wane, WanesTo
  <2>2. pairings' = [k \in Pairings |-> pairings'[k]]
    BY DEF DropPairings
  <2>3. retryIndex' = [t \in Tokens |-> IF DroppedAt(retryIndex[t].until, u) THEN Unindexed
                                        ELSE retryIndex[t]]
    BY <1>1 DEF DropPairings
  <2>4. Unindexed \in [pairing : Pairings \cup {None}, until : Nat]
    BY DEF Unindexed
  <2>5. retryIndex' \in [Tokens -> [pairing : Pairings \cup {None}, until : Nat]]
    BY <2>3, <2>4 DEF StoreInv, StoreType
  <2>6. pairings' \in [Pairings -> Records]
    BY <2>1, <2>2
  <2> QED BY <1>1, <2>5, <2>6 DEF StoreType
<1>6. Recorded' /\ Requested'
  <2>1. \A k \in Pairings : pairings'[k].token \in {pairings[k].token, None}
    BY <1>4 DEF Wane, WanesTo
  <2> QED BY <1>4, <2>1 DEF Wane, WanesTo, Recorded, StoreInv, Requested
<1>7. \A t \in Tokens :
         retryIndex'[t] = IF retryIndex[t].until < u THEN Unindexed ELSE retryIndex[t]
  BY <1>1 DEF DropPairings, DroppedAt
<1>8. ASSUME NEW t \in Tokens PROVE LeadsBack(t)'
  <2> DEFINE k == retryIndex[t].pairing
  <2>1. CASE retryIndex[t].until < u \/ k = None
    BY <1>7, <2>1 DEF LeadsBack, Unindexed
  <2>2. CASE ~(retryIndex[t].until < u) /\ k # None
    <3>1. /\ LeadsBack(t) /\ k \in Pairings /\ retryIndex'[t] = retryIndex[t]
          /\ retryIndex[t].until \in Nat
      BY <1>7, <2>2 DEF StoreInv, StoreType, Indexed
    <3>2. pairings[k] \in Records /\ pairings[k].retryUntil <= pairings[k].until
      BY <3>1 DEF StoreInv, StoreType, Recorded, RecordOk
    <3>3. ~Dropped(pairings[k])
      <4>1. pairings[k].until \in Nat /\ retryIndex[t].until <= pairings[k].until
        BY <2>2, <3>1, <3>2 DEF LeadsBack, Records
      <4> QED BY <1>1, <2>2, <3>1, <4>1
    <3>4. StaysBound(pairings[k], pairings'[k])
      BY <1>3, <3>1, <3>3
    <3> QED BY <2>2, <3>1, <3>4 DEF LeadsBack, StaysBound
  <2> QED BY <2>1, <2>2
<1>9. ASSUME NEW k \in Pairings PROVE LedTo(k)'
  <2> DEFINE r == pairings[k]
             s == pairings'[k]
  <2>1. CASE s.activation = "none" \/ s.retryUntil <= now'
    BY <2>1 DEF LedTo, Over
  <2>2. CASE s.activation # "none" /\ ~(s.retryUntil <= now')
    <3>1. /\ s.activation = r.activation /\ s.token = r.token /\ s.retryUntil = r.retryUntil
          /\ r.token \in Tokens
      BY <1>4, <2>2 DEF Wane, WanesTo, StoreInv, Recorded, RecordOk
    <3>2. r.retryUntil \in Nat
      BY DEF StoreInv, StoreType, Records
    <3>3. retryIndex[r.token] = [pairing |-> k, until |-> r.retryUntil]
      BY <1>1, <2>2, <3>1, <3>2 DEF StoreInv, Indexed, LedTo, Over
    <3>4. retryIndex'[r.token] = retryIndex[r.token]
      BY <1>1, <1>7, <2>2, <3>1, <3>2, <3>3
    <3> QED BY <3>1, <3>3, <3>4 DEF LedTo
  <2> QED BY <2>1, <2>2
<1> QED BY <1>4, <1>5, <1>6, <1>8, <1>9 DEF Waned, StoreInv, Indexed

\* pairing-issue.lua: the pairing that is issued was never there.
LEMMA IssueWanes ==
    ASSUME StoreInv, now' = now, NEW k \in Pairings, IssuePairing(k)
    PROVE  Waned
<1> DEFINE end == now + PairingTtl
           until == end + TombstoneTtl
           s == [Unissued EXCEPT !.state = "pending", !.expiresAt = end, !.until = until,
                                 !.userUntil = until, !.deviceUntil = until]
<1>1. now \in Nat /\ end \in Nat /\ until \in Nat /\ UNCHANGED retryIndex
  BY PairingAssumption DEF StoreInv, StoreType, IssuePairing
<1>2. s \in Records
  <2>1. Unissued \in Records
    BY DEF Unissued, Records, NoEnvelope, Envelopes
  <2> QED BY <1>1, <2>1, Zenon DEF Records
<1>3. /\ s.state = "pending" /\ s.activation = "none" /\ s.envelope = NoEnvelope
      /\ s.token = None /\ s.retryUntil = 0 /\ s.until = until /\ s.expiresAt = end
  BY DEF Unissued
<1>4. \A j \in Pairings : pairings'[j] \in {Swept[j], IF j = k THEN s ELSE Swept[j]}
  BY DEF IssuePairing, Swept
<1> HIDE DEF s, end, until
<1>5. RecordOk(s)
  BY <1>1, <1>3 DEF RecordOk
<1>6. ASSUME NEW j \in Pairings
      PROVE  WanesTo(pairings[j], pairings'[j], now') /\ StaysBound(pairings[j], pairings'[j])
  <2>1. pairings[j] \in Records /\ RecordOk(pairings[j])
    BY DEF StoreInv, StoreType, Recorded
  <2>2. WanesTo(pairings[j], Swept[j], now') /\ StaysBound(pairings[j], Swept[j])
    BY <1>1, <2>1, SameRecord, LapsedRecord DEF Swept
  <2>3. CASE j = k /\ pairings'[j] = s
    <3>1. pairings[j].state = "unissued" /\ pairings[j].activation = "none"
      BY <2>1, <2>3 DEF IssuePairing, RecordOk, Early
    <3> QED BY <1>2, <1>3, <1>5, <2>3, <3>1 DEF WanesTo, StaysBound, Early, Past, Bound
  <2> QED BY <1>4, <2>2, <2>3
<1>7. StoreType'
  <2>1. pairings' = [j \in Pairings |-> pairings'[j]]
    BY DEF IssuePairing, Swept
  <2>2. \A j \in Pairings : pairings'[j] \in Records
    BY <1>6 DEF WanesTo
  <2>3. pairings' \in [Pairings -> Records]
    BY <2>1, <2>2
  <2> QED BY <1>1, <2>3 DEF StoreInv, StoreType
<1> QED BY <1>1, <1>6, <1>7, NoneUnindexed, StoreStays DEF Waned, Wane

\* pairing-activate.lua, when it activates: the token led nowhere and the pairing
\* to nobody.
LEMMA ActivateNew ==
    ASSUME StoreInv, now' = now, NEW x \in Requests, NEW k, k = x.pairing,
           NEW device \in Nat, ActivateVerdict(k, x.token, x.config) = "new",
           ActivateEffect(k, x.token, x.config, device, "new")
    PROVE  /\ StoreInv'
           /\ pairings[k].state = "pending"
           /\ \A j \in Pairings \ {k} : pairings'[j] = pairings[j]
           /\ pairings'[k].state = "activating" /\ pairings'[k].activation = "activating"
           /\ pairings'[k].token = x.token
           /\ pairings'[k].envelope = [config |-> x.config, device |-> device, profile |-> None]
<1> DEFINE r == pairings[k]
           t == x.token
           f == x.config
           retry == Earlier(r.expiresAt, now + RetryTtl)
           until == Later(r.expiresAt + TombstoneTtl, retry)
           e == [config |-> f, device |-> device, profile |-> None]
           s == [r EXCEPT !.state = "activating", !.activation = "activating",
                     !.envelope = e, !.token = t, !.retryUntil = retry, !.userUntil = 0,
                     !.until = until]
           i == [pairing |-> k, until |-> retry]
<1>1. /\ k \in Pairings /\ t \in Tokens /\ f \in Configs
      /\ now \in Nat /\ r \in Records /\ RecordOk(r)
  BY RequestsAssumption DEF StoreInv, StoreType, Recorded
<1>2. r.state = "pending" /\ retryIndex[t].pairing = None
  BY <1>1 DEF ActivateVerdict, Records
<1>3. /\ retry \in Nat /\ until \in Nat
      /\ retry <= r.expiresAt /\ retry <= until
  <2>1. r.expiresAt \in Nat /\ now + RetryTtl \in Nat /\ r.expiresAt + TombstoneTtl \in Nat
    BY <1>1, PairingAssumption DEF Records
  <2> QED BY <2>1 DEF Earlier, Later
<1>4. s \in Records
  <2>1. e \in Envelopes
    BY <1>1 DEF Envelopes
  <2> HIDE DEF e, retry, until
  <2> QED BY <1>1, <1>3, <2>1, Zenon DEF Records
<1>5. /\ s.state = "activating" /\ s.activation = "activating" /\ s.envelope = e
      /\ s.token = t /\ s.retryUntil = retry /\ s.until = until /\ s.expiresAt = r.expiresAt
  BY <1>1 DEF Records
<1>6. pairings' = [pairings EXCEPT ![k] = s] /\ retryIndex' = [retryIndex EXCEPT ![t] = i]
  BY DEF ActivateEffect, Update
<1> HIDE DEF s, retry, until
<1>7. RecordOk(s)
  BY <1>1, <1>3, <1>5 DEF RecordOk, Early
<1>8. /\ \A j \in Pairings : pairings'[j] = IF j = k THEN s ELSE pairings[j]
      /\ \A u \in Tokens : retryIndex'[u] = IF u = t THEN i ELSE retryIndex[u]
  BY <1>6 DEF StoreInv, StoreType
<1>9. StoreType'
  <2>1. i \in [pairing : Pairings \cup {None}, until : Nat]
    BY <1>1, <1>3
  <2> HIDE DEF i
  <2> QED BY <1>4, <1>6, <2>1 DEF StoreInv, StoreType
<1>10. Recorded'
  BY <1>7, <1>8 DEF StoreInv, Recorded
<1>11. Requested'
  BY <1>5, <1>8 DEF StoreInv, Requested
<1>12. ASSUME NEW u \in Tokens PROVE LeadsBack(u)'
  <2>1. CASE u = t
    BY <1>1, <1>5, <1>8, <2>1 DEF LeadsBack, Bound
  <2>2. CASE u # t /\ retryIndex[u].pairing # None
    <3>1. retryIndex[u].pairing \in Pairings /\ LeadsBack(u)
      BY <2>2 DEF StoreInv, StoreType, Indexed
    <3>2. retryIndex[u].pairing # k
      BY <1>2, <2>2, <3>1 DEF LeadsBack, Bound
    <3> QED BY <1>8, <2>2, <3>1, <3>2 DEF LeadsBack
  <2>3. CASE u # t /\ retryIndex[u].pairing = None
    BY <1>8, <2>3 DEF LeadsBack
  <2> QED BY <2>1, <2>2, <2>3
<1>13. ASSUME NEW j \in Pairings PROVE LedTo(j)'
  <2>1. CASE j = k
    BY <1>1, <1>5, <1>8, <2>1 DEF LedTo
  <2>2. CASE j # k /\ pairings[j].activation # "none" /\ ~Over(pairings[j].retryUntil)
    <3>1. /\ pairings[j].token \in Tokens
          /\ retryIndex[pairings[j].token] = [pairing |-> j, until |-> pairings[j].retryUntil]
      BY <2>2 DEF StoreInv, Recorded, RecordOk, Indexed, LedTo
    <3>2. pairings[j].token # t
      BY <1>2, <3>1, NamesAssumption
    <3> QED BY <1>8, <2>2, <3>1, <3>2 DEF LedTo
  <2>3. CASE j # k /\ (pairings[j].activation = "none" \/ Over(pairings[j].retryUntil))
    BY <1>8, <2>3 DEF LedTo, Over
  <2> QED BY <2>1, <2>2, <2>3
<1> QED BY <1>1, <1>2, <1>5, <1>8, <1>9, <1>10, <1>11, <1>12, <1>13 DEF StoreInv, Indexed

-----------------------------------------------------------------------------
(* What the records keep of their activation, in every step but that one.    *)

Keeps(r, s, t) ==
    /\ s.activation # "none" =>
          /\ r.activation # "none" /\ s.token = r.token /\ s.retryUntil = r.retryUntil
          /\ s.envelope.config = r.envelope.config /\ s.envelope.device = r.envelope.device
          /\ r.activation = "activated" => s.activation = "activated"
    /\ r.activation # "none" /\ s.activation = "none" =>
          s.state \in {"cancelled", "gone"} \/ r.retryUntil <= t
    /\ s.state \in Early => r.state \in Early
    /\ r.state \in Past => s.state \in Past
    /\ r.state \in {"cancelled", "gone"} => s.state \in {"cancelled", "gone"}
    /\ s.state = "consumed" /\ r.state \in Past =>
          r.state = "consumed" /\ s.envelope = r.envelope

HasDevice(k) == \E d \in devices : d.pairing = k

Kept(k) ==
    /\ Keeps(pairings[k], pairings'[k], now')
    /\ HasDevice(k) => HasDevice(k)'

\* The devices whose pairing can be redeemed were there before.
NoneActivated ==
    \A k \in Pairings :
        pairings'[k].activation = "activated" => pairings[k].activation = "activated"

LEMMA WaneKeeps ==
    ASSUME StoreInv, Waned, \A k \in Pairings : HasDevice(k) => HasDevice(k)'
    PROVE  StoreInv' /\ (\A k \in Pairings : Kept(k)) /\ NoneActivated
<1>1. ASSUME NEW k \in Pairings
      PROVE  /\ Keeps(pairings[k], pairings'[k], now')
             /\ pairings'[k].activation = "activated" => pairings[k].activation = "activated"
  <2>1. WanesTo(pairings[k], pairings'[k], now')
    BY DEF Waned, Wane
  <2> QED BY <2>1 DEF WanesTo, RecordOk, Keeps, Past
<1> QED BY <1>1 DEF Waned, Kept, NoneActivated

\* pairing-complete.lua, when it finalizes.
LEMMA Finalized ==
    ASSUME StoreInv, now' = now, NEW k \in Pairings, NEW f \in Configs, NEW observed,
           FinalizeVerdict(k, f, observed, ProfileOf[f]) = "finalized",
           FinalizeEffect(k, ProfileOf[f], "finalized")
    PROVE  /\ StoreInv'
           /\ \A j \in Pairings : Keeps(pairings[j], pairings'[j], now')
           /\ pairings'[k].activation = "activated"
           /\ \A j \in Pairings \ {k} : pairings'[j] = pairings[j]
<1> DEFINE r == pairings[k]
           p == ProfileOf[f]
           e == [r.envelope EXCEPT !.profile = p]
           state == IF r.state = "activating" THEN "activated" ELSE r.state
           s == [r EXCEPT !.activation = "activated", !.envelope = e, !.state = state]
<1>1. now \in Nat /\ r \in Records /\ RecordOk(r) /\ r.envelope \in Envelopes /\ p \in Profiles
  BY NamesAssumption DEF StoreInv, StoreType, Recorded, Records
<1>2. /\ r.envelope.config = f /\ r.envelope.profile = None /\ r.activation # "none"
      /\ r.state \notin {"unissued", "gone", "cancelled"}
  BY DEF FinalizeVerdict, CompleteVerdict, Gone
<1>3. r.activation = "activating" /\ r.state \in {"activating", "expired"}
  <2>1. r.activation # "activated"
    BY <1>1, <1>2, NamesAssumption DEF RecordOk
  <2> QED BY <1>1, <1>2, <2>1 DEF RecordOk, Records, Early
<1>4. e \in Envelopes /\ e.config = f /\ e.device = r.envelope.device /\ e.profile = p
  BY <1>1, <1>2 DEF Envelopes
<1>5. state \in {"activated", "expired"} /\ (state = "activated" <=> r.state = "activating")
  BY <1>3
<1> HIDE DEF e, state
<1>6. s \in Records
  <2>1. state \in {"unissued", "pending", "activating", "activated", "consumed",
                   "cancelled", "expired", "gone"}
    BY <1>5
  <2> QED BY <1>1, <1>4, <2>1, Zenon DEF Records
<1>7. /\ s.state = state /\ s.activation = "activated" /\ s.envelope = e /\ s.token = r.token
      /\ s.retryUntil = r.retryUntil /\ s.until = r.until /\ s.expiresAt = r.expiresAt
  BY <1>1 DEF Records
<1>8. pairings' = [pairings EXCEPT ![k] = s] /\ UNCHANGED retryIndex
  BY <1>1 DEF FinalizeEffect, Update, e, state, Records, Envelopes
<1> HIDE DEF s
<1>9. RecordOk(s)
  BY <1>1, <1>3, <1>4, <1>5, <1>7 DEF RecordOk, Early
<1>10. \A j \in Pairings : pairings'[j] = IF j = k THEN s ELSE pairings[j]
  BY <1>8 DEF StoreInv, StoreType
<1>11. StoreType' /\ Recorded' /\ Requested'
  <2>1. StoreType'
    BY <1>6, <1>8 DEF StoreInv, StoreType
  <2> QED BY <1>7, <1>9, <1>10, <2>1 DEF StoreInv, Recorded, Requested
<1>12. ASSUME NEW t \in Tokens PROVE LeadsBack(t)'
  <2>1. LeadsBack(t) /\ retryIndex[t].pairing \in Pairings \cup {None}
    BY DEF StoreInv, StoreType, Indexed
  <2> QED BY <1>3, <1>5, <1>7, <1>8, <1>10, <2>1 DEF LeadsBack, Bound
<1>13. ASSUME NEW j \in Pairings PROVE LedTo(j)'
  <2>1. LedTo(j)
    BY DEF StoreInv, Indexed
  <2> QED BY <1>3, <1>7, <1>8, <1>10, <2>1 DEF LedTo, Over
<1>14. ASSUME NEW j \in Pairings PROVE Keeps(pairings[j], pairings'[j], now')
  <2>1. CASE j = k
    BY <1>2, <1>3, <1>4, <1>5, <1>7, <1>10, <2>1 DEF Keeps, Early, Past
  <2>2. CASE j # k
    BY <1>10, <2>2 DEF Keeps
  <2> QED BY <2>1, <2>2
<1> QED BY <1>7, <1>10, <1>11, <1>12, <1>13, <1>14 DEF StoreInv, Indexed

-----------------------------------------------------------------------------
(* The owners.                                                               *)

Owners == [token : Tokens \cup {None}, config : Configs \cup {None}, device : Nat]

EnvelopeOf(o) == [config |-> o.config, device |-> o.device, profile |-> ProfileOf[o.config]]

RecordOwned(k, o) ==
    /\ pairings[k].activation # "none" =>
          /\ pairings[k].token = o.token
          /\ pairings[k].envelope.config = o.config /\ pairings[k].envelope.device = o.device
    /\ pairings[k].activation = "activated" => HasDevice(k)

\* A request under way: whose it is, what it has seen to, and how long its answer
\* may be asked for again.
Working(w, o) ==
    LET r == pairings[w.pairing]
    IN /\ w.request.token = o.token /\ w.request.config = o.config
       /\ w.envelope.device = o.device
       /\ r.state \notin Early
       /\ r.activation # "none" => w.retryUntil = r.retryUntil
       /\ w.pc \in {"peek", "complete", "status", "issue"} => HasDevice(w.pairing)
       /\ w.pc \in {"status", "issue"} /\ ~Over(w.retryUntil)
             /\ r.state \notin {"cancelled", "gone"} => r.activation = "activated"

BrowserOk(w, owner) ==
    /\ w.pc \notin {"redeem", "authenticate", "disclose"}
    /\ w.pc # "idle" => w.request \in Requests
    /\ w.pc \in {"idle", "activate"} <=> w.pairing = None
    /\ w.pairing # None => Working(w, owner[w.pairing])

\* A poll under way: what it has read, and that it may tell it.
Polling(w, o) ==
    LET r == pairings[w.pairing]
    IN /\ o.config \in Configs /\ w.envelope = EnvelopeOf(o)
       /\ r.state \notin Early
       /\ w.pc \in {"authenticate", "disclose"} =>
             /\ r.state \in Past
             /\ r.state = "consumed" => r.envelope = w.envelope

PollerOk(w, owner) ==
    /\ w.pc \in {"idle", "redeem", "authenticate", "disclose"}
    /\ w.pc = "idle" <=> w.pairing = None
    /\ w.pairing # None => Polling(w, owner[w.pairing])

DeviceOk(d, owner) ==
    LET o == owner[d.pairing]
    IN /\ d.profile = ProfileOf[o.config] /\ d.token = o.device
       /\ pairings[d.pairing].state \notin Early

AnswerOk(x, owner) ==
    LET o == owner[x.pairing]
    IN /\ x.token = o.token /\ x.config = o.config /\ x.profile = ProfileOf[o.config]
       /\ pairings[x.pairing].state \notin Early

DisclosureOk(x, owner) ==
    LET o == owner[x.pairing]
    IN /\ x.config = o.config /\ x.profile = ProfileOf[o.config] /\ x.token = o.device
       /\ pairings[x.pairing].state \in Past

Owned(owner) ==
    /\ \A k \in Pairings : RecordOwned(k, owner[k])
    /\ \A b \in Browsers : BrowserOk(client[b], owner)
    /\ \A q \in Pollers : PollerOk(client[q], owner)
    /\ \A d \in devices : DeviceOk(d, owner)
    /\ \A x \in answers : AnswerOk(x, owner)
    /\ \A x \in disclosures : DisclosureOk(x, owner)

\* A sealed answer is the owner's, and its pairing is activated for as long.
ReplyOk(t) ==
    LET x == replays[t]
        r == pairings[x.pairing]
    IN x.status = "issued" /\ ~Over(x.until) =>
          /\ x.pairing \in Pairings
          /\ r.state \notin {"cancelled", "gone"} =>
                /\ r.activation = "activated" /\ r.token = t
                /\ r.envelope.config = x.config /\ x.until <= r.retryUntil

Replied == \A t \in Tokens : ReplyOk(t)

Replays == [status : {"none", "issued", "denied"}, pairing : Pairings \cup {None},
            config : Configs \cup {None}, session : Nat, until : Nat, denialUntil : Nat]

RestType ==
    /\ active \subseteq Profiles /\ revoked \subseteq Profiles
    /\ devices \subseteq [pairing : Pairings, profile : Profiles, token : Nat, revoked : BOOLEAN]
    /\ client \in [Browsers \cup Pollers -> Clients]
    /\ deviceTokens \in Nat
    /\ answers \subseteq [pairing : Pairings, token : Tokens, config : Configs, profile : Profiles]
    /\ disclosures \subseteq [pairing : Pairings, config : Configs, profile : Profiles, token : Nat]
    /\ replays \in [Tokens -> Replays] /\ minted \in Nat

IInv ==
    /\ StoreInv /\ RestType /\ Replied
    /\ \E owner \in [Pairings -> Owners] : Owned(owner)

-----------------------------------------------------------------------------
(* What stays, stays owned.                                                  *)

\* Nothing of an earlier pairing is claimed by a new one, so that the owner may
\* change with its first activation.
LEMMA BrowserStays ==
    ASSUME now \in Nat, now' \in Nat, now' >= now, NEW w \in Clients, NEW owner, NEW new,
           BrowserOk(w, owner),
           w.pairing # None => /\ Kept(w.pairing) /\ new[w.pairing] = owner[w.pairing]
                               /\ pairings[w.pairing].retryUntil \in Nat
    PROVE  BrowserOk(w, new)'
<1>1. CASE w.pairing = None
  BY <1>1 DEF BrowserOk
<1>2. CASE w.pairing # None
  <2> DEFINE k == w.pairing
             r == pairings[k]
             s == pairings'[k]
             o == owner[k]
  <2>1. Working(w, o) /\ Keeps(r, s, now') /\ (HasDevice(k) => HasDevice(k)')
    BY <1>2 DEF BrowserOk, Kept
  <2>2. s.state \notin Early
    BY <2>1 DEF Working, Keeps
  <2>3. s.activation # "none" => w.retryUntil = s.retryUntil
    BY <2>1 DEF Working, Keeps
  <2>4. w.pc \in {"status", "issue"} /\ ~(w.retryUntil <= now')
           /\ s.state \notin {"cancelled", "gone"} => s.activation = "activated"
    <3>1. SUFFICES ASSUME w.pc \in {"status", "issue"}, ~(w.retryUntil <= now'),
                          s.state \notin {"cancelled", "gone"}
                   PROVE  s.activation = "activated"
      OBVIOUS
    <3>2. w.retryUntil \in Nat
      BY DEF Clients
    <3>3. r.activation = "activated"
      BY <2>1, <3>1, <3>2 DEF Working, Keeps, Over
    <3> QED BY <2>1, <3>1, <3>3 DEF Working, Keeps
  <2>5. Working(w, o)'
    BY <2>1, <2>2, <2>3, <2>4 DEF Working, Over
  <2> QED BY <1>2, <2>5 DEF BrowserOk
<1> QED BY <1>1, <1>2

LEMMA PollerStays ==
    ASSUME NEW w, NEW owner, NEW new, PollerOk(w, owner),
           w.pairing # None => Kept(w.pairing) /\ new[w.pairing] = owner[w.pairing]
    PROVE  PollerOk(w, new)'
  BY DEF PollerOk, Polling, Kept, Keeps

LEMMA RowStays ==
    ASSUME NEW x, NEW owner, NEW new,
           Kept(x.pairing) /\ new[x.pairing] = owner[x.pairing]
    PROVE  /\ DeviceOk(x, owner) => DeviceOk(x, new)'
           /\ AnswerOk(x, owner) => AnswerOk(x, new)'
           /\ DisclosureOk(x, owner) => DisclosureOk(x, new)'
  BY DEF DeviceOk, AnswerOk, DisclosureOk, Kept, Keeps

LEMMA RecordStays ==
    ASSUME NEW k, NEW o, Kept(k), RecordOwned(k, o),
           \/ pairings'[k].activation = "activated" => pairings[k].activation = "activated"
           \/ HasDevice(k)'
    PROVE  RecordOwned(k, o)'
  BY DEF RecordOwned, Kept, Keeps

LEMMA ReplyStays ==
    ASSUME now \in Nat, now' \in Nat, now' >= now, NEW t, ReplyOk(t), replays'[t] = replays[t],
           replays[t].until \in Nat,
           replays[t].status = "issued" /\ ~Over(replays[t].until) =>
              /\ Kept(replays[t].pairing)
              /\ pairings[replays[t].pairing].retryUntil \in Nat
              /\ RecordOk(pairings'[replays[t].pairing])
    PROVE  ReplyOk(t)'
<1> DEFINE x == replays[t]
           r == pairings[x.pairing]
           s == pairings'[x.pairing]
<1>1. SUFFICES ASSUME x.status = "issued", ~(x.until <= now')
               PROVE  /\ x.pairing \in Pairings
                      /\ s.state \notin {"cancelled", "gone"} =>
                            /\ s.activation = "activated" /\ s.token = t
                            /\ s.envelope.config = x.config /\ x.until <= s.retryUntil
  BY DEF ReplyOk, Over
<1>2. ~Over(x.until)
  BY <1>1 DEF Over
<1>3. /\ x.pairing \in Pairings /\ Keeps(r, s, now') /\ r.retryUntil \in Nat
      /\ r.state \notin {"cancelled", "gone"} =>
            /\ r.activation = "activated" /\ r.token = t
            /\ r.envelope.config = x.config /\ x.until <= r.retryUntil
  BY <1>1, <1>2 DEF ReplyOk, Kept
<1>4. ASSUME s.state \notin {"cancelled", "gone"}
      PROVE  /\ s.activation = "activated" /\ s.token = t
             /\ s.envelope.config = x.config /\ x.until <= s.retryUntil
  <2>1. r.state \notin {"cancelled", "gone"}
    BY <1>3, <1>4 DEF Keeps
  <2>2. s.activation # "none"
    BY <1>1, <1>3, <1>4, <2>1 DEF Keeps
  <2> QED BY <1>3, <2>1, <2>2 DEF Keeps
<1> QED BY <1>3, <1>4

\* The frame of every step but the first activation: what it does not change is
\* owned as before.
LEMMA Frame ==
    ASSUME StoreInv, RestType, Replied, StoreInv', RestType', now' >= now,
           NEW owner \in [Pairings -> Owners], Owned(owner),
           \A k \in Pairings : Kept(k),
           \A k \in Pairings :
              \/ pairings'[k].activation = "activated" => pairings[k].activation = "activated"
              \/ HasDevice(k)',
           \A b \in Browsers : client'[b] = client[b] \/ BrowserOk(client[b], owner)',
           \A q \in Pollers : client'[q] = client[q] \/ PollerOk(client[q], owner)',
           \A d \in devices' : d \in devices \/ DeviceOk(d, owner)',
           \A x \in answers' : x \in answers \/ AnswerOk(x, owner)',
           \A x \in disclosures' : x \in disclosures \/ DisclosureOk(x, owner)',
           \A t \in Tokens :
              replays'[t] = replays[t] \/ replays'[t].status # "issued" \/ ReplyOk(t)'
    PROVE  IInv'
<1>1. /\ now \in Nat /\ now' \in Nat /\ client \in [Browsers \cup Pollers -> Clients]
      /\ \A k \in Pairings : pairings[k].retryUntil \in Nat
  BY DEF StoreInv, StoreType, RestType, Records
<1>2. \A k \in Pairings : RecordOwned(k, owner[k])'
  BY RecordStays DEF Owned
<1>3. ASSUME NEW b \in Browsers PROVE BrowserOk(client[b], owner)'
  <2>1. CASE client'[b] = client[b]
    <3>1. PICK w \in Clients : w = client[b]
      BY <1>1
    <3>2. BrowserOk(w, owner) /\ (w.pairing # None => w.pairing \in Pairings)
      BY <3>1 DEF Owned, Clients
    <3>3. BrowserOk(w, owner)'
      BY <1>1, <3>2, BrowserStays
    <3> QED BY <2>1, <3>1, <3>3
  <2> QED BY <2>1
<1>4. ASSUME NEW q \in Pollers PROVE PollerOk(client[q], owner)'
  <2>1. CASE client'[q] = client[q]
    <3>1. PICK w \in Clients : w = client[q]
      BY <1>1
    <3>2. PollerOk(w, owner) /\ (w.pairing # None => w.pairing \in Pairings)
      BY <3>1 DEF Owned, Clients
    <3>3. PollerOk(w, owner)'
      BY <3>2, PollerStays
    <3> QED BY <2>1, <3>1, <3>3
  <2> QED BY <2>1
<1>5. /\ \A d \in devices' : DeviceOk(d, owner)'
      /\ \A x \in answers' : AnswerOk(x, owner)'
      /\ \A x \in disclosures' : DisclosureOk(x, owner)'
  <2>1. /\ \A d \in devices : d.pairing \in Pairings /\ DeviceOk(d, owner)
        /\ \A x \in answers : x.pairing \in Pairings /\ AnswerOk(x, owner)
        /\ \A x \in disclosures : x.pairing \in Pairings /\ DisclosureOk(x, owner)
    BY DEF Owned, RestType
  <2> QED BY <2>1, RowStays
<1>6. Owned(owner)'
  BY <1>2, <1>3, <1>4, <1>5 DEF Owned
<1>7. ASSUME NEW t \in Tokens PROVE ReplyOk(t)'
  <2>1. CASE replays'[t] = replays[t]
    <3>1. ReplyOk(t) /\ replays[t].until \in Nat
      BY DEF Replied, RestType, Replays
    <3>2. \A k \in Pairings : RecordOk(pairings'[k])
      BY DEF StoreInv, Recorded
    <3> QED BY <1>1, <2>1, <3>1, <3>2, ReplyStays DEF ReplyOk
  <2>2. CASE replays'[t].status # "issued"
    BY <2>2 DEF ReplyOk
  <2> QED BY <2>1, <2>2
<1>8. Replied'
  BY <1>7 DEF Replied
<1> QED BY <1>6, <1>8 DEF IInv

-----------------------------------------------------------------------------
(* Kinds of steps.                                                           *)

LEMMA IdleOk ==
    /\ Idle \in Clients /\ Idle.pc = "idle" /\ Idle.pairing = None
    /\ Idle.envelope = NoEnvelope /\ Idle.retryUntil = 0
    /\ \A owner : BrowserOk(Idle, owner) /\ PollerOk(Idle, owner)
<1>1. Idle \in Clients
  BY DEF Idle, Clients, Labels, NoEnvelope, Envelopes
<1> QED BY <1>1 DEF Idle, BrowserOk, PollerOk

LEMMA Labelled ==
    ASSUME NEW w \in Clients, NEW label \in Labels
    PROVE  /\ [w EXCEPT !.pc = label] \in Clients
           /\ [w EXCEPT !.pc = label].pc = label
           /\ [w EXCEPT !.pc = label].request = w.request
           /\ [w EXCEPT !.pc = label].pairing = w.pairing
           /\ [w EXCEPT !.pc = label].envelope = w.envelope
           /\ [w EXCEPT !.pc = label].retryUntil = w.retryUntil
<1>1. [w EXCEPT !.pc = label] \in Clients
  BY Zenon DEF Clients
<1> QED BY <1>1 DEF Clients

LEMMA ClientMoves ==
    ASSUME RestType, NEW c \in Browsers \cup Pollers, NEW w \in Clients, Become(c, w),
           NEW owner,
           c \in Browsers => BrowserOk(w, owner)',
           c \in Pollers => PollerOk(w, owner)'
    PROVE  /\ client' \in [Browsers \cup Pollers -> Clients]
           /\ \A b \in Browsers : client'[b] = client[b] \/ BrowserOk(client[b], owner)'
           /\ \A q \in Pollers : client'[q] = client[q] \/ PollerOk(client[q], owner)'
<1>1. \A d \in Browsers \cup Pollers : client'[d] = IF d = c THEN w ELSE client[d]
  BY DEF RestType, Become
<1>2. client' \in [Browsers \cup Pollers -> Clients]
  BY DEF RestType, Become
<1> QED BY <1>1, <1>2

\* The management store, when it issues no answer.
ManagementWanes ==
    /\ replays' \in [Tokens -> Replays] /\ minted' \in Nat /\ revoked' \subseteq Profiles
    /\ \A t \in Tokens : replays'[t] = replays[t] \/ replays'[t].status # "issued"

LEMMA Unmanaged ==
    ASSUME RestType, UNCHANGED managementVars
    PROVE  ManagementWanes
  BY DEF RestType, managementVars, ManagementWanes

\* A step in which a client moves and the stores only wane.
LEMMA ClientStep ==
    ASSUME IInv, NEW owner \in [Pairings -> Owners], Owned(owner),
           NEW c \in Browsers \cup Pollers, NEW w \in Clients, Become(c, w),
           c \in Browsers => BrowserOk(w, owner),
           c \in Pollers => PollerOk(w, owner),
           Waned, now' = now, ManagementWanes,
           UNCHANGED <<pgVars, deviceTokens, historyVars>>
    PROVE  IInv'
<1>1. UNCHANGED <<active, devices, deviceTokens, answers, disclosures>>
  BY DEF pgVars, historyVars
<1>2. StoreInv' /\ (\A k \in Pairings : Kept(k)) /\ NoneActivated
  BY <1>1, WaneKeeps DEF IInv, HasDevice
<1>3. now \in Nat /\ (w.pairing # None => w.pairing \in Pairings)
      /\ \A k \in Pairings : pairings[k].retryUntil \in Nat
  BY DEF IInv, StoreInv, StoreType, Clients, Records
<1>4. c \in Browsers => BrowserOk(w, owner)'
  BY <1>2, <1>3, BrowserStays
<1>5. c \in Pollers => PollerOk(w, owner)'
  BY <1>2, <1>3, PollerStays
<1>6. /\ client' \in [Browsers \cup Pollers -> Clients]
      /\ \A b \in Browsers : client'[b] = client[b] \/ BrowserOk(client[b], owner)'
      /\ \A q \in Pollers : client'[q] = client[q] \/ PollerOk(client[q], owner)'
  BY <1>4, <1>5, ClientMoves DEF IInv
<1>7. RestType'
  BY <1>1, <1>6 DEF IInv, RestType, ManagementWanes
<1> QED BY <1>1, <1>2, <1>3, <1>6, <1>7, Frame DEF IInv, NoneActivated, ManagementWanes

\* A step in which no client moves and the stores only wane.
LEMMA StoreStep ==
    ASSUME IInv, Waned, now' >= now, ManagementWanes,
           UNCHANGED <<pgVars, client, deviceTokens, historyVars>>
    PROVE  IInv'
<1>1. UNCHANGED <<active, devices, client, deviceTokens, answers, disclosures>>
  BY DEF pgVars, historyVars
<1>2. StoreInv' /\ (\A k \in Pairings : Kept(k)) /\ NoneActivated
  BY <1>1, WaneKeeps DEF IInv, HasDevice
<1>3. RestType'
  BY <1>1 DEF IInv, RestType, ManagementWanes
<1>4. PICK owner \in [Pairings -> Owners] : Owned(owner)
  BY DEF IInv
<1> QED BY <1>1, <1>2, <1>3, <1>4, Frame DEF IInv, NoneActivated, ManagementWanes

\* A step that leaves both stores in Redis alone.
LEMMA Quiet ==
    ASSUME IInv, UNCHANGED <<now, pairingVars, managementVars>>
    PROVE  Waned /\ now' = now /\ now' >= now /\ ManagementWanes
<1>1. now' = now /\ UNCHANGED pairingVars /\ UNCHANGED managementVars /\ now \in Nat
  BY DEF IInv, StoreInv, StoreType
<1> QED BY <1>1, Unchanged, Unmanaged DEF IInv

-----------------------------------------------------------------------------
(* The scripts on the management sessions.                                   *)

LEMMA DeniedReply ==
    ASSUME NEW r \in Replays
    PROVE  Denied(r) \in Replays /\ Denied(r).status # "issued"
<1>1. NoReplay \in Replays /\ NoReplay.status # "issued"
  BY DEF NoReplay, Replays
<1> DEFINE d == [NoReplay EXCEPT !.status = "denied", !.pairing = r.pairing,
                 !.config = r.config, !.denialUntil = r.denialUntil]
<1>2. d \in Replays /\ d.status # "issued"
  BY DEF NoReplay, Replays
<1> QED BY <1>1, <1>2 DEF Denied

LEMMA ReplayWanes ==
    ASSUME RestType, NEW t \in Tokens, NEW v, ReplayEffect(t, v), UNCHANGED <<revoked, minted>>
    PROVE  ManagementWanes
<1> DEFINE x == IF v = "over" THEN NoReplay
                ELSE IF v \in {"closed", "stale"} THEN Denied(replays[t]) ELSE replays[t]
<1>1. replays' = [replays EXCEPT ![t] = x]
  BY DEF ReplayEffect
<1>2. NoReplay \in Replays /\ NoReplay.status # "issued"
  BY DEF NoReplay, Replays
<1>3. replays[t] \in Replays
  BY DEF RestType
<1>4. x \in Replays /\ (x = replays[t] \/ x.status # "issued")
  BY <1>2, <1>3, DeniedReply
<1> HIDE DEF x
<1> QED BY <1>1, <1>4 DEF RestType, ManagementWanes

LEMMA RevokeWanes ==
    ASSUME RestType, NEW t \in Tokens, NEW k, NEW f, RevokeReplay(t, k, f)
    PROVE  ManagementWanes
<1>1. replays[t] \in Replays
  BY DEF RestType
<1>2. CASE replays' = [replays EXCEPT ![t] = Denied(replays[t])]
  BY <1>1, <1>2, DeniedReply DEF RestType, RevokeReplay, ManagementWanes
<1>3. CASE UNCHANGED replays
  BY <1>3 DEF RestType, RevokeReplay, ManagementWanes
<1> QED BY <1>2, <1>3 DEF RevokeReplay

LEMMA WithdrawWanes ==
    ASSUME RestType, NEW gone, Withdraw(gone), minted' = minted, revoked' \subseteq Profiles
    PROVE  ManagementWanes
<1>1. \A t \in Tokens : /\ replays[t] \in Replays
                        /\ replays'[t] \in {replays[t], Denied(replays[t])}
  BY DEF RestType, Withdraw
<1>2. \A t \in Tokens : /\ replays'[t] \in Replays
                        /\ replays'[t] = replays[t] \/ replays'[t].status # "issued"
  BY <1>1, DeniedReply
<1>3. replays' = [t \in Tokens |-> replays'[t]]
  BY DEF Withdraw
<1> QED BY <1>2, <1>3 DEF RestType, ManagementWanes

LEMMA DropReplays ==
    ASSUME RestType, NEW u, DropManagement(u)
    PROVE  ManagementWanes
<1>1. NoReplay \in Replays /\ NoReplay.status # "issued"
  BY DEF NoReplay, Replays
<1>2. \A t \in Tokens : /\ replays[t] \in Replays
                        /\ replays'[t] \in {replays[t], NoReplay}
  BY DEF RestType, DropManagement
<1>3. \A t \in Tokens : /\ replays'[t] \in Replays
                        /\ replays'[t] = replays[t] \/ replays'[t].status # "issued"
  BY <1>1, <1>2
<1>4. replays' = [t \in Tokens |-> replays'[t]]
  BY DEF DropManagement
<1> QED BY <1>3, <1>4 DEF RestType, DropManagement, ManagementWanes

-----------------------------------------------------------------------------
(* The steps of a browser's request.                                         *)

\* What a request works on.
LEMMA Underway ==
    ASSUME IInv, NEW owner, Owned(owner), NEW b \in Browsers, client[b].pc # "idle"
    PROVE  /\ client[b] \in Clients /\ client[b].request \in Requests
           /\ Token(b) \in Tokens /\ Config(b) \in Configs /\ Profile(b) \in Profiles
           /\ client[b].pc # "activate" =>
                 /\ client[b].pairing \in Pairings /\ client[b].pairing # None
                 /\ Working(client[b], owner[client[b].pairing])
<1>1. client[b] \in Clients /\ BrowserOk(client[b], owner)
  BY DEF IInv, RestType, Owned
<1>2. client[b].request \in Requests
  BY <1>1 DEF BrowserOk
<1>3. Token(b) \in Tokens /\ Config(b) \in Configs /\ Profile(b) \in Profiles
  BY <1>2, RequestsAssumption, NamesAssumption DEF Token, Config, Profile
<1> QED BY <1>1, <1>2, <1>3 DEF BrowserOk, Clients

\* A request goes on, with what it has, or gives up.
LEMMA GoesOn ==
    ASSUME IInv, NEW owner \in [Pairings -> Owners], Owned(owner), NEW b \in Browsers,
           client[b].pc \notin {"idle", "activate"},
           \/ Done(b)
           \/ \E label \in {"replay", "recheck", "confirm", "deny", "register", "answer"} :
                 Goto(b, label),
           Waned, now' = now, ManagementWanes, UNCHANGED <<pgVars, deviceTokens, historyVars>>
    PROVE  IInv'
<1>1. CASE Done(b)
  BY <1>1, IdleOk, ClientStep, RequestsAssumption DEF Done
<1>2. ASSUME NEW label \in {"replay", "recheck", "confirm", "deny", "register", "answer"},
             Goto(b, label)
      PROVE  IInv'
  <2> DEFINE w == [client[b] EXCEPT !.pc = label]
  <2>1. client[b] \in Clients /\ BrowserOk(client[b], owner) /\ label \in Labels
    BY DEF IInv, RestType, Owned, Labels
  <2>2. /\ w \in Clients /\ w.pc = label /\ w.request = client[b].request
        /\ w.pairing = client[b].pairing /\ w.envelope = client[b].envelope
        /\ w.retryUntil = client[b].retryUntil
    BY <2>1, Labelled
  <2>3. Become(b, w)
    BY <1>2 DEF Goto
  <2> HIDE DEF w
  <2>4. BrowserOk(w, owner)
    BY <2>1, <2>2 DEF BrowserOk, Working
  <2> QED BY <2>2, <2>3, <2>4, ClientStep, RequestsAssumption
<1> QED BY <1>1, <1>2

LEMMA StartActivateStep ==
    ASSUME IInv, NEW b \in Browsers, NEW r \in Requests, StartActivate(b, r)
    PROVE  IInv'
<1> DEFINE w == [Idle EXCEPT !.request = r, !.pc = "activate"]
<1>1. /\ w \in Clients /\ w.pc = "activate" /\ w.request = r /\ w.pairing = None
  BY DEF Idle, Clients, Labels, NoEnvelope, Envelopes
<1>2. Become(b, w)
  BY DEF StartActivate
<1> HIDE DEF w
<1>3. \A owner : BrowserOk(w, owner)
  BY <1>1 DEF BrowserOk
<1>4. PICK owner \in [Pairings -> Owners] : Owned(owner)
  BY DEF IInv
<1> QED BY <1>1, <1>2, <1>3, <1>4, Quiet, ClientStep, RequestsAssumption DEF StartActivate

\* A request that found the activation of its token and configuration.
LEMMA FoundStep ==
    ASSUME IInv, NEW b \in Browsers, NEW r \in Requests, NEW k \in Pairings,
           Activating(b, r, k), Waned, now' = now, UNCHANGED pairings, ManagementWanes,
           UNCHANGED <<pgVars, deviceTokens, historyVars>>,
           pairings[k].activation # "none", pairings[k].token = r.token,
           pairings[k].envelope.config = r.config
    PROVE  IInv'
<1>1. PICK owner \in [Pairings -> Owners] : Owned(owner)
  BY DEF IInv
<1> DEFINE e == pairings[k].envelope
<1>2. PICK label \in {"replay", "register"} :
         Become(b, [Idle EXCEPT !.request = r, !.pairing = k, !.envelope = e,
                       !.retryUntil = pairings[k].retryUntil, !.pc = label])
  BY DEF Activating
<1> DEFINE w == [Idle EXCEPT !.request = r, !.pairing = k, !.envelope = e,
                    !.retryUntil = pairings[k].retryUntil, !.pc = label]
<1>3. pairings[k] \in Records /\ RecordOk(pairings[k])
  BY DEF IInv, StoreInv, StoreType, Recorded
<1>4. /\ w \in Clients /\ w.pc = label /\ w.request = r /\ w.pairing = k /\ w.envelope = e
      /\ w.retryUntil = pairings[k].retryUntil
  <2>1. e \in Envelopes /\ pairings[k].retryUntil \in Nat
    BY <1>3 DEF Records
  <2> QED BY <2>1 DEF Idle, Clients, Labels
<1>5. Become(b, w)
  BY <1>2
<1> HIDE DEF w
<1>6. RecordOwned(k, owner[k])
  BY <1>1 DEF Owned
<1>7. pairings[k].state \notin Early
  BY <1>3 DEF RecordOk
<1>8. Working(w, owner[k])
  BY <1>4, <1>6, <1>7 DEF Working, RecordOwned
<1>9. BrowserOk(w, owner)
  BY <1>4, <1>8, NamesAssumption DEF BrowserOk
<1> QED BY <1>1, <1>4, <1>5, <1>9, ClientStep, RequestsAssumption

\* A request that activates the pairing: it is nobody's, and becomes its own.
LEMMA NewStep ==
    ASSUME IInv, NEW b \in Browsers, Activate(b),
           ActivateVerdict(client[b].request.pairing, Token(b), Config(b)) = "new"
    PROVE  IInv'
<1>1. PICK owner \in [Pairings -> Owners] : Owned(owner)
  BY DEF IInv
<1>2. PICK x \in Requests : x = client[b].request
  BY <1>1, Underway DEF Activate, At
<1>3. PICK made \in Nat : made = deviceTokens + 1
  BY DEF IInv, RestType
<1> DEFINE k == x.pairing
<1>4. k \in Pairings /\ x.token \in Tokens /\ x.config \in Configs /\ k # None
  BY RequestsAssumption, NamesAssumption
<1>5. /\ now' = now /\ deviceTokens' = made /\ Activating(b, x, k)
      /\ ActivateEffect(k, x.token, x.config, made, "new")
      /\ UNCHANGED <<managementVars, pgVars, historyVars>>
  BY <1>2, <1>3 DEF Activate, Token, Config
<1>6. UNCHANGED <<active, devices, answers, disclosures, revoked, sessions, replays, minted>>
  BY <1>5 DEF pgVars, historyVars, managementVars
<1> DEFINE e == [config |-> x.config, device |-> made, profile |-> None]
<1>7. /\ StoreInv'
      /\ pairings[k].state = "pending"
      /\ \A j \in Pairings \ {k} : pairings'[j] = pairings[j]
      /\ pairings'[k].state = "activating" /\ pairings'[k].activation = "activating"
      /\ pairings'[k].token = x.token
      /\ pairings'[k].envelope = e
  BY <1>4, <1>5, <1>2, ActivateNew DEF IInv, Token, Config
<1> DEFINE o == [token |-> x.token, config |-> x.config, device |-> made]
           new == [owner EXCEPT ![k] = o]
<1>8. /\ new \in [Pairings -> Owners] /\ new[k] = o
      /\ \A j \in Pairings \ {k} : new[j] = owner[j]
  BY <1>4 DEF Owners
<1> HIDE DEF o, new
<1>9. ASSUME NEW j \in Pairings \ {k}
      PROVE  /\ Kept(j) /\ new[j] = owner[j] /\ pairings[j].retryUntil \in Nat
             /\ pairings'[j].activation = "activated" => pairings[j].activation = "activated"
  BY <1>6, <1>7, <1>8 DEF Kept, Keeps, HasDevice, IInv, StoreInv, StoreType, Records
<1>10. /\ now \in Nat /\ now' \in Nat /\ now' >= now
       /\ client \in [Browsers \cup Pollers -> Clients]
  BY <1>5 DEF IInv, StoreInv, StoreType, RestType
<1> DEFINE label == IF e.profile # None THEN "replay" ELSE "register"
           w == [Idle EXCEPT !.request = x, !.pairing = k, !.envelope = e,
                    !.retryUntil = pairings'[k].retryUntil, !.pc = "register"]
<1>11. Become(b, w)
  <2>1. e.profile = None
    OBVIOUS
  <2> QED BY <1>5, <1>7, <2>1 DEF Activating
<1>12. /\ w \in Clients /\ w.pc = "register" /\ w.request = x /\ w.pairing = k
       /\ w.envelope = e /\ w.retryUntil = pairings'[k].retryUntil
  <2>1. e \in Envelopes /\ pairings'[k].retryUntil \in Nat
    BY <1>4, <1>7 DEF Envelopes, StoreInv, StoreType, Records
  <2> QED BY <1>4, <2>1 DEF Idle, Clients, Labels
<1>13. e.device = o.device /\ x.token = o.token /\ x.config = o.config /\ e.config = o.config
  BY DEF o
<1> HIDE DEF e, w
<1>14. BrowserOk(client[b], new)'
  <2>1. PICK v \in Clients : v = w /\ v = client'[b]
    BY <1>10, <1>11, <1>12 DEF Become
  <2>2. Working(v, new[k])'
    BY <1>7, <1>8, <1>12, <1>13, <2>1 DEF Working, Early
  <2>3. BrowserOk(v, new)'
    BY <1>4, <1>12, <2>1, <2>2 DEF BrowserOk
  <2> QED BY <2>1, <2>3
<1>15. ASSUME NEW c \in Browsers, c # b PROVE BrowserOk(client[c], new)'
  <2>1. PICK v \in Clients : v = client[c] /\ v = client'[c]
    BY <1>10, <1>11, <1>15 DEF Become
  <2>2. BrowserOk(v, owner) /\ (v.pairing # None => v.pairing \in Pairings)
    BY <1>1, <2>1 DEF Owned, Clients
  <2>3. v.pairing # k
    BY <1>4, <1>7, <2>2 DEF BrowserOk, Working, Early
  <2>4. BrowserOk(v, new)'
    BY <1>9, <1>10, <2>2, <2>3, BrowserStays
  <2> QED BY <2>1, <2>4
<1>16. ASSUME NEW q \in Pollers PROVE PollerOk(client[q], new)'
  <2>1. PICK v \in Clients : v = client[q] /\ v = client'[q]
    BY <1>10, <1>11, RequestsAssumption DEF Become
  <2>2. PollerOk(v, owner) /\ (v.pairing # None => v.pairing \in Pairings)
    BY <1>1, <2>1 DEF Owned, Clients
  <2>3. v.pairing # k
    BY <1>4, <1>7, <2>2 DEF PollerOk, Polling, Early
  <2>4. PollerOk(v, new)'
    BY <1>9, <2>2, <2>3, PollerStays
  <2> QED BY <2>1, <2>4
<1>17. /\ \A d \in devices : DeviceOk(d, new)'
       /\ \A y \in answers : AnswerOk(y, new)'
       /\ \A y \in disclosures : DisclosureOk(y, new)'
  <2>1. /\ \A d \in devices : d.pairing \in Pairings /\ DeviceOk(d, owner)
        /\ \A y \in answers : y.pairing \in Pairings /\ AnswerOk(y, owner)
        /\ \A y \in disclosures : y.pairing \in Pairings /\ DisclosureOk(y, owner)
    BY <1>1 DEF Owned, IInv, RestType
  <2>2. /\ \A d \in devices : d.pairing # k
        /\ \A y \in answers : y.pairing # k
        /\ \A y \in disclosures : y.pairing # k
    BY <1>7, <2>1 DEF DeviceOk, AnswerOk, DisclosureOk, Early, Past
  <2> QED BY <1>9, <2>1, <2>2, RowStays
<1>18. ASSUME NEW j \in Pairings PROVE RecordOwned(j, new[j])'
  <2>1. CASE j = k
    BY <1>7, <1>8, <1>13, <2>1 DEF RecordOwned, e
  <2>2. CASE j # k
    BY <1>1, <1>9, <2>2, RecordStays DEF Owned
  <2> QED BY <2>1, <2>2
<1>19. Owned(new)'
  BY <1>6, <1>14, <1>15, <1>16, <1>17, <1>18 DEF Owned
<1>20. ASSUME NEW t \in Tokens PROVE ReplyOk(t)'
  <2>1. ReplyOk(t) /\ replays[t].until \in Nat /\ replays'[t] = replays[t]
    BY <1>6 DEF IInv, Replied, RestType, Replays
  <2>2. replays[t].status = "issued" /\ ~Over(replays[t].until) =>
           /\ replays[t].pairing \in Pairings /\ replays[t].pairing # k
    BY <1>4, <1>7, <2>1 DEF ReplyOk, IInv, StoreInv, Recorded, RecordOk, Early
  <2>3. \A j \in Pairings : RecordOk(pairings'[j])
    BY <1>7 DEF StoreInv, Recorded
  <2> QED BY <1>9, <1>10, <2>1, <2>2, <2>3, ReplyStays
<1>21. RestType'
  <2>1. client' \in [Browsers \cup Pollers -> Clients]
    BY <1>10, <1>11, <1>12 DEF Become
  <2> QED BY <1>4, <1>5, <1>6, <2>1 DEF IInv, RestType
<1> QED BY <1>7, <1>8, <1>19, <1>20, <1>21 DEF IInv, Replied

LEMMA ActivateStep ==
    ASSUME IInv, NEW b \in Browsers, Activate(b)
    PROVE  IInv'
<1> DEFINE x == client[b].request
           k == x.pairing
           v == ActivateVerdict(k, x.token, x.config)
<1>1. PICK owner \in [Pairings -> Owners] : Owned(owner)
  BY DEF IInv
<1>2. /\ x \in Requests /\ k \in Pairings /\ x.token \in Tokens /\ x.config \in Configs
  BY <1>1, Underway, RequestsAssumption DEF Activate, At
<1>3. CASE v = "new"
  BY <1>3, NewStep DEF Token, Config
<1>4. CASE v # "new"
  <2>1. /\ now' = now /\ deviceTokens' = deviceTokens
        /\ ActivateEffect(k, x.token, x.config, deviceTokens + 1, v)
        /\ UNCHANGED <<managementVars, pgVars, historyVars>>
        /\ IF v \in {"activating", "activated"} THEN Activating(b, x, k) ELSE Done(b)
    BY <1>4 DEF Activate, Token, Config
  <2>2. Waned /\ ManagementWanes /\ UNCHANGED <<pgVars, deviceTokens, historyVars>>
    BY <1>2, <1>4, <2>1, ActivateWanes, Unmanaged DEF IInv
  <2>3. CASE v \in {"activating", "activated"}
    <3>1. UNCHANGED pairings
      BY <2>1, <2>3 DEF ActivateEffect, pairingVars
    <3>2. /\ pairings[k].activation # "none" /\ pairings[k].token = x.token
          /\ pairings[k].envelope.config = x.config
      BY <2>3 DEF ActivateVerdict
    <3> QED BY <1>2, <2>1, <2>2, <2>3, <3>1, <3>2, FoundStep
  <2>4. CASE v \notin {"activating", "activated"}
    BY <1>1, <2>1, <2>2, <2>4, IdleOk, ClientStep, RequestsAssumption DEF Done
  <2> QED BY <2>3, <2>4
<1> QED BY <1>3, <1>4

LEMMA RecoverActivationStep ==
    ASSUME IInv, NEW b \in Browsers, NEW r \in Requests, RecoverActivation(b, r)
    PROVE  IInv'
<1> DEFINE v == RecoverPairingVerdict(r.token, r.config)
           k == retryIndex[r.token].pairing
<1>1. /\ r.token \in Tokens /\ now' = now /\ RecoverPairingEffect(r.token, v)
      /\ UNCHANGED pairings
      /\ UNCHANGED <<managementVars, pgVars, deviceTokens, historyVars>>
      /\ IF v \in {"activating", "activated"} THEN Activating(b, r, k) ELSE UNCHANGED client
  BY RequestsAssumption DEF RecoverActivation, RecoverPairingEffect
<1>2. now' >= now /\ Waned /\ ManagementWanes
  BY <1>1, RecoverWanes, Unmanaged DEF IInv, StoreInv, StoreType
<1>3. CASE v \in {"activating", "activated"}
  <2>1. k \in Pairings
    BY <1>1, <1>3 DEF RecoverPairingVerdict, IInv, StoreInv, StoreType
  <2>2. /\ pairings[k].activation # "none" /\ pairings[k].token = r.token
        /\ pairings[k].envelope.config = r.config
    BY <1>3 DEF RecoverPairingVerdict
  <2> QED BY <1>1, <1>2, <1>3, <2>1, <2>2, FoundStep
<1>4. CASE v \notin {"activating", "activated"}
  BY <1>1, <1>2, <1>4, StoreStep
<1> QED BY <1>3, <1>4

LEMMA ReplayStep ==
    ASSUME IInv, NEW b \in Browsers, Replay(b) PROVE IInv'
<1>1. PICK owner \in [Pairings -> Owners] : Owned(owner)
  BY DEF IInv
<1>2. client[b].pc = "replay" /\ Token(b) \in Tokens
  BY <1>1, Underway DEF Replay, At
<1>3. /\ RecoverEffect(Token(b), Replayed(b))
      /\ UNCHANGED pairingVars /\ now' = now
      /\ UNCHANGED <<pgVars, deviceTokens, historyVars>>
  BY DEF Replay
<1>4. Waned /\ ManagementWanes
  BY <1>2, <1>3, Unchanged, ReplayWanes DEF IInv, RecoverEffect
<1>5. Done(b) \/ Goto(b, "recheck") \/ Goto(b, "register")
  BY DEF Replay
<1> QED BY <1>1, <1>2, <1>3, <1>4, <1>5, GoesOn

LEMMA RecheckStep ==
    ASSUME IInv, NEW b \in Browsers, RecheckProfile(b) PROVE IInv'
<1>1. PICK owner \in [Pairings -> Owners] : Owned(owner)
  BY DEF IInv
<1>2. /\ Goto(b, "confirm") \/ Goto(b, "deny")
      /\ client[b].pc = "recheck" /\ UNCHANGED <<now, pairingVars, managementVars>>
      /\ UNCHANGED <<pgVars, deviceTokens, historyVars>>
  BY DEF RecheckProfile, At
<1> QED BY <1>1, <1>2, Quiet, GoesOn

\* The answer carries the profile of the configuration.
LEMMA AnsweredOk ==
    ASSUME IInv, NEW owner, Owned(owner), NEW b \in Browsers,
           client[b].pc \notin {"idle", "activate"}
    PROVE  Answered(b) \in Clients /\ BrowserOk(Answered(b), owner)
<1> DEFINE w == client[b]
           e == [w.envelope EXCEPT !.profile = Profile(b)]
           a == [w EXCEPT !.pc = "answer", !.envelope = e]
<1>1. w \in Clients /\ w.envelope \in Envelopes /\ Profile(b) \in Profiles /\ BrowserOk(w, owner)
  BY Underway DEF Clients, Owned
<1>2. e \in Envelopes /\ e.device = w.envelope.device
  BY <1>1 DEF Envelopes
<1>3. Answered(b) = a
  BY <1>1 DEF Answered, Clients, Envelopes
<1> HIDE DEF e
<1>4. a \in Clients
  <2>1. "answer" \in Labels
    BY DEF Labels
  <2> QED BY <1>1, <1>2, <2>1, Zenon DEF Clients
<1>5. /\ a.pc = "answer" /\ a.request = w.request /\ a.pairing = w.pairing /\ a.envelope = e
  BY <1>1 DEF Clients
<1>6. a.retryUntil = w.retryUntil
  BY <1>1 DEF Clients
<1> HIDE DEF a, w
<1>7. BrowserOk(a, owner)
  BY <1>1, <1>2, <1>5, <1>6 DEF BrowserOk, Working, w
<1> QED BY <1>3, <1>4, <1>7

LEMMA ConfirmStep ==
    ASSUME IInv, NEW b \in Browsers, ConfirmReplay(b) PROVE IInv'
<1>1. PICK owner \in [Pairings -> Owners] : Owned(owner)
  BY DEF IInv
<1>2. client[b].pc = "confirm" /\ Token(b) \in Tokens
  BY <1>1, Underway DEF ConfirmReplay, At
<1>3. /\ RecoverEffect(Token(b), Replayed(b))
      /\ UNCHANGED pairingVars /\ now' = now
      /\ UNCHANGED <<pgVars, deviceTokens, historyVars>>
  BY DEF ConfirmReplay
<1>4. Waned /\ ManagementWanes
  BY <1>2, <1>3, Unchanged, ReplayWanes DEF IInv, RecoverEffect
<1>5. CASE Become(b, Answered(b))
  BY <1>1, <1>2, <1>3, <1>4, <1>5, AnsweredOk, ClientStep, RequestsAssumption
<1>6. CASE Done(b) \/ Goto(b, "register")
  BY <1>1, <1>2, <1>3, <1>4, <1>6, GoesOn
<1> QED BY <1>5, <1>6 DEF ConfirmReplay

LEMMA DenyStep ==
    ASSUME IInv, NEW b \in Browsers, DenyReplay(b) PROVE IInv'
<1>1. PICK owner \in [Pairings -> Owners] : Owned(owner)
  BY DEF IInv
<1>2. client[b].pc = "deny" /\ Token(b) \in Tokens
  BY <1>1, Underway DEF DenyReplay, At
<1>3. /\ RevokeReplay(Token(b), client[b].pairing, Config(b)) /\ Done(b)
      /\ UNCHANGED pairingVars /\ now' = now
      /\ UNCHANGED <<pgVars, deviceTokens, historyVars>>
  BY DEF DenyReplay
<1>4. Waned /\ ManagementWanes
  BY <1>2, <1>3, Unchanged, RevokeWanes DEF IInv
<1> QED BY <1>1, <1>2, <1>3, <1>4, GoesOn

LEMMA RegisterStep ==
    ASSUME IInv, NEW b \in Browsers, Register(b) PROVE IInv'
<1>1. PICK owner \in [Pairings -> Owners] : Owned(owner)
  BY DEF IInv
<1>2. PICK k \in Pairings, w \in Clients :
         /\ k = client[b].pairing /\ w = [client[b] EXCEPT !.pc = "peek"]
         /\ w.pc = "peek" /\ w.request = client[b].request /\ w.pairing = k
         /\ w.envelope = client[b].envelope /\ w.retryUntil = client[b].retryUntil
  <2>1. "peek" \in Labels
    BY DEF Labels
  <2>2. client[b] \in Clients /\ client[b].pairing \in Pairings
    BY <1>1, Underway DEF Register, At
  <2> QED BY <2>1, <2>2, Labelled
<1>3. /\ client[b].pc = "register" /\ client[b] \in Clients
      /\ Profile(b) \in Profiles /\ Working(client[b], owner[k])
  BY <1>1, <1>2, Underway DEF Register, At
<1>4. /\ UNCHANGED <<now, pairingVars, managementVars>>
      /\ UNCHANGED <<active, deviceTokens, answers, disclosures>>
  BY DEF Register, historyVars
<1>5. /\ UNCHANGED <<pairings, replays, minted, revoked>>
  BY <1>4 DEF pairingVars, managementVars
<1> DEFINE d == [pairing |-> client[b].pairing, profile |-> Profile(b),
                 token |-> client[b].envelope.device, revoked |-> FALSE]
<1>6. CASE Done(b) /\ UNCHANGED devices
  BY <1>1, <1>3, <1>4, <1>6, Quiet, GoesOn DEF pgVars, historyVars
<1>7. CASE devices' = devices \cup {d} /\ Goto(b, "peek")
  <2>1. PICK row \in [pairing : Pairings, profile : Profiles, token : Nat, revoked : BOOLEAN] :
           row = d
    BY <1>2, <1>3 DEF Clients, Envelopes
  <2>2. HasDevice(k)' /\ \A j \in Pairings : HasDevice(j) => HasDevice(j)'
    <3>1. devices' = devices \cup {row} /\ row.pairing = k
      BY <1>2, <1>7, <2>1
    <3> QED BY <3>1 DEF HasDevice
  <2>3. Waned /\ now' = now /\ now' >= now /\ ManagementWanes
    BY <1>4, Quiet
  <2>4. StoreInv' /\ (\A j \in Pairings : Kept(j)) /\ NoneActivated
    BY <2>2, <2>3, WaneKeeps DEF IInv
  <2>5. DeviceOk(row, owner)'
    BY <1>2, <1>3, <1>5, <2>1 DEF DeviceOk, Working, Profile, Config
  <2>6. Become(b, w)
    BY <1>2, <1>7 DEF Goto
  <2>7. BrowserOk(w, owner)'
    <3>1. w.request \in Requests /\ w.pairing # None
      BY <1>1, <1>2, <1>3, Underway
    <3>2. Working(w, owner[k])'
      BY <1>2, <1>3, <1>4, <1>5, <2>2 DEF Working, Over
    <3> QED BY <1>2, <3>1, <3>2 DEF BrowserOk
  <2>8. /\ client' \in [Browsers \cup Pollers -> Clients]
        /\ \A c \in Browsers : client'[c] = client[c] \/ BrowserOk(client[c], owner)'
        /\ \A q \in Pollers : client'[q] = client[q] \/ PollerOk(client[q], owner)'
    BY <2>6, <2>7, ClientMoves, RequestsAssumption DEF IInv
  <2>9. RestType'
    BY <1>4, <1>5, <1>7, <2>1, <2>8 DEF IInv, RestType
  <2>10. devices' = devices \cup {row}
    BY <1>7, <2>1
  <2>11. \A x \in devices' : x \in devices \/ DeviceOk(x, owner)'
    BY <2>5, <2>10
  <2> QED BY <1>1, <1>4, <1>5, <2>3, <2>4, <2>8, <2>9, <2>11, Frame DEF IInv, NoneActivated
<1> QED BY <1>6, <1>7 DEF Register

LEMMA PeekStep ==
    ASSUME IInv, NEW b \in Browsers, PeekCompletion(b) PROVE IInv'
<1>1. PICK owner \in [Pairings -> Owners] : Owned(owner)
  BY DEF IInv
<1> DEFINE k == client[b].pairing
           e == pairings[k].envelope
           w == [client[b] EXCEPT !.pc = "complete", !.envelope = e]
<1>2. /\ UNCHANGED <<now, pairingVars, managementVars>>
      /\ UNCHANGED <<pgVars, deviceTokens, historyVars>> /\ client[b].pc = "peek"
  BY DEF PeekCompletion, At
<1>3. CASE Done(b)
  BY <1>1, <1>2, <1>3, Quiet, GoesOn
<1>4. CASE CompleteVerdict(k, Config(b)) = "ready" /\ Become(b, w)
  <2>1. /\ client[b] \in Clients /\ k \in Pairings /\ k # None
        /\ Working(client[b], owner[k]) /\ client[b].request \in Requests
    BY <1>1, <1>2, Underway
  <2>2. pairings[k].activation # "none" /\ e \in Envelopes /\ RecordOwned(k, owner[k])
    BY <1>1, <1>4, <2>1
       DEF CompleteVerdict, IInv, StoreInv, StoreType, Records, Owned
  <2>3. w \in Clients
    <3>1. "complete" \in Labels
      BY DEF Labels
    <3> HIDE DEF e
    <3> QED BY <2>1, <2>2, <3>1, Zenon DEF Clients
  <2>4. /\ w.pc = "complete" /\ w.request = client[b].request /\ w.pairing = k
        /\ w.envelope = e /\ w.retryUntil = client[b].retryUntil
    BY <2>1 DEF Clients
  <2> HIDE DEF w
  <2>5. Working(w, owner[k])
    BY <1>2, <2>1, <2>2, <2>4 DEF Working, RecordOwned
  <2>6. BrowserOk(w, owner)
    BY <2>1, <2>4, <2>5 DEF BrowserOk
  <2> QED BY <1>1, <1>2, <1>4, <2>3, <2>6, Quiet, ClientStep, RequestsAssumption
<1> QED BY <1>3, <1>4 DEF PeekCompletion

LEMMA CompleteStep ==
    ASSUME IInv, NEW b \in Browsers, Complete(b) PROVE IInv'
<1>1. PICK owner \in [Pairings -> Owners] : Owned(owner)
  BY DEF IInv
<1> DEFINE v == FinalizeVerdict(client[b].pairing, Config(b), client[b].envelope, Profile(b))
<1>2. /\ FinalizeEffect(client[b].pairing, Profile(b), v) /\ now' = now
      /\ UNCHANGED managementVars /\ UNCHANGED <<pgVars, deviceTokens, historyVars>>
      /\ client[b].pc = "complete"
      /\ IF v \in {"activated", "finalized"} THEN Goto(b, "status") ELSE Done(b)
  BY DEF Complete, At
<1>3. UNCHANGED <<active, devices, deviceTokens, answers, disclosures, replays, minted, revoked>>
  BY <1>2 DEF pgVars, historyVars, managementVars
<1>4. PICK k \in Pairings, w \in Clients :
         /\ k = client[b].pairing /\ w = [client[b] EXCEPT !.pc = "status"]
         /\ w.pc = "status" /\ w.request = client[b].request /\ w.pairing = k
         /\ w.envelope = client[b].envelope /\ w.retryUntil = client[b].retryUntil
  <2>1. "status" \in Labels
    BY DEF Labels
  <2>2. client[b] \in Clients /\ client[b].pairing \in Pairings
    BY <1>1, <1>2, Underway
  <2> QED BY <2>1, <2>2, Labelled
<1>5. /\ client[b] \in Clients /\ k # None /\ Config(b) \in Configs
      /\ Working(client[b], owner[k]) /\ client[b].request \in Requests
  BY <1>1, <1>2, <1>4, Underway
<1>6. now \in Nat
  BY DEF IInv, StoreInv, StoreType
<1>7. ManagementWanes
  BY <1>2, Unmanaged DEF IInv
<1>8. CASE v \notin {"activated", "finalized"}
  <2>1. UNCHANGED pairingVars
    BY <1>2, <1>8 DEF FinalizeEffect, pairingVars
  <2> QED BY <1>1, <1>2, <1>7, <1>8, <2>1, Unchanged, GoesOn DEF IInv
<1>9. CASE v \in {"activated", "finalized"}
  <2>1. /\ StoreInv' /\ \A j \in Pairings : Keeps(pairings[j], pairings'[j], now')
        /\ pairings'[k].activation = "activated"
        /\ \A j \in Pairings \ {k} : pairings'[j] = pairings[j]
    <3>1. CASE v = "finalized"
      <4>1. PICK f \in Configs, e \in {client[b].envelope} : f = Config(b)
        BY <1>5
      <4>2. /\ FinalizeVerdict(k, f, e, ProfileOf[f]) = "finalized"
            /\ FinalizeEffect(k, ProfileOf[f], "finalized")
        BY <1>2, <1>4, <3>1, <4>1 DEF Profile
      <4> QED BY <1>2, <4>2, Finalized DEF IInv
    <3>2. CASE v = "activated"
      <4>1. UNCHANGED pairings /\ UNCHANGED pairingVars
        BY <1>2, <3>2 DEF FinalizeEffect, pairingVars
      <4>2. StoreInv' /\ (\A j \in Pairings : Kept(j))
        BY <1>2, <1>3, <4>1, Unchanged, WaneKeeps DEF IInv, HasDevice
      <4>3. pairings[k] \in Records /\ RecordOk(pairings[k])
        BY DEF IInv, StoreInv, StoreType, Recorded
      <4>4. pairings[k].envelope.profile # None
        BY <1>4, <3>2 DEF FinalizeVerdict, CompleteVerdict
      <4>5. pairings[k].activation = "activated"
        BY <4>3, <4>4 DEF RecordOk, Records, NoEnvelope
      <4> QED BY <4>1, <4>2, <4>5 DEF Kept
    <3> QED BY <1>9, <3>1, <3>2
  <2>2. HasDevice(k) /\ \A j \in Pairings : HasDevice(j)' = HasDevice(j)
    BY <1>2, <1>3, <1>4, <1>5 DEF Working, HasDevice
  <2>3. \A j \in Pairings : Kept(j)
    BY <2>1, <2>2 DEF Kept
  <2>4. \A j \in Pairings : \/ pairings'[j].activation = "activated" =>
                                 pairings[j].activation = "activated"
                            \/ HasDevice(j)'
    BY <2>1, <2>2
  <2>5. Become(b, w)
    BY <1>2, <1>4, <1>9 DEF Goto
  <2>6. BrowserOk(w, owner)'
    <3>1. Keeps(pairings[k], pairings'[k], now')
      BY <2>1
    <3>2. Working(w, owner[k])'
      BY <1>4, <1>5, <2>1, <2>2, <3>1 DEF Working, Keeps
    <3> QED BY <1>4, <1>5, <3>2 DEF BrowserOk
  <2>7. /\ client' \in [Browsers \cup Pollers -> Clients]
        /\ \A c \in Browsers : client'[c] = client[c] \/ BrowserOk(client[c], owner)'
        /\ \A q \in Pollers : client'[q] = client[q] \/ PollerOk(client[q], owner)'
    BY <2>5, <2>6, ClientMoves, RequestsAssumption DEF IInv
  <2>8. RestType'
    BY <1>3, <2>7 DEF IInv, RestType
  <2> QED BY <1>1, <1>2, <1>3, <1>6, <2>1, <2>3, <2>4, <2>7, <2>8, Frame DEF IInv
<1> QED BY <1>8, <1>9

LEMMA StatusStep ==
    ASSUME IInv, NEW b \in Browsers, CheckProfile(b) PROVE IInv'
<1>1. PICK owner \in [Pairings -> Owners] : Owned(owner)
  BY DEF IInv
<1>2. /\ UNCHANGED <<now, pairingVars, managementVars>>
      /\ UNCHANGED <<pgVars, deviceTokens, historyVars>> /\ client[b].pc = "status"
      /\ Goto(b, "issue") \/ Done(b)
  BY DEF CheckProfile, At
<1>3. CASE Done(b)
  BY <1>1, <1>2, <1>3, Quiet, GoesOn
<1>4. CASE Goto(b, "issue")
  <2> DEFINE w == [client[b] EXCEPT !.pc = "issue"]
  <2>1. /\ w \in Clients /\ w.pc = "issue" /\ w.request = client[b].request
        /\ w.pairing = client[b].pairing /\ w.envelope = client[b].envelope
        /\ w.retryUntil = client[b].retryUntil
    <3>1. "issue" \in Labels
      BY DEF Labels
    <3>2. client[b] \in Clients
      BY <1>1, <1>2, Underway
    <3> QED BY <3>1, <3>2, Labelled
  <2>2. Become(b, w)
    BY <1>4 DEF Goto
  <2> HIDE DEF w
  <2>3. BrowserOk(client[b], owner)
    BY <1>1 DEF Owned
  <2>4. BrowserOk(w, owner)
    BY <1>2, <2>1, <2>3 DEF BrowserOk, Working
  <2> QED BY <1>1, <1>2, <2>1, <2>2, <2>4, Quiet, ClientStep, RequestsAssumption
<1> QED BY <1>2, <1>3, <1>4

\* A session that is issued keeps its answer no longer than the pairing's retries.
LEMMA IssueStep ==
    ASSUME IInv, NEW b \in Browsers, IssueManagement(b) PROVE IInv'
<1>1. PICK owner \in [Pairings -> Owners] : Owned(owner)
  BY DEF IInv
<1> DEFINE v == IssueVerdict(Profile(b), Token(b), client[b].pairing, Config(b), client[b].retryUntil)
<1>2. /\ UNCHANGED <<now, pairingVars>> /\ client[b].pc = "issue"
      /\ IssueEffect(Profile(b), Token(b), client[b].pairing, Config(b), client[b].retryUntil, v)
      /\ IF v \in {"issued", "replayed"} THEN Become(b, Answered(b)) ELSE Done(b)
      /\ UNCHANGED <<pgVars, deviceTokens, historyVars>>
  BY DEF IssueManagement, At
<1>3. UNCHANGED <<active, devices, deviceTokens, answers, disclosures, pairings>>
  BY <1>2 DEF pgVars, historyVars, pairingVars
<1>4. Waned /\ now' = now /\ now' >= now
  BY <1>2, Unchanged DEF IInv, StoreInv, StoreType
<1>5. /\ client[b] \in Clients /\ Token(b) \in Tokens /\ Config(b) \in Configs
      /\ client[b].pairing \in Pairings /\ client[b].pairing # None
      /\ Working(client[b], owner[client[b].pairing])
  BY <1>1, <1>2, Underway
<1>6. CASE v # "issued"
  <2>1. ReplayEffect(Token(b), v) /\ UNCHANGED <<revoked, minted>>
    BY <1>2, <1>6 DEF IssueEffect
  <2>2. ManagementWanes
    BY <1>5, <2>1, ReplayWanes DEF IInv
  <2>3. CASE Become(b, Answered(b))
    BY <1>1, <1>2, <1>4, <2>2, <2>3, AnsweredOk, ClientStep, RequestsAssumption
  <2>4. CASE Done(b)
    BY <1>1, <1>2, <1>4, <2>2, <2>4, GoesOn
  <2> QED BY <1>2, <2>3, <2>4
<1>7. CASE v = "issued"
  <2>1. PICK k \in Pairings, t \in Tokens, f \in Configs, until \in Nat :
           k = client[b].pairing /\ t = Token(b) /\ f = Config(b) /\ until = client[b].retryUntil
    BY <1>5 DEF Clients
  <2>2. now \in Nat /\ minted \in Nat /\ revoked' = revoked
    BY <1>2 DEF IInv, StoreInv, StoreType, RestType, IssueEffect
  <2> DEFINE denial == Earlier(until, now + ReplayTtl)
             end == Earlier(denial, now + SessionTtl)
             x == [status |-> "issued", pairing |-> k, config |-> f, session |-> minted + 1,
                   until |-> end, denialUntil |-> denial]
  <2>3. denial \in Nat /\ end \in Nat /\ end <= until
    <3>1. now + ReplayTtl \in Nat /\ now + SessionTtl \in Nat
      BY <2>2, StoreAssumption
    <3>2. denial \in Nat /\ denial <= until
      BY <3>1 DEF Earlier
    <3> HIDE DEF denial
    <3> QED BY <3>1, <3>2 DEF Earlier
  <2>4. replays' = [replays EXCEPT ![t] = x] /\ minted' = minted + 1
    BY <1>2, <1>7, <2>1 DEF IssueEffect, NewSession
  <2> HIDE DEF denial, end
  <2>5. x \in Replays /\ x.status = "issued" /\ x.pairing = k /\ x.config = f /\ x.until = end
    BY <2>2, <2>3 DEF Replays
  <2> HIDE DEF x
  <2>6. /\ replays' \in [Tokens -> Replays] /\ minted' \in Nat /\ revoked' \subseteq Profiles
        /\ replays'[t] = x /\ \A u \in Tokens \ {t} : replays'[u] = replays[u]
    BY <2>2, <2>4, <2>5 DEF IInv, RestType
  <2>7. ReplyOk(t)'
    <3>1. SUFFICES ASSUME ~(end <= now), pairings[k].state \notin {"cancelled", "gone"}
                   PROVE  /\ pairings[k].activation = "activated" /\ pairings[k].token = t
                          /\ pairings[k].envelope.config = f /\ end <= pairings[k].retryUntil
      BY <1>3, <1>4, <2>5, <2>6 DEF ReplyOk, Over
    <3>2. ~Over(client[b].retryUntil)
      BY <2>1, <2>2, <2>3, <3>1 DEF Over
    <3>3. pairings[k].activation = "activated"
      BY <1>2, <1>5, <2>1, <3>1, <3>2 DEF Working
    <3>4. RecordOwned(k, owner[k])
      BY <1>1 DEF Owned
    <3> QED BY <1>5, <2>1, <2>3, <3>3, <3>4 DEF Working, RecordOwned, Token, Config
  <2>8. \A u \in Tokens : replays'[u] = replays[u] \/ ReplyOk(u)'
    BY <2>6, <2>7
  <2>9. StoreInv' /\ (\A j \in Pairings : Kept(j)) /\ NoneActivated
    BY <1>3, <1>4, WaneKeeps DEF IInv, HasDevice
  <2>10. PICK w \in Clients : w = Answered(b) /\ BrowserOk(w, owner)
    BY <1>1, <1>2, AnsweredOk
  <2>11. BrowserOk(w, owner)'
    <3>1. w.pairing # None => w.pairing \in Pairings
      BY DEF Clients
    <3>2. \A j \in Pairings : pairings[j].retryUntil \in Nat
      BY DEF IInv, StoreInv, StoreType, Records
    <3> QED BY <1>4, <2>2, <2>9, <2>10, <3>1, <3>2, BrowserStays
  <2>12. Become(b, w)
    BY <1>2, <1>7, <2>10
  <2>13. /\ client' \in [Browsers \cup Pollers -> Clients]
         /\ \A c \in Browsers : client'[c] = client[c] \/ BrowserOk(client[c], owner)'
         /\ \A q \in Pollers : client'[q] = client[q] \/ PollerOk(client[q], owner)'
    BY <2>11, <2>12, ClientMoves, RequestsAssumption DEF IInv
  <2>14. RestType'
    BY <1>3, <2>6, <2>13 DEF IInv, RestType
  <2> QED BY <1>1, <1>3, <1>4, <2>8, <2>9, <2>13, <2>14, Frame DEF IInv, NoneActivated
<1> QED BY <1>6, <1>7

LEMMA AnswerStep ==
    ASSUME IInv, NEW b \in Browsers, AnswerBrowser(b) PROVE IInv'
<1>1. PICK owner \in [Pairings -> Owners] : Owned(owner)
  BY DEF IInv
<1> DEFINE told == [pairing |-> client[b].pairing, token |-> Token(b), config |-> Config(b),
                    profile |-> Profile(b)]
<1>2. /\ UNCHANGED <<now, pairingVars, managementVars>> /\ client[b].pc = "answer" /\ Done(b)
      /\ answers' = answers \/ answers' = answers \cup {told}
      /\ UNCHANGED <<active, devices, deviceTokens, disclosures>>
  BY DEF AnswerBrowser, At, pgVars
<1>3. /\ Token(b) \in Tokens /\ Config(b) \in Configs /\ Profile(b) \in Profiles
      /\ client[b].pairing \in Pairings
      /\ Working(client[b], owner[client[b].pairing])
  BY <1>1, <1>2, Underway
<1>4. UNCHANGED <<pairings, replays, minted, revoked>>
  BY <1>2 DEF pairingVars, managementVars
<1>5. PICK x \in [pairing : Pairings, token : Tokens, config : Configs, profile : Profiles] :
         x = told
  BY <1>3
<1>6. AnswerOk(x, owner)'
  BY <1>3, <1>4, <1>5 DEF AnswerOk, Working, Token, Profile, Config
<1>7. answers' \in {answers, answers \cup {x}}
  BY <1>2, <1>5
<1>8. StoreInv' /\ (\A j \in Pairings : Kept(j)) /\ NoneActivated /\ now' >= now
  BY <1>2, Quiet, WaneKeeps DEF IInv, HasDevice
<1>9. /\ client' \in [Browsers \cup Pollers -> Clients]
      /\ \A c \in Browsers : client'[c] = client[c] \/ BrowserOk(client[c], owner)'
      /\ \A q \in Pollers : client'[q] = client[q] \/ PollerOk(client[q], owner)'
  <2>1. Become(b, Idle) /\ Idle \in Clients
    BY <1>2, IdleOk DEF Done
  <2>2. BrowserOk(Idle, owner)'
    BY DEF BrowserOk, Idle
  <2> QED BY <2>1, <2>2, ClientMoves, RequestsAssumption DEF IInv
<1>10. RestType'
  BY <1>2, <1>4, <1>7, <1>9 DEF IInv, RestType
<1>11. \A y \in answers' : y \in answers \/ AnswerOk(y, owner)'
  BY <1>6, <1>7
<1> QED BY <1>1, <1>2, <1>4, <1>8, <1>9, <1>10, <1>11, Frame DEF IInv, NoneActivated

LEMMA BrowserSteps ==
    ASSUME IInv, NEW b \in Browsers, BrowserStep(b) PROVE IInv'
  BY StartActivateStep, RecoverActivationStep, ActivateStep, ReplayStep, RecheckStep,
     ConfirmStep, DenyStep, RegisterStep, PeekStep, CompleteStep, StatusStep, IssueStep,
     AnswerStep DEF BrowserStep

-----------------------------------------------------------------------------
(* The steps of a device's poll.                                             *)

LEMMA PollUnderway ==
    ASSUME IInv, NEW owner, Owned(owner), NEW q \in Pollers, client[q].pc # "idle"
    PROVE  /\ client[q] \in Clients /\ client[q].pairing \in Pairings /\ client[q].pairing # None
           /\ Polling(client[q], owner[client[q].pairing])
  BY DEF IInv, RestType, Owned, PollerOk, Clients

LEMMA PollEnds ==
    ASSUME IInv, NEW owner \in [Pairings -> Owners], Owned(owner), NEW q \in Pollers, Done(q),
           Waned, now' = now, UNCHANGED managementVars,
           UNCHANGED <<pgVars, deviceTokens, historyVars>>
    PROVE  IInv'
<1>1. ManagementWanes
  BY Unmanaged DEF IInv
<1> QED BY <1>1, IdleOk, ClientStep, RequestsAssumption DEF Done

LEMMA StartPollStep ==
    ASSUME IInv, NEW q \in Pollers, NEW k \in Pairings, StartPoll(q, k) PROVE IInv'
<1>1. PICK owner \in [Pairings -> Owners] : Owned(owner)
  BY DEF IInv
<1> DEFINE r == pairings[k]
           v == PeekVerdict(k)
<1>2. RedeemEffect(k, v) /\ now' = now /\ UNCHANGED managementVars
      /\ UNCHANGED <<pgVars, deviceTokens, historyVars>>
  BY DEF StartPoll
<1>3. Waned /\ ManagementWanes
  <2>1. v # "consume" /\ (v = "gone" => Gone(k))
    BY DEF PeekVerdict, Gone
  <2> QED BY <1>2, <2>1, RedeemWanes, Unmanaged DEF IInv
<1>4. r \in Records /\ RecordOk(r) /\ RecordOwned(k, owner[k])
  BY <1>1 DEF IInv, StoreInv, StoreType, Recorded, Owned
<1>5. ASSUME NEW label \in {"redeem", "authenticate"},
             Become(q, [Idle EXCEPT !.pairing = k, !.envelope = r.envelope, !.pc = label]),
             v = IF label = "redeem" THEN "ready" ELSE "replay"
      PROVE  IInv'
  <2> DEFINE w == [Idle EXCEPT !.pairing = k, !.envelope = r.envelope, !.pc = label]
  <2>1. r.envelope \in Envelopes
    BY <1>4 DEF Records
  <2>2. w \in Clients /\ w.pc = label /\ w.pairing = k /\ w.envelope = r.envelope
    BY <2>1 DEF Idle, Clients, Labels
  <2> HIDE DEF w
  <2>3. r.activation = "activated" /\ (label = "authenticate" => r.state = "consumed")
    BY <1>4, <1>5 DEF PeekVerdict, Redeemable, RecordOk
  <2>4. /\ r.envelope.config \in Configs /\ r.envelope.config = owner[k].config
        /\ r.envelope.device = owner[k].device
        /\ r.envelope.profile = ProfileOf[r.envelope.config]
    BY <1>4, <2>3 DEF RecordOk, RecordOwned
  <2>5. r.envelope = EnvelopeOf(owner[k])
    BY <2>1, <2>4 DEF EnvelopeOf, Envelopes
  <2>6. r.state \notin Early
    BY <1>4, <2>3 DEF RecordOk
  <2>7. PollerOk(w, owner)
    BY <2>2, <2>3, <2>4, <2>5, <2>6, NamesAssumption DEF PollerOk, Polling, Past
  <2>8. Become(q, w)
    BY <1>5 DEF w
  <2> QED BY <1>1, <1>2, <1>3, <2>2, <2>7, <2>8, ClientStep, RequestsAssumption
<1>6. CASE v = "ready"
  BY <1>5, <1>6 DEF StartPoll
<1>7. CASE v = "replay"
  BY <1>5, <1>7 DEF StartPoll
<1>8. CASE v \notin {"ready", "replay"}
  BY <1>1, <1>2, <1>3, <1>8, PollEnds DEF StartPoll
<1> QED BY <1>6, <1>7, <1>8

LEMMA RedeemStep ==
    ASSUME IInv, NEW q \in Pollers, Redeem(q) PROVE IInv'
<1>1. PICK owner \in [Pairings -> Owners] : Owned(owner)
  BY DEF IInv
<1> DEFINE v == RedeemVerdict(client[q].pairing, client[q].envelope)
<1>2. /\ client[q].pc = "redeem" /\ RedeemEffect(client[q].pairing, v)
      /\ now' = now /\ UNCHANGED managementVars
      /\ UNCHANGED <<pgVars, deviceTokens, historyVars>>
      /\ IF v \in {"consume", "redeemed"} THEN Goto(q, "authenticate") ELSE Done(q)
  BY DEF Redeem, At
<1>3. UNCHANGED <<active, devices, deviceTokens, answers, disclosures, replays, minted, revoked>>
  BY <1>2 DEF pgVars, historyVars, managementVars
<1>4. PICK k \in Pairings, w \in Clients :
         /\ k = client[q].pairing /\ w = [client[q] EXCEPT !.pc = "authenticate"]
         /\ w.pc = "authenticate" /\ w.pairing = k /\ w.envelope = client[q].envelope
  <2>1. "authenticate" \in Labels
    BY DEF Labels
  <2>2. client[q] \in Clients /\ client[q].pairing \in Pairings
    BY <1>1, <1>2, PollUnderway
  <2> QED BY <2>1, <2>2, Labelled
<1>5. k # None /\ Polling(client[q], owner[k])
  BY <1>1, <1>2, <1>4, PollUnderway
<1>6. Waned
  <2>1. (v = "consume" => PeekVerdict(k) = "ready") /\ (v = "gone" => Gone(k))
    BY <1>4 DEF RedeemVerdict, PeekVerdict, Gone
  <2> QED BY <1>2, <1>4, <2>1, RedeemWanes DEF IInv
<1>7. CASE v \notin {"consume", "redeemed"}
  BY <1>1, <1>2, <1>6, <1>7, PollEnds
<1>8. CASE v \in {"consume", "redeemed"}
  <2>1. /\ pairings[k].state \notin Early /\ pairings'[k].state = "consumed"
        /\ pairings'[k].envelope = client[q].envelope
    <3>1. pairings \in [Pairings -> Records]
      BY DEF IInv, StoreInv, StoreType
    <3>2. CASE v = "consume"
      <4>1. PeekVerdict(k) = "ready" /\ pairings[k].envelope = client[q].envelope
        BY <1>4, <3>2 DEF RedeemVerdict, PeekVerdict
      <4> DEFINE u == Later(now + TombstoneTtl, pairings[k].retryUntil)
                 s == [pairings[k] EXCEPT !.state = "consumed", !.userUntil = 0, !.until = u,
                                          !.deviceUntil = Refresh(pairings[k].deviceUntil, u)]
      <4>2. Update(k, s)
        BY <1>2, <1>4, <3>2 DEF RedeemEffect
      <4>3. s.state = "consumed" /\ s.envelope = pairings[k].envelope
        BY <3>1 DEF Records
      <4> HIDE DEF s
      <4> QED BY <1>5, <1>4, <3>1, <4>1, <4>2, <4>3 DEF Update, Polling
    <3>3. CASE v = "redeemed"
      <4>1. PeekVerdict(k) = "replay" /\ pairings[k].envelope = client[q].envelope
        BY <1>4, <3>3 DEF RedeemVerdict, PeekVerdict
      <4>2. pairings[k].state = "consumed"
        BY <3>1, <4>1 DEF PeekVerdict, Records
      <4> QED BY <1>2, <1>4, <3>3, <4>1, <4>2 DEF RedeemEffect, Early
    <3> QED BY <1>8, <3>2, <3>3
  <2>2. StoreInv' /\ (\A j \in Pairings : Kept(j)) /\ NoneActivated
    BY <1>3, <1>6, WaneKeeps DEF IInv, HasDevice
  <2>3. PollerOk(w, owner)'
    <3>1. Polling(w, owner[k])'
      BY <1>4, <1>5, <2>1 DEF Polling, Early, Past
    <3> QED BY <1>4, <1>5, <3>1 DEF PollerOk
  <2>4. Become(q, w)
    BY <1>2, <1>4, <1>8 DEF Goto
  <2>5. /\ client' \in [Browsers \cup Pollers -> Clients]
        /\ \A c \in Browsers : client'[c] = client[c] \/ BrowserOk(client[c], owner)'
        /\ \A p \in Pollers : client'[p] = client[p] \/ PollerOk(client[p], owner)'
    BY <2>3, <2>4, ClientMoves, RequestsAssumption DEF IInv
  <2>6. RestType' /\ now' >= now
    BY <1>2, <1>3, <2>5 DEF IInv, RestType, StoreInv, StoreType
  <2> QED BY <1>1, <1>3, <2>2, <2>5, <2>6, Frame DEF IInv, NoneActivated
<1> QED BY <1>7, <1>8

LEMMA AuthenticateStep ==
    ASSUME IInv, NEW q \in Pollers, AuthenticateDevice(q) PROVE IInv'
<1>1. PICK owner \in [Pairings -> Owners] : Owned(owner)
  BY DEF IInv
<1>2. /\ client[q].pc = "authenticate" /\ UNCHANGED <<now, pairingVars, managementVars>>
      /\ UNCHANGED <<pgVars, deviceTokens, historyVars>>
      /\ Goto(q, "disclose") \/ Done(q)
  BY DEF AuthenticateDevice, At
<1>3. Waned /\ now' = now /\ ManagementWanes /\ UNCHANGED managementVars
  BY <1>2, Quiet
<1>4. CASE Goto(q, "disclose")
  <2> DEFINE w == [client[q] EXCEPT !.pc = "disclose"]
  <2>1. "disclose" \in Labels /\ client[q] \in Clients
    BY <1>1, <1>2, PollUnderway DEF Labels
  <2>2. w \in Clients /\ w.pc = "disclose" /\ w.pairing = client[q].pairing
        /\ w.envelope = client[q].envelope
    BY <2>1, Labelled
  <2>3. Become(q, w)
    BY <1>4 DEF Goto
  <2> HIDE DEF w
  <2>4. PollerOk(client[q], owner)
    BY <1>1 DEF Owned
  <2>5. PollerOk(w, owner)
    BY <1>2, <2>2, <2>4 DEF PollerOk, Polling
  <2> QED BY <1>1, <1>2, <1>3, <2>2, <2>3, <2>5, ClientStep, RequestsAssumption
<1> QED BY <1>1, <1>2, <1>3, <1>4, PollEnds

LEMMA DiscloseStep ==
    ASSUME IInv, NEW q \in Pollers, Disclose(q) PROVE IInv'
<1>1. PICK owner \in [Pairings -> Owners] : Owned(owner)
  BY DEF IInv
<1> DEFINE k == client[q].pairing
           e == client[q].envelope
           told == [pairing |-> k, config |-> e.config, profile |-> e.profile,
                    token |-> e.device]
<1>2. /\ UNCHANGED <<now, pairingVars, managementVars>> /\ client[q].pc = "disclose" /\ Done(q)
      /\ disclosures' = disclosures
         \/ (e.profile \in active /\ disclosures' = disclosures \cup {told})
      /\ UNCHANGED <<active, devices, deviceTokens, answers>>
  BY DEF Disclose, At, pgVars, Disclosable
<1>3. client[q] \in Clients /\ k \in Pairings /\ Polling(client[q], owner[k])
  BY <1>1, <1>2, PollUnderway
<1>4. UNCHANGED <<pairings, replays, minted, revoked>>
  BY <1>2 DEF pairingVars, managementVars
<1>5. /\ e = EnvelopeOf(owner[k]) /\ e.config \in Configs /\ e.device \in Nat
      /\ pairings[k].state \in Past
  BY <1>2, <1>3 DEF Polling, EnvelopeOf, Clients, Envelopes
<1>6. PICK x \in [pairing : Pairings, config : Configs, profile : Profiles, token : Nat] :
         x = told
  <2>1. e.profile \in Profiles
    BY <1>5, NamesAssumption DEF EnvelopeOf
  <2> QED BY <1>3, <1>5, <2>1
<1>7. DisclosureOk(x, owner)'
  BY <1>4, <1>5, <1>6 DEF DisclosureOk, EnvelopeOf
<1>8. disclosures' \in {disclosures, disclosures \cup {x}}
  BY <1>2, <1>6
<1>9. StoreInv' /\ (\A j \in Pairings : Kept(j)) /\ NoneActivated /\ now' >= now
  BY <1>2, Quiet, WaneKeeps DEF IInv, HasDevice
<1>10. /\ client' \in [Browsers \cup Pollers -> Clients]
       /\ \A c \in Browsers : client'[c] = client[c] \/ BrowserOk(client[c], owner)'
       /\ \A p \in Pollers : client'[p] = client[p] \/ PollerOk(client[p], owner)'
  <2>1. Become(q, Idle) /\ Idle \in Clients
    BY <1>2, IdleOk DEF Done
  <2>2. PollerOk(Idle, owner)'
    BY DEF PollerOk, Idle
  <2> QED BY <2>1, <2>2, ClientMoves, RequestsAssumption DEF IInv
<1>11. RestType'
  BY <1>2, <1>4, <1>8, <1>10 DEF IInv, RestType
<1>12. \A y \in disclosures' : y \in disclosures \/ DisclosureOk(y, owner)'
  BY <1>7, <1>8
<1> QED BY <1>1, <1>2, <1>4, <1>9, <1>10, <1>11, <1>12, Frame DEF IInv, NoneActivated

LEMMA PollerSteps ==
    ASSUME IInv, NEW q \in Pollers, PollerStep(q) PROVE IInv'
  BY StartPollStep, RedeemStep, AuthenticateStep, DiscloseStep DEF PollerStep

-----------------------------------------------------------------------------
(* The other steps.                                                          *)

LEMMA RevokeDeviceStep ==
    ASSUME IInv, NEW d \in devices, RevokeDevice(d) PROVE IInv'
<1>1. PICK owner \in [Pairings -> Owners] : Owned(owner)
  BY DEF IInv
<1>2. PICK row \in [pairing : Pairings, profile : Profiles, token : Nat, revoked : BOOLEAN] :
         /\ devices' = (devices \ {d}) \cup {row}
         /\ row.pairing = d.pairing /\ row.profile = d.profile /\ row.token = d.token
  <2>1. d \in [pairing : Pairings, profile : Profiles, token : Nat, revoked : BOOLEAN]
    BY DEF IInv, RestType
  <2> DEFINE row == [d EXCEPT !.revoked = TRUE]
  <2>2. /\ row \in [pairing : Pairings, profile : Profiles, token : Nat, revoked : BOOLEAN]
        /\ row.pairing = d.pairing /\ row.profile = d.profile /\ row.token = d.token
    BY <2>1
  <2>3. devices' = (devices \ {d}) \cup {row}
    BY DEF RevokeDevice
  <2> HIDE DEF row
  <2> QED BY <2>2, <2>3
<1>3. /\ UNCHANGED <<now, pairingVars, managementVars>>
      /\ UNCHANGED <<active, client, deviceTokens, answers, disclosures>>
  BY DEF RevokeDevice, historyVars
<1>4. UNCHANGED <<pairings, replays, minted, revoked>>
  BY <1>3 DEF pairingVars, managementVars
<1>5. \A k \in Pairings : HasDevice(k) => HasDevice(k)'
  BY <1>2 DEF HasDevice
<1>6. StoreInv' /\ (\A j \in Pairings : Kept(j)) /\ NoneActivated /\ now' >= now
  BY <1>3, <1>5, Quiet, WaneKeeps DEF IInv
<1>7. DeviceOk(d, owner)
  BY <1>1 DEF Owned
<1>8. DeviceOk(row, owner)'
  BY <1>2, <1>4, <1>7 DEF DeviceOk
<1>9. \A x \in devices' : x \in devices \/ DeviceOk(x, owner)'
  BY <1>2, <1>8
<1>10. RestType'
  BY <1>2, <1>3, <1>4 DEF IInv, RestType
<1> QED BY <1>1, <1>3, <1>4, <1>6, <1>9, <1>10, Frame DEF IInv, NoneActivated

LEMMA RequestErasureStep ==
    ASSUME IInv, NEW p \in Profiles, RequestErasure(p) PROVE IInv'
<1>1. PICK owner \in [Pairings -> Owners] : Owned(owner)
  BY DEF IInv
<1>2. /\ UNCHANGED <<now, pairingVars, managementVars>> /\ active' \subseteq active
      /\ UNCHANGED <<devices, client, deviceTokens, answers, disclosures>>
  BY DEF RequestErasure, historyVars
<1>3. UNCHANGED <<pairings, replays, minted, revoked>>
  BY <1>2 DEF pairingVars, managementVars
<1>4. StoreInv' /\ (\A j \in Pairings : Kept(j)) /\ NoneActivated /\ now' >= now
  BY <1>2, Quiet, WaneKeeps DEF IInv, HasDevice
<1>5. RestType'
  BY <1>2, <1>3 DEF IInv, RestType
<1> QED BY <1>1, <1>2, <1>3, <1>4, <1>5, Frame DEF IInv, NoneActivated

LEMMA TickStep ==
    ASSUME IInv, Tick PROVE IInv'
<1>1. now' = now + 1 /\ now' >= now
  BY DEF Tick, IInv, StoreInv, StoreType
<1>2. Waned /\ ManagementWanes
  BY <1>1, DropWanes, DropReplays DEF Tick, IInv
<1> QED BY <1>1, <1>2, StoreStep DEF Tick

LEMMA EnvironmentSteps ==
    ASSUME IInv, Environment PROVE IInv'
<1>1. ASSUME NEW k \in Pairings, Issue(k) \/ Cancel(k) PROVE IInv'
  <2>1. now' = now /\ UNCHANGED managementVars
        /\ UNCHANGED <<pgVars, client, deviceTokens, historyVars>>
    BY <1>1 DEF Issue, Cancel
  <2>2. Waned
    BY <1>1, <2>1, IssueWanes, CancelWanes DEF Issue, Cancel, IInv
  <2> QED BY <2>1, <2>2, Unmanaged, StoreStep DEF IInv, StoreInv, StoreType
<1>2. ASSUME NEW s \in sessions, Logout(s) PROVE IInv'
  <2>1. ManagementWanes
    BY <1>2, WithdrawWanes DEF Logout, RevokeSession, IInv, RestType
  <2> QED BY <1>2, <2>1, Unchanged, StoreStep DEF Logout, IInv, StoreInv, StoreType
<1>3. ASSUME NEW p \in Profiles, EraseSessions(p) PROVE IInv'
  <2>1. ManagementWanes
    BY <1>3, WithdrawWanes DEF EraseSessions, RevokeProfile, IInv, RestType
  <2> QED BY <1>3, <2>1, Unchanged, StoreStep DEF EraseSessions, IInv, StoreInv, StoreType
<1> QED BY <1>1, <1>2, <1>3, RevokeDeviceStep, RequestErasureStep, TickStep DEF Environment

-----------------------------------------------------------------------------
(* The theorems.                                                             *)

LEMMA Initially == Init => IInv
<1> SUFFICES ASSUME Init PROVE IInv
  OBVIOUS
<1>1. Unissued \in Records /\ RecordOk(Unissued) /\ Unissued.activation = "none"
      /\ Unissued.token = None
  BY DEF Unissued, Records, NoEnvelope, Envelopes, RecordOk
<1>2. StoreInv
  <2>1. StoreType
    BY <1>1 DEF Init, PairingInit, StoreType, Unindexed
  <2>2. Recorded /\ Requested
    BY <1>1 DEF Init, PairingInit, Recorded, Requested
  <2>3. Indexed
    BY <1>1 DEF Init, PairingInit, Indexed, LeadsBack, LedTo, Unindexed
  <2> QED BY <2>1, <2>2, <2>3 DEF StoreInv
<1>3. RestType /\ Replied
  BY IdleOk DEF Init, ManagementInit, RestType, Replied, ReplyOk, NoReplay, Replays
<1>4. PICK owner \in [Pairings -> Owners] : TRUE
  <2>1. [k \in Pairings |-> [token |-> None, config |-> None, device |-> 0]]
            \in [Pairings -> Owners]
    BY DEF Owners
  <2> QED BY <2>1
<1>5. Owned(owner)
  <2>1. \A k \in Pairings : RecordOwned(k, owner[k])
    BY <1>1 DEF Init, PairingInit, RecordOwned
  <2>2. /\ \A b \in Browsers : client[b] = Idle
        /\ \A q \in Pollers : client[q] = Idle
        /\ devices = {} /\ answers = {} /\ disclosures = {}
    BY DEF Init
  <2>3. BrowserOk(Idle, owner) /\ PollerOk(Idle, owner)
    BY IdleOk
  <2> HIDE DEF Init
  <2> QED BY <2>1, <2>2, <2>3 DEF Owned
<1> QED BY <1>2, <1>3, <1>5 DEF IInv

LEMMA Stuttering == IInv /\ UNCHANGED vars => IInv'
<1> SUFFICES ASSUME IInv, UNCHANGED vars PROVE IInv'
  OBVIOUS
<1>1. UNCHANGED <<now, pairingVars, managementVars>>
      /\ UNCHANGED <<pgVars, client, deviceTokens, historyVars>>
  BY DEF vars
<1> QED BY <1>1, Quiet, StoreStep

\* The invariant: who a pairing belongs to is settled once, and everything that
\* names the pairing, in Redis, in PostgreSQL and under way, names its owner.
THEOREM Invariance == Spec => []IInv
<1>1. IInv /\ [Next]_vars => IInv'
  BY BrowserSteps, PollerSteps, EnvironmentSteps, Stuttering DEF Next
<1> QED BY Initially, <1>1, PTL DEF Spec

\* The stores and the coordinator keep well-formed values.
THEOREM TypeCorrect == Spec => []TypeOK
<1>1. IInv => TypeOK
  BY DEF IInv, StoreInv, StoreType, RestType, TypeOK
<1> QED BY <1>1, Invariance, PTL

\* A pairing ends for one owner, or cancelled for nobody: the answers to browsers
\* and the disclosures to devices agree, whatever races, retries and expires.
THEOREM OutcomeStandsCorrect == Spec => []OutcomeStands
<1>1. IInv => OutcomeStands
  <2> SUFFICES ASSUME IInv PROVE OutcomeStands
    OBVIOUS
  <2>1. PICK owner \in [Pairings -> Owners] : Owned(owner)
    BY DEF IInv
  <2>2. OneOutcome
    <3>1. ASSUME NEW b \in Browsers, client[b].pairing # None
          PROVE  LET o == owner[client[b].pairing]
                 IN Token(b) = o.token /\ Config(b) = o.config
                    /\ client[b].envelope.device = o.device
      BY <2>1, <3>1 DEF Owned, BrowserOk, Working, Token, Config
    <3>2. ASSUME NEW x \in answers
          PROVE  LET o == owner[x.pairing]
                 IN x = [pairing |-> x.pairing, token |-> o.token, config |-> o.config,
                         profile |-> ProfileOf[o.config]]
      BY <2>1 DEF Owned, AnswerOk, IInv, RestType
    <3>3. ASSUME NEW x \in disclosures
          PROVE  LET o == owner[x.pairing]
                 IN x = [pairing |-> x.pairing, config |-> o.config,
                         profile |-> ProfileOf[o.config], token |-> o.device]
      BY <2>1 DEF Owned, DisclosureOk, IInv, RestType
    <3>4. \A b, c \in Browsers :
             client[b].pairing = client[c].pairing /\ client[b].pairing # None =>
                 /\ Token(b) = Token(c) /\ Config(b) = Config(c)
                 /\ client[b].envelope.device = client[c].envelope.device
      BY <3>1
    <3>5. /\ \A x, y \in answers : x.pairing = y.pairing => x = y
          /\ \A x, y \in disclosures : x.pairing = y.pairing => x = y
          /\ \A x \in answers, y \in disclosures :
                 x.pairing = y.pairing => x.config = y.config /\ x.profile = y.profile
      BY <3>2, <3>3
    <3> QED BY <3>4, <3>5 DEF OneOutcome
  <2>3. ASSUME NEW k \in Pairings, pairings[k].state = "cancelled", NEW x \in disclosures
        PROVE  x.pairing # k
    BY <2>1, <2>3 DEF Owned, DisclosureOk, Past
  <2>4. ASSUME NEW k \in Pairings, NEW q \in Pollers, client[q].pairing = k, ~At(q, "redeem")
        PROVE  /\ pairings[k].state \in {"consumed", "expired", "gone"}
               /\ pairings[k].state = "consumed" => pairings[k].envelope = client[q].envelope
    <3>1. k # None
      BY NamesAssumption
    <3> QED BY <2>1, <2>4, <3>1 DEF Owned, PollerOk, Polling, At, Past
  <2> QED BY <2>2, <2>3, <2>4 DEF OutcomeStands, CancelledTellsNothing
<1> QED BY <1>1, Invariance, PTL

\* Redis never runs ahead of PostgreSQL: a pairing that can be redeemed has its
\* device registered for the profile and with the token of its envelope.
THEOREM RegisteredCorrect == Spec => []RegisteredBeforeRedeemable
<1>1. IInv => RegisteredBeforeRedeemable
  <2> SUFFICES ASSUME IInv, NEW k \in Pairings, PeekVerdict(k) \in {"ready", "replay"}
               PROVE  \E d \in Device(k) : /\ d.profile = pairings[k].envelope.profile
                                           /\ d.token = pairings[k].envelope.device
    BY DEF RegisteredBeforeRedeemable
  <2>1. PICK owner \in [Pairings -> Owners] : Owned(owner)
    BY DEF IInv
  <2>2. pairings[k] \in Records /\ RecordOk(pairings[k]) /\ RecordOwned(k, owner[k])
    BY <2>1 DEF IInv, StoreInv, StoreType, Recorded, Owned
  <2>3. pairings[k].activation = "activated"
    BY <2>2 DEF PeekVerdict, Redeemable, RecordOk
  <2>4. PICK d \in devices : d.pairing = k
    BY <2>2, <2>3 DEF RecordOwned, HasDevice
  <2>5. DeviceOk(d, owner)
    BY <2>1 DEF Owned
  <2>6. d.profile = pairings[k].envelope.profile /\ d.token = pairings[k].envelope.device
    BY <2>2, <2>3, <2>4, <2>5 DEF DeviceOk, RecordOwned, RecordOk
  <2> QED BY <2>4, <2>6 DEF Device
<1> QED BY <1>1, Invariance, PTL

\* As long as a sealed answer is kept, a retry with its token and configuration
\* is led to it, unless the pairing was cancelled or is gone.
THEOREM RetryCorrect == Spec => []RetryReachesAnswer
<1>1. IInv => RetryReachesAnswer
  <2> SUFFICES ASSUME IInv, NEW t \in Tokens, replays[t].status = "issued",
                      ~Over(replays[t].until)
               PROVE  LET r == replays[t]
                          k == r.pairing
                      IN /\ pairings[k].state \notin {"cancelled", "gone"} =>
                                retryIndex[t].pairing = k
                         /\ retryIndex[t].pairing = k =>
                                /\ RecoverPairingVerdict(t, r.config) = "activated"
                                /\ pairings[k].envelope.profile = ProfileOf[r.config]
    BY DEF RetryReachesAnswer
  <2> DEFINE x == replays[t]
             k == x.pairing
             r == pairings[k]
  <2>1. ReplyOk(t) /\ x.until \in Nat /\ now \in Nat
    BY DEF IInv, Replied, RestType, Replays, StoreInv, StoreType
  <2>2. /\ k \in Pairings
        /\ r.state \notin {"cancelled", "gone"} =>
              /\ r.activation = "activated" /\ r.token = t
              /\ r.envelope.config = x.config /\ x.until <= r.retryUntil
    BY <2>1 DEF ReplyOk
  <2>3. r \in Records /\ RecordOk(r) /\ LedTo(k) /\ LeadsBack(t)
    BY <2>2 DEF IInv, StoreInv, StoreType, Recorded, Indexed
  <2>4. r.retryUntil \in Nat /\ r.expiresAt \in Nat /\ r.retryUntil <= r.expiresAt
    BY <2>3 DEF Records, RecordOk
  <2>5. ASSUME r.state \notin {"cancelled", "gone"}
        PROVE  ~Over(r.retryUntil) /\ ~Over(r.expiresAt)
    BY <2>1, <2>2, <2>4, <2>5 DEF Over
  <2>6. ASSUME r.state \notin {"cancelled", "gone"}
        PROVE  retryIndex[t].pairing = k
    BY <2>2, <2>3, <2>5, <2>6 DEF LedTo
  <2>7. ASSUME retryIndex[t].pairing = k
        PROVE  /\ RecoverPairingVerdict(t, x.config) = "activated"
               /\ r.envelope.profile = ProfileOf[x.config]
    <3>1. k # None
      BY <2>2, NamesAssumption
    <3>2. r.state \in Bound /\ r.token = t
      BY <2>3, <2>7, <3>1 DEF LeadsBack
    <3>3. r.state \notin {"cancelled", "gone", "unissued"}
      BY <3>2 DEF Bound
    <3>4. ~Over(r.retryUntil) /\ ~Over(r.expiresAt)
      BY <2>5, <3>3
    <3>5. r.activation = "activated" /\ r.envelope.config = x.config
      BY <2>2, <3>3
    <3> QED BY <2>3, <2>7, <3>1, <3>2, <3>3, <3>4, <3>5 DEF RecoverPairingVerdict, Gone, RecordOk
  <2> QED BY <2>6, <2>7
<1> QED BY <1>1, Invariance, PTL
=============================================================================
