-------------------------- MODULE ReplayGuardProofs --------------------------
(***************************************************************************)
(* A signed request is relayed at most once, for every set of nonces and   *)
(* keys and for every window and nonce lifetime with                       *)
(* NonceTtl >= 2 * MaxAge.  The argument: once accepted, a request is      *)
(* either still remembered, at a time no earlier than its timestamp minus  *)
(* the window, or so old that its timestamp is refused for good.           *)
(***************************************************************************)
EXTENDS ReplayGuard, TLAPS

(* An accepted request is remembered or has expired, whether or not it was relayed:
   the strengthening that makes RelayedAtMostOnce inductive. *)
RememberedOrExpired ==
  \A r \in accepted :
    \/ /\ r.nonce \in DOMAIN seenNonces
       /\ seenNonces[r.nonce] + MaxAge >= r.timestamp
    \/ now > r.timestamp + MaxAge

IInv == TypeOK /\ RememberedOrExpired /\ RelayedAtMostOnce

-----------------------------------------------------------------------------
(* The map a request is checked against is the session's map less entries that
   are too old, whether or not the request got as far as pruning it. *)
LEMMA PrunedIsPart ==
  ASSUME TypeOK, NEW r \in Requests, NEW map, map = Pruned(r, verifyKey, seenNonces, now)
  PROVE  /\ DOMAIN map \subseteq DOMAIN seenNonces
         /\ map = [n \in DOMAIN map |-> map[n]]
         /\ \A n \in DOMAIN map : map[n] = seenNonces[n]
         /\ \A n \in DOMAIN seenNonces :
              seenNonces[n] + NonceTtl >= now => n \in DOMAIN map
  <1>1. CASE map = seenNonces
    BY <1>1 DEF TypeOK
  <1>2. CASE map = Prune(seenNonces, now)
    <2>1. now \in Nat /\ \A n \in DOMAIN seenNonces : seenNonces[n] \in Nat
      BY DEF TypeOK
    <2>2. \A n \in DOMAIN seenNonces :
            seenNonces[n] + NonceTtl >= now => ~(now - seenNonces[n] > NonceTtl)
      BY <2>1, TimesAreNat
    <2>3. map = [n \in DOMAIN map |-> map[n]]
      BY <1>2 DEF Prune
    <2>4. /\ DOMAIN map = {m \in DOMAIN seenNonces : ~(now - seenNonces[m] > NonceTtl)}
          /\ \A n \in DOMAIN map : map[n] = seenNonces[n]
      BY <1>2 DEF Prune
    <2> QED BY <2>2, <2>3, <2>4
  <1> QED BY <1>1, <1>2 DEF Pruned

-----------------------------------------------------------------------------
LEMMA InitInv == Init => IInv
  BY TimesAreNat DEF Init, IInv, TypeOK, RememberedOrExpired, RelayedAtMostOnce

(* Handling a request keeps the types: it remembers at most its own nonce. *)
LEMMA HandleReqTypes ==
  ASSUME TypeOK, NEW r \in Requests, NEW sent \in BOOLEAN, HandleReq(r, sent)
  PROVE  TypeOK'
  <1> DEFINE map == Pruned(r, verifyKey, seenNonces, now)
             reason == Reason(r, verifyKey, map, now)
  <1>1. /\ DOMAIN map \subseteq DOMAIN seenNonces
        /\ map = [n \in DOMAIN map |-> map[n]]
        /\ \A n \in DOMAIN map : map[n] = seenNonces[n]
    BY PrunedIsPart
  <1>3. r.nonce \in Nonces
    BY DEF Requests
  <1>4. /\ seenNonces' = IF reason = "ok" THEN Remember(map, r.nonce, now) ELSE map
        /\ accepted' = IF reason = "ok" THEN accepted \cup {r} ELSE accepted
        /\ relayed' = IF reason = "ok" /\ sent THEN relayed \cup {r} ELSE relayed
        /\ repeated' = IF reason = "ok" /\ sent /\ r \in relayed
                       THEN repeated \cup {r} ELSE repeated
        /\ UNCHANGED <<now, verifyKey>>
    BY DEF HandleReq, Remembered
  <1> HIDE DEF map, reason
  <1>5. CASE reason = "ok"
    <2>1. /\ DOMAIN seenNonces' = DOMAIN map \cup {r.nonce}
          /\ seenNonces' = [n \in DOMAIN seenNonces' |-> seenNonces'[n]]
          /\ \A n \in DOMAIN seenNonces' :
               seenNonces'[n] = IF n = r.nonce THEN now ELSE map[n]
      BY <1>4, <1>5 DEF Remember
    <2> QED BY <1>1, <1>3, <1>4, <1>5, <2>1 DEF TypeOK
  <1>6. CASE reason # "ok"
    BY <1>1, <1>4, <1>6 DEF TypeOK
  <1> QED BY <1>5, <1>6

(* The heart of the proof: a request that passes the checks was not accepted
   before, and what was accepted before stays remembered or expired. *)
LEMMA HandleReqInv ==
  ASSUME IInv, NEW r \in Requests, NEW sent \in BOOLEAN, HandleReq(r, sent)
  PROVE  RememberedOrExpired' /\ RelayedAtMostOnce'
  <1> DEFINE map == Pruned(r, verifyKey, seenNonces, now)
             reason == Reason(r, verifyKey, map, now)
  <1>1. /\ DOMAIN map \subseteq DOMAIN seenNonces
        /\ \A n \in DOMAIN map : map[n] = seenNonces[n]
        /\ \A n \in DOMAIN seenNonces :
             seenNonces[n] + NonceTtl >= now => n \in DOMAIN map
    BY PrunedIsPart DEF IInv
  <1>2. /\ seenNonces' = IF reason = "ok" THEN Remember(map, r.nonce, now) ELSE map
        /\ accepted' = IF reason = "ok" THEN accepted \cup {r} ELSE accepted
        /\ repeated' = IF reason = "ok" /\ sent /\ r \in relayed
                       THEN repeated \cup {r} ELSE repeated
        /\ now' = now
    BY DEF HandleReq, Remembered
  <1>3. reason = "ok" => ~Expired(r.timestamp, now) /\ r.nonce \notin DOMAIN map
    BY DEF Reason
  <1>4. now \in Nat /\ \A n \in DOMAIN seenNonces : seenNonces[n] \in Nat
    BY DEF IInv, TypeOK
  <1>5. \A q \in accepted \cup {r} : q \in Requests /\ q.timestamp \in Nat
    BY TimesAreNat DEF IInv, TypeOK, Requests
  <1> HIDE DEF map, reason
  \* Nothing accepted and still inside the window has been pruned.
  <1>6. ASSUME NEW q \in accepted, ~(now > q.timestamp + MaxAge)
        PROVE  q.nonce \in DOMAIN map /\ map[q.nonce] + MaxAge >= q.timestamp
    <2>1. /\ q.nonce \in DOMAIN seenNonces
          /\ seenNonces[q.nonce] + MaxAge >= q.timestamp
      BY <1>6 DEF IInv, RememberedOrExpired
    <2>2. seenNonces[q.nonce] + NonceTtl >= now
      BY <1>4, <1>5, <1>6, <2>1, TimesAreNat, TtlCoversWindow
    <2> QED BY <1>1, <2>1, <2>2
  <1>7. reason = "ok" => r \notin relayed
    <2> SUFFICES ASSUME reason = "ok", r \in accepted PROVE FALSE
      BY DEF IInv, TypeOK
    <2>1. ~(now > r.timestamp + MaxAge)
      BY <1>3 DEF Expired
    <2> QED BY <1>3, <1>6, <2>1
  <1>8. RelayedAtMostOnce'
    BY <1>2, <1>7 DEF IInv, RelayedAtMostOnce
  <1>9. ASSUME NEW q \in accepted', ~(now > q.timestamp + MaxAge)
        PROVE  q.nonce \in DOMAIN seenNonces' /\ seenNonces'[q.nonce] + MaxAge >= q.timestamp
    <2>1. CASE reason # "ok"
      BY <1>2, <1>6, <1>9, <2>1
    <2>2. CASE reason = "ok"
      <3>1. /\ DOMAIN seenNonces' = DOMAIN map \cup {r.nonce}
            /\ \A n \in DOMAIN seenNonces' :
                 seenNonces'[n] = IF n = r.nonce THEN now ELSE map[n]
        BY <1>2, <2>2 DEF Remember
      <3>2. now + MaxAge >= r.timestamp
        BY <1>3, <1>4, <1>5, <2>2, TimesAreNat DEF Expired
      <3>3. CASE q = r
        BY <3>1, <3>2, <3>3
      <3>4. CASE q # r
        \* q is remembered in map, where r's nonce is not: the nonces differ.
        <4>1. q \in accepted
          BY <1>2, <2>2, <3>4
        <4> QED BY <1>3, <1>6, <1>9, <2>2, <3>1, <4>1
      <3> QED BY <3>3, <3>4
    <2> QED BY <2>1, <2>2
  <1> QED BY <1>2, <1>8, <1>9 DEF RememberedOrExpired

(* Every step keeps the inductive invariant. *)
LEMMA NextInv == IInv /\ [Next]_vars => IInv'
  <1> SUFFICES ASSUME IInv, [Next]_vars PROVE IInv'
    OBVIOUS
  <1>1. ASSUME NEW k \in Keys \cup {NoKey}, Register(k) PROVE IInv'
    BY <1>1 DEF Register, IInv, TypeOK, RememberedOrExpired, RelayedAtMostOnce
  <1>2. ASSUME NEW r \in Requests, NEW sent \in BOOLEAN, HandleReq(r, sent) PROVE IInv'
    BY <1>2, HandleReqTypes, HandleReqInv DEF IInv
  <1>3. CASE Tick
    <2>1. TypeOK'
      BY <1>3 DEF Tick, IInv, TypeOK
    <2>2. RememberedOrExpired'
      <3>1. now \in Nat /\ now' = now + 1
        BY <1>3 DEF Tick, IInv, TypeOK
      <3>2. \A q \in accepted : q.timestamp \in Nat
        BY TimesAreNat DEF IInv, TypeOK, Requests
      <3>3. \A q \in accepted :
              now > q.timestamp + MaxAge => now' > q.timestamp + MaxAge
        BY <3>1, <3>2, TimesAreNat
      <3> QED BY <1>3, <3>3 DEF Tick, IInv, RememberedOrExpired
    <2> QED BY <1>3, <2>1, <2>2 DEF Tick, IInv, RelayedAtMostOnce
  <1>4. CASE UNCHANGED vars
    BY <1>4 DEF vars, IInv, TypeOK, RememberedOrExpired, RelayedAtMostOnce
  <1> QED BY <1>1, <1>2, <1>3, <1>4 DEF Next

-----------------------------------------------------------------------------
(* Type correctness of the guard's state, for every value of the constants. *)
THEOREM TypeCorrect == Spec => []TypeOK
  <1>1. IInv => TypeOK
    BY DEF IInv
  <1> QED BY InitInv, NextInv, <1>1, PTL DEF Spec

(* No signed request is relayed twice in a session, whatever the two settings
   are as long as a nonce is kept for at least twice the accepted age. *)
THEOREM NeverRelayedTwice == Spec => []RelayedAtMostOnce
  <1>1. IInv => RelayedAtMostOnce
    BY DEF IInv
  <1> QED BY InitInv, NextInv, <1>1, PTL DEF Spec

(* What the guard refuses leaves no trace in the nonce map: each remembered nonce
   is that of a request that was accepted, signed and in its window when stored. *)
THEOREM RefusalBurnsNothing == Spec => []NonceOnlyFromAccepted
  <1>1. Init => NonceOnlyFromAccepted
    BY DEF Init, NonceOnlyFromAccepted
  <1>2. IInv /\ NonceOnlyFromAccepted /\ [Next]_vars => NonceOnlyFromAccepted'
    <2> SUFFICES ASSUME IInv, NonceOnlyFromAccepted, [Next]_vars
                 PROVE  NonceOnlyFromAccepted'
      OBVIOUS
    <2>1. ASSUME NEW r \in Requests, NEW sent \in BOOLEAN, HandleReq(r, sent)
          PROVE  NonceOnlyFromAccepted'
      <3> DEFINE map == Pruned(r, verifyKey, seenNonces, now)
                 reason == Reason(r, verifyKey, map, now)
      <3>1. /\ DOMAIN map \subseteq DOMAIN seenNonces
            /\ \A n \in DOMAIN map : map[n] = seenNonces[n]
        BY PrunedIsPart DEF IInv
      <3>2. /\ seenNonces' = IF reason = "ok" THEN Remember(map, r.nonce, now) ELSE map
            /\ accepted' = IF reason = "ok" THEN accepted \cup {r} ELSE accepted
        BY <2>1 DEF HandleReq, Remembered
      <3>3. reason = "ok" => r.signer \in Keys /\ ~Expired(r.timestamp, now)
        BY DEF Reason, IInv, TypeOK
      <3> HIDE DEF map, reason
      <3>4. CASE reason # "ok"
        BY <3>1, <3>2, <3>4 DEF NonceOnlyFromAccepted
      <3>5. CASE reason = "ok"
        <4>1. /\ DOMAIN seenNonces' = DOMAIN map \cup {r.nonce}
              /\ \A n \in DOMAIN seenNonces' :
                   seenNonces'[n] = IF n = r.nonce THEN now ELSE map[n]
          BY <3>2, <3>5 DEF Remember
        <4> QED BY <3>1, <3>2, <3>3, <3>5, <4>1 DEF NonceOnlyFromAccepted
      <3> QED BY <3>4, <3>5
    <2>2. CASE seenNonces' = seenNonces /\ accepted' = accepted
      BY <2>2 DEF NonceOnlyFromAccepted
    <2> QED BY <2>1, <2>2 DEF Next, Register, Tick, vars
  <1> QED BY InitInv, NextInv, <1>1, <1>2, PTL DEF Spec

(* The other side of the guard: what validateReqSignature lets through. *)
GoodRequestsPass ==
  \A r \in Requests, sent \in BOOLEAN :
    /\ HandleReq(r, sent)
    /\ verifyKey # NoKey /\ r.signer = verifyKey
    /\ r.timestamp # 0 /\ ~Expired(r.timestamp, now)
    /\ \A q \in accepted : q.nonce # r.nonce
    => r \in accepted' /\ (sent => r \in relayed')

(* A request signed with the registered key, inside the window and with a nonce that
   no accepted request had passes the guard, however many forged, unsigned or expired
   ones came under its nonce before, and is relayed if what follows the guard can
   relay it.  An accepted request spends its nonce even when it is refused after the
   guard, so that nonces of accepted requests are excluded here, not only those of
   relayed ones. *)
THEOREM NoGoodRequestRefused == Spec => [][GoodRequestsPass]_vars
  <1>1. IInv /\ NonceOnlyFromAccepted /\ [Next]_vars => GoodRequestsPass
    <2> SUFFICES ASSUME IInv, NonceOnlyFromAccepted, NEW r \in Requests,
                        NEW sent \in BOOLEAN, HandleReq(r, sent),
                        verifyKey # NoKey, r.signer = verifyKey, r.timestamp # 0,
                        ~Expired(r.timestamp, now), \A q \in accepted : q.nonce # r.nonce
                 PROVE  r \in accepted' /\ (sent => r \in relayed')
      BY DEF GoodRequestsPass
    <2> DEFINE map == Pruned(r, verifyKey, seenNonces, now)
               reason == Reason(r, verifyKey, map, now)
    <2>1. /\ accepted' = IF reason = "ok" THEN accepted \cup {r} ELSE accepted
          /\ relayed' = IF reason = "ok" /\ sent THEN relayed \cup {r} ELSE relayed
      BY DEF HandleReq
    <2>2. DOMAIN map \subseteq DOMAIN seenNonces
      BY PrunedIsPart DEF IInv
    <2> HIDE DEF map
    <2>3. r.nonce \notin DOMAIN map
      BY <2>2 DEF NonceOnlyFromAccepted
    <2>4. reason = "ok"
      BY <2>3 DEF Reason
    <2> QED BY <2>1, <2>4
  <1>2. Spec => []IInv
    BY InitInv, NextInv, PTL DEF Spec
  <1> QED BY <1>1, <1>2, RefusalBurnsNothing, PTL DEF Spec
=============================================================================
