----------------------------- MODULE ReplayGuard -----------------------------
(***************************************************************************)
(* The replay guard of one phone session: validateReqSignature and         *)
(* pruneSeenNonces (securityGuards.js) as relaySignedReqToMiddleware and    *)
(* relaySignedReqSingleClient call them, with the session's nonce map       *)
(* (machineRelaySession.js, seenNonces).  A signed request may be delivered *)
(* any number of times (the phone retries, the tunnel repeats) and must be  *)
(* relayed to the agent at most once.                                       *)
(*                                                                         *)
(* Passing the guard is not being relayed: the nonce is stored by the       *)
(* guard, and the request may still be refused after it (a method that      *)
(* single-client mode does not know, no gateway client, a frame that        *)
(* cannot be encrypted).  Its nonce is spent all the same.                  *)
(*                                                                         *)
(* Time is the millisecond clock of Date.now(), assumed not to run          *)
(* backwards.  Cryptography is abstracted: a request carries the key that   *)
(* signed it, or NoKey when the signature is absent or malformed.           *)
(***************************************************************************)
EXTENDS Naturals

CONSTANTS
  Nonces,     \* the nonces phones draw
  Keys,       \* Ed25519 verification keys a phone may register
  NoKey,      \* no key (not registered) or no signature
  MaxAge,     \* SIGNATURE_MAX_AGE_MS
  NonceTtl,   \* NONCE_TTL_MS
  MaxTime     \* model bound: the clock stops here, no timestamp is later

ASSUME TimesAreNat == MaxAge \in Nat /\ NonceTtl \in Nat /\ MaxTime \in Nat
ASSUME NoKeyIsNoKey == NoKey \notin Keys
\* index.js does not check the two settings against each other; the defaults
\* (5 min and 10 min) meet this with equality.
ASSUME TtlCoversWindow == NonceTtl >= 2 * MaxAge

VARIABLES
  now,         \* Date.now()
  verifyKey,   \* clientVerifyPublicKey of the session
  seenNonces,  \* nonceMap: nonce -> time it was accepted
  accepted,    \* history: requests validateReqSignature has let through
  relayed,     \* history: the accepted requests that were relayed
  repeated     \* history: requests relayed more than once

vars == <<now, verifyKey, seenNonces, accepted, relayed, repeated>>

Requests == [nonce : Nonces, timestamp : 0..MaxTime, signer : Keys \cup {NoKey}]

-----------------------------------------------------------------------------
(* Math.abs(nowMs - ts) > signatureMaxAgeMs *)
Expired(ts, t) == t > ts + MaxAge \/ ts > t + MaxAge

(* Mutant of Prune: a nonce is forgotten one tick too early. *)
PruneAtTtl(map, t) ==
  [n \in {m \in DOMAIN map : ~(t - map[m] >= NonceTtl)} |-> map[n]]

Prune(map, t) ==
  [n \in {m \in DOMAIN map : ~(t - map[m] > NonceTtl)} |-> map[n]]

(* The checks in the order the code makes them; the first that fails is the
   reason sent back. *)
Reason(r, key, map, t) ==
  IF key = NoKey THEN "signature_key_missing"
  ELSE IF r.timestamp = 0 THEN "signature_timestamp_invalid"
  ELSE IF Expired(r.timestamp, t) THEN "signature_expired"
  ELSE IF r.nonce \in DOMAIN map THEN "replay"
  ELSE IF r.signer # key THEN "signature_invalid"
  ELSE "ok"

(* The nonce map is pruned only by a request that reaches the nonce check. *)
Pruned(r, key, map, t) ==
  IF key = NoKey \/ r.timestamp = 0 \/ Expired(r.timestamp, t)
  THEN map
  ELSE Prune(map, t)

Remember(map, n, t) ==
  [m \in DOMAIN map \cup {n} |-> IF m = n THEN t ELSE map[m]]

(* Mutants of Remembered: the nonce is stored before the signature is verified;
   the nonce is stored at the sender's time. *)
RememberedUnverified(r, reason, map, t) ==
  IF reason \in {"ok", "signature_invalid"} THEN Remember(map, r.nonce, t) ELSE map

RememberedAtStamp(r, reason, map, t) ==
  IF reason = "ok" THEN Remember(map, r.nonce, r.timestamp) ELSE map

(* The nonce is stored, at the receiver's time, once everything has passed. *)
Remembered(r, reason, map, t) ==
  IF reason = "ok" THEN Remember(map, r.nonce, t) ELSE map

-----------------------------------------------------------------------------
Init ==
  /\ now = 1
  /\ verifyKey = NoKey
  /\ seenNonces = [n \in {} |-> 0]
  /\ accepted = {}
  /\ relayed = {}
  /\ repeated = {}

(* A register (or a re-register) installs the phone's key, or none if it does not
   parse, and keeps the map. *)
Register(k) ==
  /\ verifyKey' = k
  /\ UNCHANGED <<now, seenNonces, accepted, relayed, repeated>>

(* One delivery of a request to a session that is ready for it: the guard, and
   when it passes, what follows.  Towards the middleware the request is encrypted,
   which throws for a peer key of the wrong length, and sent; in single-client mode
   it is queued for the gateway unless its method has no text for the agent
   (unsupported_req_method) or there is no gateway client (gateway_unavailable). *)
HandleReq(r, sent) ==
  LET map == Pruned(r, verifyKey, seenNonces, now)
      reason == Reason(r, verifyKey, map, now)
      relays == reason = "ok" /\ sent
  IN /\ seenNonces' = Remembered(r, reason, map, now)
     /\ accepted' = IF reason = "ok" THEN accepted \cup {r} ELSE accepted
     /\ relayed' = IF relays THEN relayed \cup {r} ELSE relayed
     /\ repeated' = IF relays /\ r \in relayed THEN repeated \cup {r} ELSE repeated
     /\ UNCHANGED <<now, verifyKey>>

Tick ==
  /\ now < MaxTime
  /\ now' = now + 1
  /\ UNCHANGED <<verifyKey, seenNonces, accepted, relayed, repeated>>

Next ==
  \/ \E k \in Keys \cup {NoKey} : Register(k)
  \/ \E r \in Requests, sent \in BOOLEAN : HandleReq(r, sent)
  \/ Tick

Spec == Init /\ [][Next]_vars

-----------------------------------------------------------------------------
(* Every variable has its type; remembered times are never in the future. *)
TypeOK ==
  /\ now \in Nat
  /\ verifyKey \in Keys \cup {NoKey}
  /\ DOMAIN seenNonces \subseteq Nonces
  /\ seenNonces = [n \in DOMAIN seenNonces |-> seenNonces[n]]
  /\ \A n \in DOMAIN seenNonces : seenNonces[n] \in Nat /\ seenNonces[n] <= now
  /\ accepted \subseteq Requests
  /\ relayed \subseteq accepted
  /\ repeated \subseteq Requests

(* A signed request is relayed to the agent at most once in a session, however
   often it is delivered and whatever was pruned in between
   (validateReqSignature, pruneSeenNonces). *)
RelayedAtMostOnce == repeated = {}

(* What the guard itself refuses burns no nonce: every remembered nonce is that of
   a request the guard accepted, signed with a key a phone can register and inside
   the window at the time it was stored.  A forged, unsigned or expired request
   never makes a later good one look like a replay (validateReqSignature stores the
   nonce after the last check).  One that passed and was refused afterwards does. *)
NonceOnlyFromAccepted ==
  \A n \in DOMAIN seenNonces : \E r \in accepted :
    /\ r.nonce = n
    /\ r.signer \in Keys
    /\ ~Expired(r.timestamp, seenNonces[n])
=============================================================================
