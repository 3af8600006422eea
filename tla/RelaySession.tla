---------------------------- MODULE RelaySession -----------------------------
(***************************************************************************)
(* MachineRelaySession (machineRelaySession.js) in middleware mode: the     *)
(* registration of a local client over its WebSocket, the tunnel to the     *)
(* middleware with its reconnects and keepalive, and the relaying of        *)
(* requests into it.  With bridgeMode it is the session the gateway bridge  *)
(* runs without a local client.                                            *)
(*                                                                         *)
(* One action is one macrotask: a WebSocket event or a timer.  The client,  *)
(* the middleware and the network are external.  Signatures are abstracted  *)
(* to the verdict of the check (ReplayGuard models the request signature).  *)
(***************************************************************************)
EXTENDS Naturals

CONSTANTS
  Conversations,  \* session keys, one for each conversation
  Tunnels,        \* WebSocket objects to the middleware; may be used again
  None,
  AuthToken,      \* MIDDLEWARE_AUTH_TOKEN is set
  Strict,         \* OPENCLAW_STRICT_PAIRING_PROFILE
  MaxRegisters    \* model bound: registrations completed

ASSUME NoneIsNothing == None \notin Tunnels \cup Conversations
ASSUME FlagsAreBoolean == AuthToken \in BOOLEAN /\ Strict \in BOOLEAN
ASSUME MaxRegistersIsNat == MaxRegisters \in Nat

VARIABLES
  bridgeMode,    \* no local client: started by the gateway bridge
  client,        \* clientWs.readyState
  destroyed,     \* _destroyed
  handshake,     \* _handshakeState
  challenge,     \* conversation of _pendingRegister and _registerChallenge
  sessionKey,    \* middlewareSessionKey
  registers,     \* history: times connectToMiddleware was asked for a tunnel
  tunnel,        \* readyState of each tunnel, "none" before and after its life
  opened,        \* history: tunnels whose open event has come
  tunnelKey,     \* the session key in each tunnel's URL
  mws,           \* middlewareWs
  boxKeys,       \* chatroomBoxKeys: "none", "alone" (no peer key yet) or "peer"
  authQuery,     \* authRetryWithQuery
  timers,        \* reconnect timers armed
  tracked,       \* _reconnectTimer refers to one of them
  pinging,       \* _middlewarePingTimer is set
  awaiting,      \* _middlewarePongTimeout is set
  ponged,        \* a pong came since the last ping
  fresh,         \* the last pong came in the millisecond of the last ping
  lastRelay      \* history: conversation of the last request and of its tunnel

phone == <<bridgeMode, client, handshake, challenge, lastRelay>>
keepalive == <<pinging, awaiting, ponged, fresh>>
wire == <<tunnel, opened, tunnelKey, mws>>
retry == <<authQuery, timers, tracked>>
vars == <<phone, destroyed, sessionKey, registers, wire, boxKeys, retry, keepalive>>

-----------------------------------------------------------------------------
Live(w) == tunnel[w] # "none"
Receiving(w) == w \in opened /\ tunnel[w] \in {"open", "closing"}

IsClientConnected(gone) == IF bridgeMode THEN ~gone ELSE client = "open"

StopKeepalive == pinging' = FALSE /\ awaiting' = FALSE /\ UNCHANGED <<ponged, fresh>>

(* Mutant of ConnectToMiddleware: an existing tunnel is not looked for. *)
ConnectToMiddlewareAgain(states, current, key) ==
  IF destroyed \/ ~IsClientConnected(destroyed)
  THEN tunnel' = states /\ mws' = current /\ UNCHANGED <<opened, tunnelKey>>
  ELSE \E w \in Tunnels :
         /\ states[w] = "none"
         /\ tunnel' = [states EXCEPT ![w] = "connecting"]
         /\ opened' = opened \ {w}
         /\ tunnelKey' = [tunnelKey EXCEPT ![w] = key]
         /\ mws' = w

(* connectToMiddleware, with the tunnels and middlewareWs its caller leaves and
   the session key it uses. *)
ConnectToMiddleware(states, current, key) ==
  IF destroyed \/ current # None \/ ~IsClientConnected(destroyed)
  THEN tunnel' = states /\ mws' = current /\ UNCHANGED <<opened, tunnelKey>>
  ELSE \E w \in Tunnels :
         /\ states[w] = "none"
         /\ tunnel' = [states EXCEPT ![w] = "connecting"]
         /\ opened' = opened \ {w}
         /\ tunnelKey' = [tunnelKey EXCEPT ![w] = key]
         /\ mws' = w

Init ==
  /\ bridgeMode \in BOOLEAN
  /\ client = IF bridgeMode THEN "none" ELSE "open"
  /\ destroyed = FALSE
  /\ handshake = "unregistered"
  /\ challenge = None
  /\ sessionKey = None
  /\ registers = 0
  /\ tunnel = [w \in Tunnels |-> "none"]
  /\ opened = {}
  /\ tunnelKey = [w \in Tunnels |-> None]
  /\ mws = None
  /\ boxKeys = "none"
  /\ authQuery = FALSE
  /\ timers = 0
  /\ tracked = FALSE
  /\ pinging = FALSE /\ awaiting = FALSE /\ ponged = FALSE /\ fresh = FALSE
  /\ lastRelay = None

-----------------------------------------------------------------------------
(* The client's WebSocket *)

FromClient == client \in {"open", "closing"}

(* A compatible register_public_key: a challenge is issued for its conversation. *)
ChallengeIssued(conv) ==
  /\ FromClient
  /\ handshake' = "challenge_issued"
  /\ challenge' = conv
  /\ UNCHANGED <<bridgeMode, client, lastRelay, destroyed, sessionKey, registers, wire,
                 boxKeys, retry, keepalive>>

(* The challenge is answered well: registered, and on to the middleware. *)
ChallengeAnswered ==
  /\ FromClient
  /\ handshake = "challenge_issued"
  /\ registers < MaxRegisters
  /\ handshake' = "ready_for_agent_req"
  /\ challenge' = None
  /\ sessionKey' = challenge
  /\ registers' = registers + 1
  /\ ConnectToMiddleware(tunnel, mws, challenge)
  /\ UNCHANGED <<bridgeMode, client, lastRelay, destroyed, boxKeys, retry, keepalive>>

(* A bad or unexpected answer; the strict profile closes the client. *)
ChallengeFailed ==
  /\ FromClient
  /\ handshake' = IF handshake = "challenge_issued" THEN "rejected" ELSE handshake
  /\ client' = IF Strict THEN "closing" ELSE client
  /\ UNCHANGED <<bridgeMode, challenge, lastRelay, destroyed, sessionKey, registers,
                 wire, boxKeys, retry, keepalive>>

(* A message the session does not know; the strict profile closes the client. *)
UnsupportedMessage ==
  /\ FromClient
  /\ Strict
  /\ client' = "closing"
  /\ UNCHANGED <<bridgeMode, handshake, challenge, lastRelay, destroyed, sessionKey,
                 registers, wire, boxKeys, retry, keepalive>>

(* A request that passes validateReqSignature; without an open tunnel or the
   phone's box key it is dropped before the check. *)
RelaySignedReq ==
  /\ FromClient
  /\ handshake = "ready_for_agent_req"
  /\ mws # None /\ tunnel[mws] = "open" /\ boxKeys = "peer"
  /\ lastRelay' = [conv |-> sessionKey, via |-> tunnelKey[mws]]
  /\ UNCHANGED <<bridgeMode, client, handshake, challenge, destroyed, sessionKey,
                 registers, wire, boxKeys, retry, keepalive>>

ClientCloses ==
  /\ client = "open"
  /\ client' = "closing"
  /\ UNCHANGED <<bridgeMode, handshake, challenge, lastRelay, destroyed, sessionKey,
                 registers, wire, boxKeys, retry, keepalive>>

(* startBridgeSession *)
StartBridgeSession(conv) ==
  /\ bridgeMode /\ ~destroyed /\ registers = 0
  /\ sessionKey' = conv
  /\ registers' = 1
  /\ ConnectToMiddleware(tunnel, mws, conv)
  /\ UNCHANGED <<phone, destroyed, boxKeys, retry, keepalive>>

(* Mutant of Destroy: middlewareWs is closed and still referred to. *)
DestroyKeepsSocket ==
  /\ ~destroyed
  /\ destroyed' = TRUE
  /\ IF bridgeMode THEN UNCHANGED client ELSE client \in {"open", "closing"} /\ client' = "closed"
  /\ StopKeepalive
  /\ tracked' = FALSE
  /\ timers' = IF tracked THEN timers - 1 ELSE timers
  /\ tunnel' = IF mws # None THEN [tunnel EXCEPT ![mws] = "closing"] ELSE tunnel
  /\ boxKeys' = "none"
  /\ UNCHANGED <<bridgeMode, handshake, challenge, lastRelay, sessionKey, registers,
                 opened, tunnelKey, mws, authQuery>>

(* destroy, on the close of the client's WebSocket or when the bridge stops.  Only
   the timer _reconnectTimer refers to is cleared. *)
Destroy ==
  /\ ~destroyed
  /\ destroyed' = TRUE
  /\ IF bridgeMode THEN UNCHANGED client ELSE client \in {"open", "closing"} /\ client' = "closed"
  /\ StopKeepalive
  /\ tracked' = FALSE
  /\ timers' = IF tracked THEN timers - 1 ELSE timers
  /\ tunnel' = IF mws # None THEN [tunnel EXCEPT ![mws] = "closing"] ELSE tunnel
  /\ mws' = None
  /\ boxKeys' = "none"
  /\ UNCHANGED <<bridgeMode, handshake, challenge, lastRelay, sessionKey, registers,
                 opened, tunnelKey, authQuery>>

-----------------------------------------------------------------------------
(* The tunnel *)

(* 'open': the keepalive starts.  reconnectAttempt only sets the delay. *)
TunnelOpens(w) ==
  /\ tunnel[w] = "connecting"
  /\ tunnel' = [tunnel EXCEPT ![w] = "open"]
  /\ opened' = opened \cup {w}
  /\ pinging' = TRUE /\ awaiting' = FALSE /\ ponged' = FALSE /\ fresh' = FALSE
  /\ UNCHANGED <<phone, destroyed, sessionKey, registers, tunnelKey, mws, boxKeys,
                 retry>>

(* The phone's register_public_key through the tunnel; a box key that does not
   parse leaves the stored keys without a peer. *)
PeerRegisters(w) ==
  /\ Receiving(w)
  /\ boxKeys' \in {"alone", "peer"}
  /\ UNCHANGED <<phone, destroyed, sessionKey, registers, wire, retry, keepalive>>

(* Mutant of TunnelCloses: the box keys outlive the tunnel. *)
TunnelClosesKeepsKeys(w) ==
  LET states == [tunnel EXCEPT ![w] = "none"]
  IN
  /\ Live(w)
  /\ StopKeepalive
  /\ IF ~IsClientConnected(destroyed)
     THEN /\ tunnel' = states /\ mws' = None
          /\ UNCHANGED <<opened, tunnelKey, authQuery, timers, tracked>>
     ELSE IF ~authQuery /\ AuthToken
     THEN /\ authQuery' = TRUE
          /\ ConnectToMiddleware(states, None, sessionKey)
          /\ UNCHANGED <<timers, tracked>>
     ELSE /\ timers' = timers + 1 /\ tracked' = TRUE
          /\ tunnel' = states /\ mws' = None
          /\ UNCHANGED <<opened, tunnelKey, authQuery>>
  /\ UNCHANGED <<phone, destroyed, sessionKey, registers, boxKeys>>

(* 'close': the first time with a token configured, the token moves to the query
   and the connection is tried again at once; otherwise a timer is set. *)
TunnelCloses(w) ==
  LET states == [tunnel EXCEPT ![w] = "none"]
  IN
  /\ Live(w)
  /\ StopKeepalive
  /\ boxKeys' = "none"
  /\ IF ~IsClientConnected(destroyed)
     THEN /\ tunnel' = states /\ mws' = None
          /\ UNCHANGED <<opened, tunnelKey, authQuery, timers, tracked>>
     ELSE IF ~authQuery /\ AuthToken
     THEN /\ authQuery' = TRUE
          /\ ConnectToMiddleware(states, None, sessionKey)
          /\ UNCHANGED <<timers, tracked>>
     ELSE /\ timers' = timers + 1 /\ tracked' = TRUE
          /\ tunnel' = states /\ mws' = None
          /\ UNCHANGED <<opened, tunnelKey, authQuery>>
  /\ UNCHANGED <<phone, destroyed, sessionKey, registers>>

(* Mutant of ReconnectFires: the timer does not connect. *)
ReconnectForgets ==
  /\ timers > 0
  /\ timers' = timers - 1
  /\ tracked' = FALSE
  /\ UNCHANGED <<phone, destroyed, sessionKey, registers, wire, boxKeys, authQuery,
                 keepalive>>

(* A reconnect timer fires, the tracked one or an orphan; it clears
   _reconnectTimer either way. *)
ReconnectFires ==
  /\ timers > 0
  /\ timers' = timers - 1
  /\ tracked' = FALSE
  /\ ConnectToMiddleware(tunnel, mws, sessionKey)
  /\ UNCHANGED <<phone, destroyed, sessionKey, registers, boxKeys, authQuery,
                 keepalive>>

(* The 30 s interval; the pong timeout of the ping before is 20 s in the past. *)
KeepalivePing ==
  /\ pinging /\ ~awaiting
  /\ mws # None /\ tunnel[mws] = "open"
  /\ awaiting' = TRUE
  /\ ponged' = FALSE
  /\ \/ fresh' = FALSE
     \/ ponged /\ fresh' = TRUE
  /\ UNCHANGED <<phone, destroyed, sessionKey, registers, wire, boxKeys, retry,
                 pinging>>

Pong(w) ==
  /\ Receiving(w)
  /\ ponged' = TRUE
  /\ awaiting' = FALSE
  /\ UNCHANGED <<phone, destroyed, sessionKey, registers, wire, boxKeys, retry, pinging,
                 fresh>>

(* Mutant of PongTimeout: a stale tunnel is left alone. *)
PongTimeoutLogs ==
  /\ awaiting
  /\ awaiting' = FALSE
  /\ UNCHANGED <<phone, destroyed, sessionKey, registers, wire, boxKeys, retry, pinging,
                 ponged, fresh>>

(* No pong for 10 s: the tunnel is terminated, unless the last pong is exactly as
   old as the timeout. *)
PongTimeout ==
  /\ awaiting
  /\ awaiting' = FALSE
  /\ tunnel' = IF mws # None /\ ~fresh THEN [tunnel EXCEPT ![mws] = "closing"] ELSE tunnel
  /\ UNCHANGED <<phone, destroyed, sessionKey, registers, opened, tunnelKey, mws,
                 boxKeys, retry, pinging, ponged, fresh>>

-----------------------------------------------------------------------------
Next ==
  \/ \E conv \in Conversations : ChallengeIssued(conv) \/ StartBridgeSession(conv)
  \/ ChallengeAnswered
  \/ ChallengeFailed
  \/ UnsupportedMessage
  \/ RelaySignedReq
  \/ ClientCloses
  \/ Destroy
  \/ ReconnectFires
  \/ KeepalivePing
  \/ PongTimeout
  \/ \E w \in Tunnels :
       TunnelOpens(w) \/ PeerRegisters(w) \/ TunnelCloses(w) \/ Pong(w)

Spec == Init /\ [][Next]_vars

(* Timers fire and a closing socket closes.  Nothing is assumed of the middleware. *)
Fairness ==
  /\ WF_vars(ReconnectFires)
  /\ WF_vars(KeepalivePing)
  /\ WF_vars(PongTimeout)
  /\ \A w \in Tunnels : WF_vars(tunnel[w] = "closing" /\ TunnelCloses(w))

FairSpec == Spec /\ Fairness

-----------------------------------------------------------------------------
Handshakes == {"unregistered", "challenge_issued", "ready_for_agent_req", "rejected"}

(* Every variable has its type. *)
TypeOK ==
  /\ bridgeMode \in BOOLEAN /\ (bridgeMode <=> client = "none")
  /\ client \in {"none", "open", "closing", "closed"}
  /\ destroyed \in BOOLEAN
  /\ handshake \in Handshakes
  /\ challenge \in Conversations \cup {None}
  /\ sessionKey \in Conversations \cup {None}
  /\ registers \in Nat
  /\ tunnel \in [Tunnels -> {"none", "connecting", "open", "closing"}]
  /\ opened \subseteq Tunnels
  /\ tunnelKey \in [Tunnels -> Conversations \cup {None}]
  /\ mws \in Tunnels \cup {None}
  /\ boxKeys \in {"none", "alone", "peer"}
  /\ authQuery \in BOOLEAN
  /\ timers \in Nat /\ tracked \in BOOLEAN
  /\ pinging \in BOOLEAN /\ awaiting \in BOOLEAN /\ ponged \in BOOLEAN /\ fresh \in BOOLEAN
  /\ lastRelay \in [conv : Conversations, via : Conversations] \cup {None}

(* One tunnel at a time, and until destroy it is the one middlewareWs refers to,
   whatever timers and re-registrations race to open one. *)
OneTunnel ==
  /\ \A v, w \in Tunnels : Live(v) /\ Live(w) => v = w
  /\ ~destroyed => \A w \in Tunnels : Live(w) <=> mws = w

(* A session that was given a conversation and whose consumer is there has a tunnel
   or a timer that will open one. *)
NeverWithoutRetry ==
  registers > 0 /\ IsClientConnected(destroyed) => mws # None \/ timers > 0

(* Orphaned reconnect timers do not pile up: tunnels and timers together are never
   more than the registrations that asked for one. *)
RetriesAreBounded ==
  timers + (IF mws # None THEN 1 ELSE 0) <= registers

(* The box keys die with their tunnel: on a new tunnel nothing is encrypted before
   the phone has registered there. *)
KeysDieWithTunnel ==
  boxKeys # "none" => \E w \in Tunnels : Receiving(w)

(* The keepalive watches the tunnel that is open and nothing else. *)
KeepaliveFollowsTunnel ==
  /\ pinging => mws # None /\ Receiving(mws)
  /\ awaiting /\ ~destroyed => pinging
  /\ \A w \in Tunnels : tunnel[w] = "open" => pinging

(* The tunnel's bookkeeping is sound: one tunnel, bounded retries, and a keepalive
   that watches exactly the open tunnel. *)
TunnelInv == TypeOK /\ OneTunnel /\ RetriesAreBounded /\ KeepaliveFollowsTunnel

(* After destroy nothing is opened: timers left over find _destroyed set. *)
DestroyedIsQuiet ==
  destroyed =>
    /\ mws = None /\ ~pinging
    /\ \A w \in Tunnels : tunnel[w] \in {"none", "closing"}

(* Requests go into the tunnel of the conversation registered for, as the protocol
   section of the README has it. *)
RelayedInConversation == lastRelay # None => lastRelay.conv = lastRelay.via

(* A tunnel whose peer has gone silent is given up. *)
SilentTunnelDropped ==
  \A w \in Tunnels : tunnel[w] = "open" ~> tunnel[w] # "open" \/ ponged
=============================================================================
