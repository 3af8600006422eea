-------------------------- MODULE RelaySessionProofs --------------------------
(***************************************************************************)
(* The safety of the relay session for any number of tunnels, conversations *)
(* and registrations, with and without a token.                            *)
(***************************************************************************)
EXTENDS RelaySession, TLAPS

(* destroy and the close of the client's WebSocket are one event; the timer that
   _reconnectTimer refers to is armed. *)
EndOfSession ==
  /\ client = "closed" => destroyed
  /\ destroyed /\ ~bridgeMode => client = "closed"
  /\ tracked => timers > 0

(* A challenge knows its conversation, a registered session too, and so does every
   tunnel that is opened for it. *)
Registered ==
  /\ handshake = "challenge_issued" => challenge # None
  /\ handshake = "ready_for_agent_req" => sessionKey # None
  /\ registers > 0 <=> sessionKey # None
  /\ \A w \in Tunnels : Live(w) => tunnelKey[w] # None

(* The flags of the session, and its sockets. *)
Flags ==
  /\ bridgeMode \in BOOLEAN /\ destroyed \in BOOLEAN /\ authQuery \in BOOLEAN
  /\ tracked \in BOOLEAN /\ pinging \in BOOLEAN /\ awaiting \in BOOLEAN
  /\ ponged \in BOOLEAN /\ fresh \in BOOLEAN

Sockets ==
  /\ tunnel \in [Tunnels -> {"none", "connecting", "open", "closing"}]
  /\ opened \subseteq Tunnels
  /\ tunnelKey \in [Tunnels -> Conversations \cup {None}]
  /\ mws \in Tunnels \cup {None}

RelayInv ==
  /\ TunnelInv
  /\ NeverWithoutRetry
  /\ KeysDieWithTunnel
  /\ DestroyedIsQuiet
  /\ EndOfSession
  /\ Registered

-----------------------------------------------------------------------------
LEMMA InitRelay == Init => RelayInv
  <1> SUFFICES ASSUME Init PROVE RelayInv
    OBVIOUS
  <1>1. TypeOK /\ OneTunnel
    BY NoneIsNothing DEF Init, TypeOK, OneTunnel, Live, Handshakes
  <1>2. RetriesAreBounded /\ KeepaliveFollowsTunnel /\ NeverWithoutRetry
    BY DEF Init, RetriesAreBounded, KeepaliveFollowsTunnel, NeverWithoutRetry
  <1>3. KeysDieWithTunnel /\ DestroyedIsQuiet /\ EndOfSession /\ Registered
    BY DEF Init, KeysDieWithTunnel, DestroyedIsQuiet, EndOfSession, Registered, Live
  <1> QED BY <1>1, <1>2, <1>3 DEF RelayInv, TunnelInv

(* The client's messages, and a close of its socket that has begun, leave the tunnel
   and its timers alone. *)
LEMMA ClientSideKeeps ==
  ASSUME RelayInv,
         UNCHANGED <<bridgeMode, destroyed, sessionKey, registers, wire, boxKeys, retry,
                     keepalive>>,
         \/ client' = client
         \/ client \in {"open", "closing"} /\ client' = "closing",
         handshake' \in Handshakes, challenge' \in Conversations \cup {None},
         lastRelay' \in [conv : Conversations, via : Conversations] \cup {None},
         handshake' = "challenge_issued" => challenge' # None,
         handshake' = "ready_for_agent_req" => sessionKey # None
  PROVE  RelayInv'
  <1>1. TypeOK'
    BY DEF RelayInv, TunnelInv, TypeOK, wire, retry, keepalive
  <1>2. OneTunnel' /\ KeysDieWithTunnel' /\ DestroyedIsQuiet' /\ KeepaliveFollowsTunnel'
    BY DEF RelayInv, TunnelInv, OneTunnel, KeysDieWithTunnel, DestroyedIsQuiet,
       KeepaliveFollowsTunnel, Live, Receiving, wire, keepalive
  <1>3. RetriesAreBounded' /\ NeverWithoutRetry' /\ EndOfSession' /\ Registered'
    BY DEF RelayInv, TunnelInv, RetriesAreBounded, NeverWithoutRetry, EndOfSession,
       Registered, IsClientConnected, Live, wire, retry
  <1> QED BY <1>1, <1>2, <1>3 DEF RelayInv, TunnelInv

(* A registration opens a tunnel unless middlewareWs refers to one, and is counted. *)
LEMMA ChallengeAnsweredKeeps ==
  ASSUME RelayInv, ChallengeAnswered
  PROVE  RelayInv'
  <1>1. Flags'
    BY DEF RelayInv, TypeOK, ChallengeAnswered, Flags, TunnelInv, keepalive, retry
  <1>2. Sockets'
    BY DEF RelayInv, TypeOK, ChallengeAnswered, ConnectToMiddleware, Sockets,
       TunnelInv
  <1>3. TypeOK'
    BY <1>1, <1>2 DEF RelayInv, TypeOK, ChallengeAnswered, Flags, Handshakes, Sockets,
       TunnelInv, retry
  <1>4. OneTunnel'
    BY NoneIsNothing DEF RelayInv, TypeOK, OneTunnel, ChallengeAnswered,
       ConnectToMiddleware, Live, TunnelInv
  <1>5. RetriesAreBounded'
    BY DEF RelayInv, TypeOK, RetriesAreBounded, ChallengeAnswered, TunnelInv, retry
  <1>6. KeepaliveFollowsTunnel'
    BY DEF RelayInv, TypeOK, KeepaliveFollowsTunnel, ChallengeAnswered,
       ConnectToMiddleware, Receiving, TunnelInv, keepalive
  <1>7. NeverWithoutRetry'
    BY DEF RelayInv, OneTunnel, NeverWithoutRetry, EndOfSession, ChallengeAnswered,
       ConnectToMiddleware, IsClientConnected, Live, TunnelInv
  <1>8. KeysDieWithTunnel'
    BY DEF RelayInv, TypeOK, KeysDieWithTunnel, ChallengeAnswered,
       ConnectToMiddleware, Receiving, TunnelInv
  <1>9. DestroyedIsQuiet'
    BY DEF RelayInv, DestroyedIsQuiet, ChallengeAnswered, ConnectToMiddleware,
       keepalive
  <1>10. EndOfSession'
    BY DEF RelayInv, EndOfSession, ChallengeAnswered, retry
  <1>11. Registered'
    BY DEF RelayInv, TypeOK, Registered, ChallengeAnswered, ConnectToMiddleware, Live,
       TunnelInv
  <1> QED BY <1>3, <1>4, <1>5, <1>6, <1>7, <1>8, <1>9, <1>10, <1>11
      DEF RelayInv, TunnelInv

(* The same for the session of a bridge, which registers once. *)
LEMMA StartBridgeSessionKeeps ==
  ASSUME RelayInv, NEW conv \in Conversations, StartBridgeSession(conv)
  PROVE  RelayInv'
  <1>1. Flags'
    BY DEF RelayInv, TypeOK, Flags, StartBridgeSession, TunnelInv, keepalive, phone,
       retry
  <1>2. Sockets'
    BY DEF RelayInv, TypeOK, ConnectToMiddleware, Sockets, StartBridgeSession,
       TunnelInv
  <1>3. TypeOK'
    BY <1>1, <1>2 DEF RelayInv, TypeOK, Flags, Sockets, StartBridgeSession, TunnelInv,
       phone, retry
  <1>4. OneTunnel'
    BY NoneIsNothing DEF RelayInv, TypeOK, OneTunnel, ConnectToMiddleware, Live,
       StartBridgeSession, TunnelInv
  <1>5. RetriesAreBounded'
    BY DEF RelayInv, TypeOK, RetriesAreBounded, StartBridgeSession, TunnelInv, retry
  <1>6. KeepaliveFollowsTunnel'
    BY DEF RelayInv, TypeOK, KeepaliveFollowsTunnel, ConnectToMiddleware, Receiving,
       StartBridgeSession, TunnelInv, keepalive
  <1>7. NeverWithoutRetry'
    BY DEF RelayInv, OneTunnel, NeverWithoutRetry, ConnectToMiddleware,
       IsClientConnected, Live, StartBridgeSession, TunnelInv
  <1>8. KeysDieWithTunnel'
    BY DEF RelayInv, TypeOK, KeysDieWithTunnel, ConnectToMiddleware, Receiving,
       StartBridgeSession, TunnelInv
  <1>9. DestroyedIsQuiet'
    BY DEF RelayInv, DestroyedIsQuiet, StartBridgeSession
  <1>10. EndOfSession'
    BY DEF RelayInv, EndOfSession, StartBridgeSession, phone, retry
  <1>11. Registered'
    BY NoneIsNothing DEF RelayInv, TypeOK, Registered, ConnectToMiddleware, Live,
       StartBridgeSession, TunnelInv, phone
  <1> QED BY <1>3, <1>4, <1>5, <1>6, <1>7, <1>8, <1>9, <1>10, <1>11
      DEF RelayInv, TunnelInv

(* destroy may leave a tunnel that is closing and orphaned timers, no more. *)
LEMMA DestroyKeeps ==
  ASSUME RelayInv, Destroy
  PROVE  RelayInv'
  <1>1. Flags'
    BY DEF RelayInv, TypeOK, Destroy, Flags, StopKeepalive, TunnelInv
  <1>2. Sockets'
    BY DEF RelayInv, TypeOK, Destroy, Sockets, TunnelInv
  <1>3. TypeOK'
    BY <1>1, <1>2 DEF RelayInv, TypeOK, EndOfSession, Destroy, Flags, TunnelInv
  <1>4. OneTunnel'
    BY DEF RelayInv, OneTunnel, Destroy, Live, TunnelInv
  <1>5. RetriesAreBounded'
    BY DEF RelayInv, TypeOK, RetriesAreBounded, Destroy, TunnelInv
  <1>6. KeepaliveFollowsTunnel'
    BY DEF RelayInv, TypeOK, OneTunnel, KeepaliveFollowsTunnel, Destroy, Live,
       StopKeepalive, TunnelInv
  <1>7. NeverWithoutRetry'
    BY DEF RelayInv, NeverWithoutRetry, Destroy, IsClientConnected
  <1>8. KeysDieWithTunnel'
    BY DEF RelayInv, KeysDieWithTunnel, Destroy
  <1>9. DestroyedIsQuiet'
    BY NoneIsNothing DEF RelayInv, TypeOK, OneTunnel, DestroyedIsQuiet, Destroy, Live,
       StopKeepalive, TunnelInv
  <1>10. EndOfSession'
    BY DEF RelayInv, EndOfSession, Destroy
  <1>11. Registered'
    BY DEF RelayInv, OneTunnel, Registered, Destroy, Live, TunnelInv
  <1> QED BY <1>3, <1>4, <1>5, <1>6, <1>7, <1>8, <1>9, <1>10, <1>11
      DEF RelayInv, TunnelInv

(* A timer turns into a tunnel, or finds one, or finds nobody to connect for. *)
LEMMA ReconnectFiresKeeps ==
  ASSUME RelayInv, ReconnectFires
  PROVE  RelayInv'
  <1>1. Flags'
    BY DEF RelayInv, TypeOK, Flags, ReconnectFires, TunnelInv, keepalive, phone
  <1>2. Sockets'
    BY DEF RelayInv, TypeOK, ConnectToMiddleware, ReconnectFires, Sockets, TunnelInv
  <1>3. TypeOK'
    BY <1>1, <1>2 DEF RelayInv, TypeOK, Flags, ReconnectFires, Sockets, TunnelInv,
       phone
  <1>4. OneTunnel'
    BY NoneIsNothing DEF RelayInv, TypeOK, OneTunnel, ConnectToMiddleware, Live,
       ReconnectFires, TunnelInv
  <1>5. RetriesAreBounded'
    BY DEF RelayInv, TypeOK, RetriesAreBounded, ReconnectFires, TunnelInv
  <1>6. KeepaliveFollowsTunnel'
    BY DEF RelayInv, TypeOK, KeepaliveFollowsTunnel, ConnectToMiddleware, Receiving,
       ReconnectFires, TunnelInv, keepalive
  <1>7. NeverWithoutRetry'
    BY DEF RelayInv, OneTunnel, NeverWithoutRetry, EndOfSession, ConnectToMiddleware,
       IsClientConnected, Live, ReconnectFires, TunnelInv, phone
  <1>8. KeysDieWithTunnel'
    BY DEF RelayInv, TypeOK, KeysDieWithTunnel, ConnectToMiddleware, Receiving,
       ReconnectFires, TunnelInv
  <1>9. DestroyedIsQuiet'
    BY DEF RelayInv, DestroyedIsQuiet, ConnectToMiddleware, ReconnectFires, keepalive
  <1>10. EndOfSession'
    BY DEF RelayInv, EndOfSession, ReconnectFires, phone
  <1>11. Registered'
    BY DEF RelayInv, TypeOK, RetriesAreBounded, Registered, ConnectToMiddleware, Live,
       ReconnectFires, TunnelInv, phone
  <1> QED BY <1>3, <1>4, <1>5, <1>6, <1>7, <1>8, <1>9, <1>10, <1>11
      DEF RelayInv, TunnelInv

(* The keepalive pings the tunnel it was started for. *)
LEMMA KeepalivePingKeeps ==
  ASSUME RelayInv, KeepalivePing
  PROVE  RelayInv'
  <1>1. Flags'
    BY DEF RelayInv, TypeOK, Flags, KeepalivePing, TunnelInv, phone, retry
  <1>2. Sockets'
    BY DEF RelayInv, TypeOK, KeepalivePing, Sockets, TunnelInv, wire
  <1>3. TypeOK'
    <2>1. UNCHANGED <<bridgeMode, client, handshake, challenge, lastRelay, sessionKey, registers,
                      boxKeys, timers, tracked>>
      BY DEF KeepalivePing, phone, retry
    <2>2. /\ (bridgeMode <=> client = "none") /\ client \in {"none", "open", "closing", "closed"}
          /\ handshake \in Handshakes /\ challenge \in Conversations \cup {None}
          /\ sessionKey \in Conversations \cup {None} /\ registers \in Nat
          /\ boxKeys \in {"none", "alone", "peer"} /\ timers \in Nat
          /\ lastRelay \in [conv : Conversations, via : Conversations] \cup {None}
      BY DEF RelayInv, TunnelInv, TypeOK
    <2> QED BY <1>1, <1>2, <2>1, <2>2 DEF TypeOK, Flags, Sockets
  <1>4. OneTunnel'
    BY DEF RelayInv, OneTunnel, KeepalivePing, Live, TunnelInv, wire
  <1>5. RetriesAreBounded'
    BY DEF RelayInv, RetriesAreBounded, KeepalivePing, TunnelInv, retry, wire
  <1>6. KeepaliveFollowsTunnel'
    BY DEF RelayInv, KeepaliveFollowsTunnel, KeepalivePing, Receiving, TunnelInv, wire
  <1>7. NeverWithoutRetry'
    BY DEF RelayInv, NeverWithoutRetry, KeepalivePing, wire
  <1>8. KeysDieWithTunnel'
    BY DEF RelayInv, KeysDieWithTunnel, KeepalivePing, Receiving, wire
  <1>9. DestroyedIsQuiet'
    BY DEF RelayInv, DestroyedIsQuiet, KeepalivePing
  <1>10. EndOfSession'
    BY DEF RelayInv, EndOfSession, KeepalivePing, phone, retry
  <1>11. Registered'
    BY DEF RelayInv, Registered, KeepalivePing, Live, phone, wire
  <1> QED BY <1>3, <1>4, <1>5, <1>6, <1>7, <1>8, <1>9, <1>10, <1>11
      DEF RelayInv, TunnelInv

(* A terminated tunnel is still the only one until its close event. *)
LEMMA PongTimeoutKeeps ==
  ASSUME RelayInv, PongTimeout
  PROVE  RelayInv'
  <1>1. Flags'
    BY DEF RelayInv, TypeOK, Flags, PongTimeout, TunnelInv, phone, retry
  <1>2. Sockets'
    BY DEF RelayInv, TypeOK, PongTimeout, Sockets, TunnelInv
  <1>3. TypeOK'
    BY <1>1, <1>2 DEF RelayInv, TypeOK, Flags, PongTimeout, TunnelInv, phone, retry
  <1>4. OneTunnel'
    BY DEF RelayInv, OneTunnel, DestroyedIsQuiet, Live, PongTimeout, TunnelInv
  <1>5. RetriesAreBounded'
    BY DEF RelayInv, RetriesAreBounded, PongTimeout, TunnelInv, retry
  <1>6. KeepaliveFollowsTunnel'
    BY DEF RelayInv, KeepaliveFollowsTunnel, PongTimeout, Receiving, TunnelInv
  <1>7. NeverWithoutRetry'
    BY DEF RelayInv, NeverWithoutRetry, IsClientConnected, PongTimeout, phone, retry
  <1>8. KeysDieWithTunnel'
    BY DEF RelayInv, KeysDieWithTunnel, PongTimeout, Receiving
  <1>9. DestroyedIsQuiet'
    BY DEF RelayInv, DestroyedIsQuiet, PongTimeout
  <1>10. EndOfSession'
    BY DEF RelayInv, EndOfSession, PongTimeout, phone, retry
  <1>11. Registered'
    BY DEF RelayInv, KeepaliveFollowsTunnel, DestroyedIsQuiet, Registered, Live,
       PongTimeout, Receiving, TunnelInv, phone
  <1> QED BY <1>3, <1>4, <1>5, <1>6, <1>7, <1>8, <1>9, <1>10, <1>11
      DEF RelayInv, TunnelInv

(* Only the tunnel of middlewareWs can open: destroy has closed it otherwise. *)
LEMMA TunnelOpensKeeps ==
  ASSUME RelayInv, NEW w \in Tunnels, TunnelOpens(w)
  PROVE  RelayInv'
  <1>1. Flags'
    BY DEF RelayInv, TypeOK, Flags, TunnelInv, TunnelOpens, phone, retry
  <1>2. Sockets'
    BY DEF RelayInv, TypeOK, Sockets, TunnelInv, TunnelOpens
  <1>3. TypeOK'
    <2>1. UNCHANGED <<bridgeMode, client, handshake, challenge, lastRelay, sessionKey, registers,
                      boxKeys, timers, tracked>>
      BY DEF TunnelOpens, phone, retry
    <2>2. /\ (bridgeMode <=> client = "none") /\ client \in {"none", "open", "closing", "closed"}
          /\ handshake \in Handshakes /\ challenge \in Conversations \cup {None}
          /\ sessionKey \in Conversations \cup {None} /\ registers \in Nat
          /\ boxKeys \in {"none", "alone", "peer"} /\ timers \in Nat
          /\ lastRelay \in [conv : Conversations, via : Conversations] \cup {None}
      BY DEF RelayInv, TunnelInv, TypeOK
    <2> QED BY <1>1, <1>2, <2>1, <2>2 DEF TypeOK, Flags, Sockets
  <1>4. OneTunnel'
    BY DEF RelayInv, OneTunnel, Live, TunnelInv, TunnelOpens
  <1>5. RetriesAreBounded'
    BY DEF RelayInv, RetriesAreBounded, TunnelInv, TunnelOpens, retry
  <1>6. KeepaliveFollowsTunnel'
    BY NoneIsNothing DEF RelayInv, TypeOK, OneTunnel, KeepaliveFollowsTunnel,
       DestroyedIsQuiet, Live, Receiving, TunnelInv, TunnelOpens
  <1>7. NeverWithoutRetry'
    BY DEF RelayInv, NeverWithoutRetry, IsClientConnected, TunnelOpens, phone, retry
  <1>8. KeysDieWithTunnel'
    BY DEF RelayInv, KeysDieWithTunnel, Receiving, TunnelOpens
  <1>9. DestroyedIsQuiet'
    BY DEF RelayInv, DestroyedIsQuiet, TunnelOpens
  <1>10. EndOfSession'
    BY DEF RelayInv, EndOfSession, TunnelOpens, phone, retry
  <1>11. Registered'
    BY DEF RelayInv, Registered, Live, TunnelOpens, phone
  <1> QED BY <1>3, <1>4, <1>5, <1>6, <1>7, <1>8, <1>9, <1>10, <1>11
      DEF RelayInv, TunnelInv

(* Box keys come from a tunnel that has been opened. *)
LEMMA PeerRegistersKeeps ==
  ASSUME RelayInv, NEW w \in Tunnels, PeerRegisters(w)
  PROVE  RelayInv'
  <1>1. Flags'
    BY DEF RelayInv, TypeOK, Flags, PeerRegisters, TunnelInv, keepalive, phone, retry
  <1>2. Sockets'
    BY DEF RelayInv, TypeOK, PeerRegisters, Sockets, TunnelInv, wire
  <1>3. TypeOK'
    BY <1>1, <1>2 DEF RelayInv, TypeOK, Flags, PeerRegisters, Sockets, TunnelInv,
       phone, retry
  <1>4. OneTunnel'
    BY DEF RelayInv, OneTunnel, Live, PeerRegisters, TunnelInv, wire
  <1>5. RetriesAreBounded'
    BY DEF RelayInv, RetriesAreBounded, PeerRegisters, TunnelInv, retry, wire
  <1>6. KeepaliveFollowsTunnel'
    BY DEF RelayInv, KeepaliveFollowsTunnel, PeerRegisters, Receiving, TunnelInv,
       keepalive, wire
  <1>7. NeverWithoutRetry'
    BY DEF RelayInv, NeverWithoutRetry, IsClientConnected, PeerRegisters, phone,
       retry, wire
  <1>8. KeysDieWithTunnel'
    BY DEF RelayInv, KeysDieWithTunnel, PeerRegisters, Receiving, wire
  <1>9. DestroyedIsQuiet'
    BY DEF RelayInv, DestroyedIsQuiet, PeerRegisters, keepalive, wire
  <1>10. EndOfSession'
    BY DEF RelayInv, EndOfSession, PeerRegisters, phone, retry
  <1>11. Registered'
    BY DEF RelayInv, Registered, Live, PeerRegisters, phone, wire
  <1> QED BY <1>3, <1>4, <1>5, <1>6, <1>7, <1>8, <1>9, <1>10, <1>11
      DEF RelayInv, TunnelInv

(* The tunnel that closes is the only one; a new one or a timer takes its place. *)
LEMMA TunnelClosesKeeps ==
  ASSUME RelayInv, NEW w \in Tunnels, TunnelCloses(w)
  PROVE  RelayInv'
  <1>1. Flags'
    BY DEF RelayInv, TypeOK, Flags, StopKeepalive, TunnelCloses, TunnelInv, phone
  <1>2. Sockets'
    BY DEF RelayInv, TypeOK, ConnectToMiddleware, Sockets, TunnelCloses, TunnelInv
  <1>3. TypeOK'
    BY <1>1, <1>2 DEF RelayInv, TypeOK, Flags, Sockets, TunnelCloses, TunnelInv, phone
  <1>4. OneTunnel'
    BY NoneIsNothing DEF RelayInv, TypeOK, OneTunnel, ConnectToMiddleware, Live,
       TunnelCloses, TunnelInv
  <1>5. RetriesAreBounded'
    BY NoneIsNothing DEF RelayInv, TypeOK, OneTunnel, RetriesAreBounded, EndOfSession,
       IsClientConnected, TunnelCloses, TunnelInv
  <1>6. KeepaliveFollowsTunnel'
    BY DEF RelayInv, TypeOK, OneTunnel, KeepaliveFollowsTunnel, ConnectToMiddleware,
       Live, StopKeepalive, TunnelCloses, TunnelInv
  <1>7. NeverWithoutRetry'
    BY NoneIsNothing DEF RelayInv, TypeOK, NeverWithoutRetry, EndOfSession,
       ConnectToMiddleware, IsClientConnected, TunnelCloses, TunnelInv, phone
  <1>8. KeysDieWithTunnel'
    BY DEF RelayInv, KeysDieWithTunnel, TunnelCloses
  <1>9. DestroyedIsQuiet'
    BY DEF RelayInv, TypeOK, DestroyedIsQuiet, ConnectToMiddleware, StopKeepalive,
       TunnelCloses, TunnelInv
  <1>10. EndOfSession'
    BY DEF RelayInv, TypeOK, EndOfSession, TunnelCloses, TunnelInv, phone
  <1>11. Registered'
    BY NoneIsNothing DEF RelayInv, TypeOK, OneTunnel, RetriesAreBounded, Registered,
       ConnectToMiddleware, Live, TunnelCloses, TunnelInv, phone
  <1> QED BY <1>3, <1>4, <1>5, <1>6, <1>7, <1>8, <1>9, <1>10, <1>11
      DEF RelayInv, TunnelInv

(* A pong only ends the waiting for it. *)
LEMMA PongKeeps ==
  ASSUME RelayInv, NEW w \in Tunnels, Pong(w)
  PROVE  RelayInv'
  <1>1. Flags'
    BY DEF RelayInv, TypeOK, Flags, Pong, TunnelInv, phone, retry
  <1>2. Sockets'
    BY DEF RelayInv, TypeOK, Pong, Sockets, TunnelInv, wire
  <1>3. TypeOK'
    BY <1>1, <1>2 DEF RelayInv, TypeOK, Flags, Pong, Sockets, TunnelInv, phone,
       retry
  <1>4. OneTunnel'
    BY DEF RelayInv, OneTunnel, Live, Pong, TunnelInv, wire
  <1>5. RetriesAreBounded'
    BY DEF RelayInv, RetriesAreBounded, Pong, TunnelInv, retry, wire
  <1>6. KeepaliveFollowsTunnel'
    BY DEF RelayInv, KeepaliveFollowsTunnel, Pong, Receiving, TunnelInv, wire
  <1>7. NeverWithoutRetry'
    BY DEF RelayInv, NeverWithoutRetry, IsClientConnected, Pong, phone, retry, wire
  <1>8. KeysDieWithTunnel'
    BY DEF RelayInv, KeysDieWithTunnel, Pong, Receiving, wire
  <1>9. DestroyedIsQuiet'
    BY DEF RelayInv, DestroyedIsQuiet, Pong, wire
  <1>10. EndOfSession'
    BY DEF RelayInv, EndOfSession, Pong, phone, retry
  <1>11. Registered'
    BY DEF RelayInv, Registered, Live, Pong, phone, wire
  <1> QED BY <1>3, <1>4, <1>5, <1>6, <1>7, <1>8, <1>9, <1>10, <1>11
      DEF RelayInv, TunnelInv

(* Every step keeps the bookkeeping. *)
LEMMA NextRelay == RelayInv /\ [Next]_vars => RelayInv'
  <1> SUFFICES ASSUME RelayInv, [Next]_vars PROVE RelayInv'
    OBVIOUS
  <1>1. handshake \in Handshakes /\ challenge \in Conversations \cup {None}
    BY DEF RelayInv, TunnelInv, TypeOK
  <1>2. lastRelay \in [conv : Conversations, via : Conversations] \cup {None}
    BY DEF RelayInv, TunnelInv, TypeOK
  <1>3. /\ handshake = "challenge_issued" => challenge # None
        /\ handshake = "ready_for_agent_req" => sessionKey # None
    BY DEF RelayInv, Registered
  <1>4. ASSUME NEW conv \in Conversations, ChallengeIssued(conv) PROVE RelayInv'
    BY <1>2, <1>4, ClientSideKeeps, NoneIsNothing
       DEF ChallengeIssued, Handshakes
  <1>5. CASE ChallengeFailed
    BY <1>1, <1>2, <1>3, <1>5, ClientSideKeeps
       DEF ChallengeFailed, FromClient, Handshakes
  <1>6. CASE UnsupportedMessage \/ ClientCloses
    BY <1>1, <1>2, <1>3, <1>6, ClientSideKeeps
       DEF UnsupportedMessage, ClientCloses, FromClient
  <1>7. CASE RelaySignedReq
    <2>1. sessionKey \in Conversations /\ tunnelKey[mws] \in Conversations
      BY <1>7 DEF RelaySignedReq, RelayInv, TunnelInv, TypeOK, Registered, Live
    <2> QED BY <1>1, <1>3, <1>7, <2>1, ClientSideKeeps DEF RelaySignedReq
  <1>8. CASE UNCHANGED vars
    BY <1>1, <1>2, <1>3, <1>8, ClientSideKeeps DEF vars, phone
  <1> QED BY <1>4, <1>5, <1>6, <1>7, <1>8, ChallengeAnsweredKeeps,
             StartBridgeSessionKeeps, DestroyKeeps, ReconnectFiresKeeps,
             KeepalivePingKeeps, PongTimeoutKeeps, TunnelOpensKeeps,
             PeerRegistersKeeps, TunnelClosesKeeps, PongKeeps DEF Next

(* The bookkeeping of the session is sound in every reachable state. *)
THEOREM RelayInvariant == Spec => []RelayInv
  BY InitRelay, NextRelay, PTL DEF Spec

(* connectToMiddleware and the 'close' handler: one tunnel at a time, at most as many
   retries as registrations, and a keepalive that watches exactly the open tunnel. *)
THEOREM TunnelIsSound == Spec => []TunnelInv
  <1>1. RelayInv => TunnelInv
    BY DEF RelayInv
  <1> QED BY <1>1, RelayInvariant, PTL

(* The 'close' handler and the reconnect timer: a session that has its conversation
   and its consumer has a tunnel, or a timer that will open one. *)
THEOREM RetryIsArmed == Spec => []NeverWithoutRetry
  <1>1. RelayInv => NeverWithoutRetry
    BY DEF RelayInv
  <1> QED BY <1>1, RelayInvariant, PTL

(* chatroomBoxKeys is cleared with its tunnel: no tunnel encrypts for a phone that
   has not registered there. *)
THEOREM KeysEndWithTunnel == Spec => []KeysDieWithTunnel
  <1>1. RelayInv => KeysDieWithTunnel
    BY DEF RelayInv
  <1> QED BY <1>1, RelayInvariant, PTL

(* After destroy no timer, orphaned or not, opens a tunnel. *)
THEOREM QuietAfterDestroy == Spec => []DestroyedIsQuiet
  <1>1. RelayInv => DestroyedIsQuiet
    BY DEF RelayInv
  <1> QED BY <1>1, RelayInvariant, PTL

-----------------------------------------------------------------------------
(* The conversation of a session.  The run relay_conversation shows that a second
   registration moves the session and leaves its tunnel behind; these facts show that
   nothing else does. *)

(* Before a second registration the tunnel is the conversation's, whatever reconnects
   and terminations lie between, and every request went where it belongs. *)
ConversationKept ==
  registers <= 1 =>
    /\ \A w \in Tunnels : Live(w) => tunnelKey[w] = sessionKey
    /\ RelayedInConversation

(* The inductive form: without a registration there is no tunnel at all. *)
ConversationInv ==
  /\ ConversationKept
  /\ registers = 0 => \A w \in Tunnels : ~Live(w)

LEMMA InitConversation == Init => ConversationInv
  BY DEF Init, ConversationInv, ConversationKept, RelayedInConversation, Live

(* connectToMiddleware puts the key it is given into the URL of the tunnel it opens
   and touches no other. *)
LEMMA ConnectNamesTunnel ==
  ASSUME TypeOK,
         NEW states \in [Tunnels -> {"none", "connecting", "open", "closing"}],
         NEW current, NEW key, ConnectToMiddleware(states, current, key),
         NEW w \in Tunnels, tunnel'[w] # "none"
  PROVE  \/ states[w] # "none" /\ tunnelKey'[w] = tunnelKey[w]
         \/ tunnelKey'[w] = key
  BY DEF ConnectToMiddleware, TypeOK

(* Registrations: the first opens the first tunnel, with its own key. *)
LEMMA RegistrationNamesTunnel ==
  ASSUME RelayInv, ConversationInv, UNCHANGED lastRelay,
         NEW key, sessionKey' = key, registers' = registers + 1,
         ConnectToMiddleware(tunnel, mws, key)
  PROVE  ConversationInv'
  <1>1. registers \in Nat /\ TypeOK
        /\ tunnel \in [Tunnels -> {"none", "connecting", "open", "closing"}]
    BY DEF RelayInv, TunnelInv, TypeOK
  <1>2. registers' # 0 /\ (registers' <= 1 => registers = 0)
    BY <1>1
  <1>3. ASSUME registers = 0, NEW w \in Tunnels, tunnel'[w] # "none"
        PROVE  tunnelKey'[w] = sessionKey'
    <2>1. tunnel[w] = "none"
      BY <1>3 DEF ConversationInv, Live
    <2> QED BY <1>1, <1>3, <2>1, ConnectNamesTunnel
  <1>4. registers = 0 => RelayedInConversation
    BY <1>1 DEF ConversationInv, ConversationKept
  <1> QED BY <1>2, <1>3, <1>4 DEF ConversationInv, ConversationKept,
             RelayedInConversation, Live

(* A reconnect is for the conversation of the session. *)
LEMMA ReconnectNamesTunnel ==
  ASSUME RelayInv, ConversationInv, UNCHANGED <<lastRelay, sessionKey, registers>>,
         NEW states \in [Tunnels -> {"none", "connecting", "open", "closing"}],
         \A w \in Tunnels : states[w] # "none" => tunnel[w] # "none",
         NEW current, ConnectToMiddleware(states, current, sessionKey),
         registers > 0
  PROVE  ConversationInv'
  <1>1. TypeOK /\ registers \in Nat
    BY DEF RelayInv, TunnelInv, TypeOK
  <1>2. ASSUME registers <= 1, NEW w \in Tunnels, tunnel'[w] # "none"
        PROVE  tunnelKey'[w] = sessionKey
    BY <1>1, <1>2, ConnectNamesTunnel DEF ConversationInv, ConversationKept, Live
  <1>3. registers <= 1 => RelayedInConversation'
    BY DEF ConversationInv, ConversationKept, RelayedInConversation
  <1> QED BY <1>1, <1>2, <1>3 DEF ConversationInv, ConversationKept, Live

(* Steps that open no tunnel and relay nothing. *)
LEMMA QuietStepKeepsConversation ==
  ASSUME ConversationInv, UNCHANGED <<lastRelay, sessionKey, registers, tunnelKey>>,
         \A w \in Tunnels : tunnel'[w] # "none" => tunnel[w] # "none"
  PROVE  ConversationInv'
  BY DEF ConversationInv, ConversationKept, RelayedInConversation, Live

LEMMA NextConversation ==
  RelayInv /\ ConversationInv /\ [Next]_vars => ConversationInv'
  <1> SUFFICES ASSUME RelayInv, ConversationInv, [Next]_vars PROVE ConversationInv'
    OBVIOUS
  <1>1. tunnel \in [Tunnels -> {"none", "connecting", "open", "closing"}]
        /\ registers \in Nat
    BY DEF RelayInv, TunnelInv, TypeOK
  <1>2. CASE \/ UNCHANGED vars \/ ChallengeFailed \/ UnsupportedMessage \/ ClientCloses
             \/ KeepalivePing
             \/ \E conv \in Conversations : ChallengeIssued(conv)
             \/ \E w \in Tunnels : PeerRegisters(w) \/ Pong(w)
    <2>1. UNCHANGED <<lastRelay, sessionKey, registers, tunnelKey, tunnel>>
      BY <1>2 DEF vars, phone, wire, ChallengeFailed, UnsupportedMessage, ClientCloses,
         KeepalivePing, ChallengeIssued, PeerRegisters, Pong
    <2> QED BY <2>1, QuietStepKeepsConversation
  <1>3. CASE ChallengeAnswered
    BY <1>3, RegistrationNamesTunnel DEF ChallengeAnswered
  <1>4. ASSUME NEW conv \in Conversations, StartBridgeSession(conv)
        PROVE  ConversationInv'
    <2>1. registers' = registers + 1 /\ UNCHANGED lastRelay
      BY <1>4 DEF StartBridgeSession, phone
    <2> QED BY <1>4, <2>1, RegistrationNamesTunnel DEF StartBridgeSession
  <1>5. CASE RelaySignedReq
    <2>1. UNCHANGED <<sessionKey, registers, tunnelKey, tunnel>>
      BY <1>5 DEF RelaySignedReq, wire
    <2>2. registers <= 1 => RelayedInConversation'
      BY <1>5, NoneIsNothing DEF RelaySignedReq, RelayedInConversation, ConversationInv,
         ConversationKept, Live, RelayInv, TunnelInv, TypeOK
    <2> QED BY <2>1, <2>2 DEF ConversationInv, ConversationKept, Live
  <1>6. CASE Destroy \/ PongTimeout \/ \E w \in Tunnels : TunnelOpens(w)
    <2>1. UNCHANGED <<lastRelay, sessionKey, registers, tunnelKey>>
      BY <1>6 DEF Destroy, PongTimeout, TunnelOpens, phone
    <2>2. ASSUME NEW v \in Tunnels, tunnel'[v] # "none" PROVE tunnel[v] # "none"
      <3>1. CASE Destroy \/ PongTimeout
        <4>1. mws # None => Live(mws)
          BY <1>1, NoneIsNothing DEF RelayInv, TunnelInv, OneTunnel, TypeOK,
             DestroyedIsQuiet
        <4> QED BY <2>2, <3>1, <4>1, <1>1 DEF Destroy, PongTimeout, Live
      <3>2. CASE \E w \in Tunnels : TunnelOpens(w)
        BY <2>2, <3>2, <1>1 DEF TunnelOpens
      <3> QED BY <1>6, <3>1, <3>2
    <2> QED BY <2>1, <2>2, QuietStepKeepsConversation
  <1>7. CASE ReconnectFires
    <2>1. registers > 0
      BY <1>1, <1>7 DEF ReconnectFires, RelayInv, TunnelInv, RetriesAreBounded, TypeOK
    <2>2. UNCHANGED <<lastRelay, sessionKey, registers>>
      BY <1>7 DEF ReconnectFires, phone
    <2> QED BY <1>1, <1>7, <2>1, <2>2, ReconnectNamesTunnel DEF ReconnectFires
  <1>8. ASSUME NEW w \in Tunnels, TunnelCloses(w) PROVE ConversationInv'
    <2> DEFINE states == [tunnel EXCEPT ![w] = "none"]
    <2>1. UNCHANGED <<lastRelay, sessionKey, registers>> /\ registers > 0
      BY <1>1, <1>8 DEF TunnelCloses, phone, ConversationInv
    <2>2. /\ states \in [Tunnels -> {"none", "connecting", "open", "closing"}]
          /\ \A v \in Tunnels : states[v] # "none" => tunnel[v] # "none"
      BY <1>1
    <2>3. CASE ConnectToMiddleware(states, None, sessionKey)
      <3> HIDE DEF states
      <3> QED BY <2>1, <2>2, <2>3, ReconnectNamesTunnel
    <2>4. CASE tunnel' = states /\ UNCHANGED tunnelKey
      BY <2>1, <2>2, <2>4, QuietStepKeepsConversation
    <2> QED BY <1>8, <2>3, <2>4 DEF TunnelCloses
  <1> QED BY <1>2, <1>3, <1>4, <1>5, <1>6, <1>7, <1>8 DEF Next

(* relaySignedReqToMiddleware sends over whatever tunnel middlewareWs is: in a session
   that was registered once this is the tunnel of its conversation.  So the violation
   in the run relay_conversation takes a re-registration and nothing less. *)
THEOREM OneRegistrationOneConversation == Spec => []ConversationKept
  <1>1. ConversationInv => ConversationKept
    BY DEF ConversationInv
  <1>2. Spec => []ConversationInv
    BY InitConversation, NextConversation, RelayInvariant, PTL DEF Spec
  <1> QED BY <1>1, <1>2, PTL

(* destroy is final.  Afterwards nothing is connected and no timer is armed, no tunnel
   comes back and none opens; what is left over closes or fires once, each into the
   guard of connectToMiddleware. *)
WindsDown ==
  destroyed =>
    /\ destroyed'
    /\ timers' <= timers
    /\ \A w \in Tunnels : tunnel'[w] \in {tunnel[w], "none"}
    /\ UNCHANGED <<mws, sessionKey, registers, lastRelay>>

LEMMA DestroyedWindsDown == RelayInv /\ [Next]_vars => WindsDown
  <1> SUFFICES ASSUME RelayInv, [Next]_vars, destroyed
               PROVE  /\ destroyed' /\ timers' <= timers
                      /\ \A w \in Tunnels : tunnel'[w] \in {tunnel[w], "none"}
                      /\ UNCHANGED <<mws, sessionKey, registers, lastRelay>>
    BY DEF WindsDown
  <1> DEFINE States == {"none", "connecting", "open", "closing"}
  <1>1. /\ tunnel \in [Tunnels -> States] /\ timers \in Nat
        /\ mws = None
        /\ \A w \in Tunnels : tunnel[w] \in {"none", "closing"}
    BY DEF RelayInv, TunnelInv, TypeOK, DestroyedIsQuiet
  <1>2. ~FromClient /\ client # "open" /\ ~IsClientConnected(destroyed)
    BY DEF RelayInv, EndOfSession, TunnelInv, TypeOK, FromClient, IsClientConnected
  <1>3. CASE UNCHANGED vars
    <2>1. UNCHANGED <<destroyed, timers, tunnel, mws, sessionKey, registers, lastRelay>>
      BY <1>3 DEF vars, phone, wire, retry
    <2> QED BY <1>1, <2>1
  <1>4. CASE KeepalivePing \/ PongTimeout
    BY <1>1, <1>4, NoneIsNothing DEF KeepalivePing, PongTimeout, phone, wire, retry
  <1>5. CASE \E w \in Tunnels : PeerRegisters(w) \/ Pong(w)
    <2>1. UNCHANGED <<destroyed, timers, tunnel, mws, sessionKey, registers, lastRelay>>
      BY <1>5 DEF PeerRegisters, Pong, phone, wire, retry
    <2> QED BY <1>1, <2>1
  <1>6. CASE ReconnectFires
    <2>1. tunnel' = tunnel /\ mws' = mws
      BY <1>2, <1>6 DEF ReconnectFires, ConnectToMiddleware
    <2> QED BY <1>1, <1>6, <2>1 DEF ReconnectFires, phone
  <1>7. ASSUME NEW w \in Tunnels, TunnelCloses(w)
        PROVE  /\ destroyed' /\ timers' <= timers
               /\ \A v \in Tunnels : tunnel'[v] \in {tunnel[v], "none"}
               /\ UNCHANGED <<mws, sessionKey, registers, lastRelay>>
    <2>1. tunnel' = [tunnel EXCEPT ![w] = "none"] /\ mws' = None /\ timers' = timers
      BY <1>2, <1>7 DEF TunnelCloses
    <2> QED BY <1>1, <1>7, <2>1 DEF TunnelCloses, phone
  <1>8. ASSUME NEW w \in Tunnels PROVE ~TunnelOpens(w)
    BY <1>1 DEF TunnelOpens
  <1>9. ~Destroy /\ \A conv \in Conversations : ~StartBridgeSession(conv)
    BY DEF Destroy, StartBridgeSession
  <1>10. /\ ~ChallengeAnswered /\ ~ChallengeFailed /\ ~UnsupportedMessage
         /\ ~RelaySignedReq /\ ~ClientCloses
         /\ \A conv \in Conversations : ~ChallengeIssued(conv)
    BY <1>2 DEF ChallengeAnswered, ChallengeFailed, UnsupportedMessage, RelaySignedReq,
       ClientCloses, ChallengeIssued
  <1> QED BY <1>3, <1>4, <1>5, <1>6, <1>7, <1>8, <1>9, <1>10 DEF Next

(* destroy clears only the timer _reconnectTimer refers to and closes a tunnel it
   does not wait for; nothing comes of either. *)
THEOREM DestroyIsFinal == Spec => [][WindsDown]_vars
  BY DestroyedWindsDown, RelayInvariant, PTL DEF Spec
=============================================================================
