---------------------------- MODULE GatewayBridge ----------------------------
(***************************************************************************)
(* OpenClawGatewayBridge (openclawGatewayBridge.js): the bridge that plays  *)
(* the phone's part for an OpenClaw gateway.  The phone is behind a         *)
(* MachineRelaySession in bridgeMode (RelaySession), which the bridge has   *)
(* from start to stop; the gateway is reached by the same connection, the   *)
(* same handshake and the same queue of turns as in GatewayAgentClient.     *)
(*                                                                         *)
(* The two classes have these methods in common, word for word but for      *)
(* logging and metrics, so the actions are those of GatewayClient, each     *)
(* with what the bridge does besides or instead: a keepalive of its own, a  *)
(* reconnect scheduled as soon as a connect is refused, and a stop that     *)
(* leaves the pending requests and the queue as they are.                   *)
(***************************************************************************)
EXTENDS GatewayClient

VARIABLES
  pinging,    \* _gatewayPingTimer is set
  awaiting,   \* _gatewayPongTimeout is set
  ponged,     \* a pong came since the last ping
  fresh       \* the last pong came in the millisecond of the last ping

keepalive == <<pinging, awaiting, ponged, fresh>>
bridgeVars == <<vars, keepalive>>

StopGatewayKeepalive == pinging' = FALSE /\ awaiting' = FALSE /\ UNCHANGED <<ponged, fresh>>

(* Without gatewayWs, after stop, only the old timers are cleared. *)
StartGatewayKeepalive ==
  /\ pinging' = (ws # None)
  /\ awaiting' = FALSE /\ ponged' = FALSE /\ fresh' = FALSE

BridgeInit ==
  /\ Init
  /\ pinging = FALSE /\ awaiting = FALSE /\ ponged = FALSE /\ fresh = FALSE

-----------------------------------------------------------------------------
(* Connecting *)

(* start, once. *)
Start == ~started /\ ~destroyed /\ EnsureConnected /\ UNCHANGED keepalive

(* _connectGatewayWithWait: the port does not come up, or stop came first. *)
ConnectWaitFails == WaitFails /\ UNCHANGED keepalive
ConnectWaitEndsDestroyed == WaitEndsDestroyed /\ UNCHANGED keepalive

(* _openGatewayWebSocket *)
OpenGateway(s) == OpenSocket(s) /\ UNCHANGED keepalive
OpenGatewayFails == OpenSocketFails /\ UNCHANGED keepalive

GatewayOpens(s) == SocketOpens(s) /\ UNCHANGED keepalive

GatewayCloses(s) == SocketCloses(s) /\ StopGatewayKeepalive

(* Mutant of ReconnectTimer: gatewayWs is not looked at. *)
ReconnectTimerBlind ==
  /\ reconnectTimer
  /\ reconnectTimer' = FALSE
  /\ IF connecting THEN UNCHANGED <<connecting, waits>>
     ELSE connecting' = TRUE /\ waits' = waits + 1
  /\ UNCHANGED <<sock, ws, started, challengeTimer, connectSent, connects, connected,
                 destroyed, turnVars, keepalive>>

(* _scheduleGatewayReconnect's timer: it does nothing while gatewayWs is there. *)
ReconnectTimer == ReconnectFires /\ UNCHANGED keepalive

-----------------------------------------------------------------------------
(* The handshake *)

GatewayChallenge(s) == ChallengeArrives(s) /\ UNCHANGED keepalive
GatewayChallengeNoNonce(s) == ChallengeWithoutNonce(s) /\ UNCHANGED keepalive
GatewayChallengeTimeout == ChallengeTimeout /\ UNCHANGED keepalive

(* Mutant of GatewayAccepts: the keepalive is not started. *)
GatewayAcceptsUnwatched(s, shape) == ConnectAccepted(s, shape) /\ UNCHANGED keepalive

(* hello-ok: connected, watched, and the queue is drained. *)
GatewayAccepts(s, shape) == ConnectAccepted(s, shape) /\ StartGatewayKeepalive

(* hello-ok without operator.write: the socket is closed. *)
GatewayDenies(s, shape) == ConnectRefused(s, shape) /\ UNCHANGED keepalive

(* connect is refused: the socket is closed and a reconnect scheduled at once. *)
GatewayRejects(s, shape) ==
  /\ Receiving(s)
  /\ connects[s][shape] > 0
  /\ connects' = TakeConnect(s, shape)
  /\ CloseSocket
  /\ ScheduleReconnect
  /\ UNCHANGED <<ws, started, connecting, waits, challengeTimer, connectSent, connected,
                 destroyed, turnVars, keepalive>>

GatewayAsksForDevice(s, shape) == ConnectChallenged(s, shape) /\ UNCHANGED keepalive

-----------------------------------------------------------------------------
(* Turns.  acked and delivered count what is given to the session to send. *)

(* A message of the phone.  _onPhonePlaintext and _enqueueUserMessage do not look at
   _destroyed: the tunnel of a session that was destroyed is still closing and can
   hand over a frame, once the phone has registered its key on it again.  That there
   always is such a tunnel after stop is an over-approximation. *)
PhoneMessage == started /\ EnqueueAgentTurn /\ UNCHANGED keepalive

AgentResponse(t, f) == ~destroyed /\ TurnResponse(t, f) /\ UNCHANGED keepalive

(* Refused by the agent: the provider is asked, after stop too. *)
AgentRefuses(t, f) == TurnRejected(t, f) /\ UNCHANGED keepalive

AgentFrame(t, f) == ~destroyed /\ OtherFrame(t, f) /\ UNCHANGED keepalive

(* After stop a turn is still settled, and the next one given to the provider, but
   there is no session to tell the phone through. *)
LateFrame(t, f) ==
  /\ destroyed
  /\ \E s \in Sockets : Receiving(s)
  /\ IF IsTurnResponse(t, f)
     THEN (f.ok \/ ~AutoFallback) /\ Settle(t, After(f, seen))
     ELSE KeepQueue(queue, inFlight, pending, armed, calls, After(f, seen))
  /\ UNCHANGED <<connVars, enqueued, acked, delivered, keepalive>>

AgentTimeout(t) == TurnTimeout(t) /\ UNCHANGED keepalive

ProviderEnds(c) == ~destroyed /\ FallbackEnds(c) /\ UNCHANGED keepalive

(* After stop _tryFallback is false whatever the provider says. *)
LateProviderEnds(c) ==
  /\ destroyed
  /\ c \in calls
  /\ Settle(c.turn, IF c.why = "rejected"
                    THEN After(FrameOf("error", c.turn, c.turn), seen) ELSE seen)
  /\ UNCHANGED <<connVars, enqueued, acked, delivered, keepalive>>

-----------------------------------------------------------------------------
(* The keepalive: every 30 s a ping, and 10 s later a look at the last pong. *)

KeepalivePing ==
  /\ pinging /\ ~awaiting
  /\ IsOpen
  /\ awaiting' = TRUE
  /\ ponged' = FALSE
  /\ fresh' \in {FALSE, ponged}
  /\ UNCHANGED <<vars, pinging>>

Pong(s) ==
  /\ Receiving(s)
  /\ ponged' = TRUE
  /\ awaiting' = FALSE
  /\ UNCHANGED <<vars, pinging, fresh>>

PongTimeout ==
  /\ awaiting
  /\ awaiting' = FALSE
  /\ IF fresh THEN UNCHANGED sock ELSE CloseSocket
  /\ UNCHANGED <<ws, started, connecting, waits, reconnectTimer, challengeTimer,
                 connectSent, connects, connected, destroyed, turnVars, pinging, ponged,
                 fresh>>

(* Mutant of Stop: the reconnect timer survives. *)
StopKeepsTimer ==
  /\ ~destroyed
  /\ destroyed' = TRUE
  /\ challengeTimer' = FALSE
  /\ connectSent' = FALSE
  /\ CloseSocket
  /\ ws' = None
  /\ connected' = FALSE
  /\ StopGatewayKeepalive
  /\ UNCHANGED <<started, connecting, waits, reconnectTimer, connects, turnVars>>

(* stop: the session ends too; _pending and _queue are left as they are. *)
Stop ==
  /\ ~destroyed
  /\ destroyed' = TRUE
  /\ challengeTimer' = FALSE
  /\ connectSent' = FALSE
  /\ reconnectTimer' = FALSE
  /\ CloseSocket
  /\ ws' = None
  /\ connected' = FALSE
  /\ StopGatewayKeepalive
  /\ UNCHANGED <<started, connecting, waits, connects, turnVars>>

-----------------------------------------------------------------------------
BridgeNext ==
  \/ Start
  \/ ConnectWaitFails
  \/ ConnectWaitEndsDestroyed
  \/ OpenGatewayFails
  \/ ReconnectTimer
  \/ GatewayChallengeTimeout
  \/ KeepalivePing
  \/ PongTimeout
  \/ Stop
  \/ \E s \in Sockets :
       \/ OpenGateway(s)
       \/ GatewayOpens(s)
       \/ GatewayCloses(s)
       \/ GatewayChallenge(s)
       \/ GatewayChallengeNoNonce(s)
       \/ Pong(s)
       \/ \E shape \in Shapes :
            \/ GatewayAccepts(s, shape)
            \/ GatewayDenies(s, shape)
            \/ GatewayRejects(s, shape)
            \/ GatewayAsksForDevice(s, shape)
  \/ PhoneMessage
  \/ \E t \in Range(sent) : \E f \in Frames(t) :
       AgentResponse(t, f) \/ AgentRefuses(t, f) \/ AgentFrame(t, f) \/ LateFrame(t, f)
  \/ \E t \in armed : AgentTimeout(t)
  \/ \E c \in calls : ProviderEnds(c) \/ LateProviderEnds(c)

BridgeSpec == BridgeInit /\ [][BridgeNext]_bridgeVars

(* The timers of the keepalive fire and a closing socket is closed (ws gives up
   after 30 s). *)
BridgeFairness ==
  /\ WF_bridgeVars(KeepalivePing)
  /\ WF_bridgeVars(PongTimeout)
  /\ \A s \in Sockets : WF_bridgeVars(sock[s] = "closing" /\ GatewayCloses(s))

FairBridgeSpec == BridgeSpec /\ BridgeFairness

-----------------------------------------------------------------------------
(* The connection is sound although _connectGateway does not look at gatewayWs and
   a reconnect may be scheduled while the refused socket is still closing: one
   socket, never offline for good, a handshake that has a next step, and a keepalive
   exactly while connected. *)
BridgeInv ==
  /\ TypeOK
  /\ OneSocket
  /\ NeverStrandedOffline
  /\ HandshakeHasNext
  /\ pinging <=> connected /\ ws # None
  /\ awaiting => pinging

(* After stop the bridge opens nothing and no timer of the connection is armed
   again, whatever still comes in on the closing socket. *)
StopIsQuiet ==
  destroyed =>
    /\ ws = None /\ ~reconnectTimer /\ ~challengeTimer /\ ~pinging
    /\ \A s \in Sockets : sock[s] \in {"none", "closing"}

(* The queue keeps the promise of TurnQueue, after stop too: the requests that were
   pending then are settled, the turns behind them and those that still come in are
   taken up one by one and in order. *)
BridgeImplementsTurnQueue == Abstract!Spec

(* A gateway that has gone silent behind an open socket is given up, and not left
   to swallow turns. *)
SilentGatewayDropped ==
  \A s \in Sockets : sock[s] = "open" /\ connected ~> sock[s] # "open" \/ ponged
=============================================================================
