---------------------------- MODULE GatewayClient ----------------------------
(***************************************************************************)
(* GatewayAgentClient (gatewayAgentClient.js), the relay's outbound         *)
(* connection to the OpenClaw gateway: connect and reconnect, the           *)
(* connect.challenge handshake, the queue of agent turns with one turn in   *)
(* flight, request timeouts, the provider fallback and the forwarding of    *)
(* replies.                                                                 *)
(*                                                                         *)
(* One action is one macrotask of the event loop: a socket event, a timer,  *)
(* the end of an await, or a call from the rest of the relay, together with *)
(* the microtasks it runs (the finally of _drainQueue and the next send).   *)
(* The gateway is external: it may answer, stay silent, repeat frames and   *)
(* drop the connection at any point.                                        *)
(***************************************************************************)
EXTENDS GatewayReply, FiniteSets

CONSTANTS
  Sockets,       \* WebSocket objects; a closed one may be used again
  None,          \* no socket
  Setups,        \* how the client may be configured, see ConnectMode and AutoFallback
  FrameKinds,    \* the kinds of run frames the gateway sends
  MaxTurns       \* model bound: agent turns enqueued

ASSUME NoneIsNoSocket == None \notin Sockets
ASSUME SetupsAreKnown ==
  Setups \subseteq [mode : {"challenge", "blind", "insecure"}, fallback : BOOLEAN]
ASSUME KindsAreKnown == FrameKinds \subseteq Kinds
ASSUME MaxTurnsIsNat == MaxTurns \in Nat
ASSUME NoRunIsNoTurn == NoRun \notin 1..MaxTurns

VARIABLES
  setup,           \* the configuration, fixed by the constructor
  \* the connection
  sock,            \* readyState of each WebSocket, "none" before and after its life
  ws,              \* gatewayWs
  started,         \* history: ensureConnected was called
  connecting,      \* _connecting
  waits,           \* waitForGatewayLoopback calls being awaited
  reconnectTimer,  \* _reconnectTimer is set
  challengeTimer,  \* _connectChallengeTimer is armed
  connectSent,     \* _connectSent
  connects,        \* per socket and shape, connect requests in _pending
  connected,       \* _gatewayConnected
  destroyed,       \* _destroyed
  \* the agent turns, numbered in the order they are enqueued
  enqueued,        \* turns enqueued so far
  queue,           \* _queue
  inFlight,        \* _inFlight
  pending,         \* turns with an entry in _pending
  armed,           \* turns whose promise waits on the request timeout
  calls,           \* turns in _tryFallback, and why
  seen,            \* keys in _replyDeduper, oldest first
  \* what the outside sees
  sent,            \* turns sent to the gateway, in order
  acked,           \* per turn, message.ack frames passed on
  delivered        \* per turn, replies passed on from gateway frames

connVars == <<setup, sock, ws, started, connecting, waits, reconnectTimer,
              challengeTimer, connectSent, connects, connected, destroyed>>
turnVars == <<setup, enqueued, queue, inFlight, pending, armed, calls, seen,
              sent, acked, delivered>>
vars == <<connVars, turnVars>>

Turns == 1..MaxTurns

(* Challenge first, blind (legacy) or insecure (no device block); and
   _autoFallbackEnabled. *)
ConnectMode == setup.mode
AutoFallback == setup.fallback

(* A connect request is sent bare (omitDevice) or with the signed device block. *)
Shapes == {"bare", "device"}
NoConnects == [shape \in Shapes |-> 0]
Outstanding(s) == connects[s]["bare"] + connects[s]["device"]

-----------------------------------------------------------------------------
(* Live: handlers still fire.  A closing WebSocket delivers messages until its
   close event. *)
Live(s) == sock[s] # "none"
Receiving(s) == sock[s] \in {"open", "closing"}

IsOpen == ws # None /\ sock[ws] = "open"
CanSendGateway == connected /\ IsOpen

(* gatewayWs?.close() *)
CloseSocket ==
  sock' = IF ws # None THEN [sock EXCEPT ![ws] = "closing"] ELSE sock

ScheduleReconnect == reconnectTimer' = IF destroyed THEN reconnectTimer ELSE TRUE

(* Mutant of Connect: no check that a connect is already under way. *)
ConnectUnguarded ==
  IF destroyed \/ ws # None
  THEN UNCHANGED <<connecting, waits>>
  ELSE connecting' = TRUE /\ waits' = waits + 1

(* _connect, and _connectWithWait up to its await. *)
Connect ==
  IF destroyed \/ connecting \/ ws # None
  THEN UNCHANGED <<connecting, waits>>
  ELSE connecting' = TRUE /\ waits' = waits + 1

(* The shape of a connect that answers a challenge. *)
WithDevice == IF ConnectMode = "insecure" THEN "bare" ELSE "device"

(* _sendConnectHandshake, given the socket's state and _connectSent. *)
SendConnect(shape) ==
  IF IsOpen
  THEN /\ connectSent' = TRUE
       /\ connects' = [connects EXCEPT ![ws][shape] = @ + 1]
  ELSE UNCHANGED <<connectSent, connects>>

(* _drainQueue, as far as it runs before its await: q, pend, arm, fb and keys are
   the turn state its caller leaves behind, can whether the gateway can be used.
   _sendAgentTurn resets the deduper. *)
KeepQueue(q, busy, pend, arm, fb, keys) ==
  /\ queue' = q /\ inFlight' = busy
  /\ pending' = pend /\ armed' = arm /\ calls' = fb
  /\ seen' = keys /\ sent' = sent

StartTurn(t, q, can, pend, arm, fb, keys) ==
  /\ queue' = q /\ inFlight' = TRUE
  /\ \/ /\ can
        /\ pending' = pend \cup {t} /\ armed' = arm \cup {t} /\ calls' = fb
        /\ seen' = <<>> /\ sent' = Append(sent, t)
     \/ /\ ~can
        /\ calls' = fb \cup {[turn |-> t, why |-> "offline"]}
        /\ pending' = pend /\ armed' = arm /\ seen' = keys /\ sent' = sent

(* Mutants of Drain: _inFlight is not tested; the last item taken, not the first. *)
DrainWhileBusy(q, busy, can, pend, arm, fb, keys) ==
  IF q = <<>> \/ (~can /\ ~AutoFallback)
  THEN KeepQueue(q, busy, pend, arm, fb, keys)
  ELSE StartTurn(Head(q), Tail(q), can, pend, arm, fb, keys)

DrainNewestFirst(q, busy, can, pend, arm, fb, keys) ==
  IF busy \/ q = <<>> \/ (~can /\ ~AutoFallback)
  THEN KeepQueue(q, busy, pend, arm, fb, keys)
  ELSE StartTurn(q[Len(q)], SubSeq(q, 1, Len(q) - 1), can, pend, arm, fb, keys)

Drain(q, busy, can, pend, arm, fb, keys) ==
  IF busy \/ q = <<>> \/ (~can /\ ~AutoFallback)
  THEN KeepQueue(q, busy, pend, arm, fb, keys)
  ELSE StartTurn(Head(q), Tail(q), can, pend, arm, fb, keys)

-----------------------------------------------------------------------------
Init ==
  /\ setup \in Setups
  /\ sock = [s \in Sockets |-> "none"]
  /\ ws = None
  /\ started = FALSE
  /\ connecting = FALSE
  /\ waits = 0
  /\ reconnectTimer = FALSE
  /\ challengeTimer = FALSE
  /\ connectSent = FALSE
  /\ connects = [s \in Sockets |-> NoConnects]
  /\ connected = FALSE
  /\ destroyed = FALSE
  /\ enqueued = 0
  /\ queue = <<>>
  /\ inFlight = FALSE
  /\ pending = {}
  /\ armed = {}
  /\ calls = {}
  /\ seen = <<>>
  /\ sent = <<>>
  /\ acked = [t \in Turns |-> 0]
  /\ delivered = [t \in Turns |-> 0]

-----------------------------------------------------------------------------
(* Connecting *)

EnsureConnected ==
  /\ started' = TRUE
  /\ Connect
  /\ UNCHANGED <<sock, ws, reconnectTimer, challengeTimer, connectSent, connects,
                 connected, destroyed, turnVars>>

(* Mutant of WaitFails: the failed attempt is the last. *)
WaitFailsForGood ==
  /\ waits > 0
  /\ waits' = waits - 1
  /\ connecting' = FALSE
  /\ UNCHANGED <<sock, ws, started, reconnectTimer, challengeTimer, connectSent,
                 connects, connected, destroyed, turnVars>>

(* The gateway port did not come up in time. *)
WaitFails ==
  /\ waits > 0
  /\ waits' = waits - 1
  /\ connecting' = FALSE
  /\ ScheduleReconnect
  /\ UNCHANGED <<sock, ws, started, challengeTimer, connectSent, connects,
                 connected, destroyed, turnVars>>

(* Destroyed during the wait: _connectWithWait gives up. *)
WaitEndsDestroyed ==
  /\ waits > 0
  /\ destroyed
  /\ waits' = waits - 1
  /\ connecting' = FALSE
  /\ UNCHANGED <<sock, ws, started, reconnectTimer, challengeTimer, connectSent,
                 connects, connected, destroyed, turnVars>>

(* Mutant of OpenSocket: destroy is not looked at again after the wait. *)
OpenSocketUnchecked(s) ==
  /\ waits > 0
  /\ sock[s] = "none"
  /\ waits' = waits - 1
  /\ sock' = [sock EXCEPT ![s] = "connecting"]
  /\ ws' = s
  /\ UNCHANGED <<started, connecting, reconnectTimer, challengeTimer, connectSent,
                 connects, connected, destroyed, turnVars>>

(* The port is up: _openGatewayWebSocket; connecting stays set until open or close. *)
OpenSocket(s) ==
  /\ waits > 0
  /\ ~destroyed
  /\ sock[s] = "none"
  /\ waits' = waits - 1
  /\ sock' = [sock EXCEPT ![s] = "connecting"]
  /\ ws' = s
  /\ UNCHANGED <<started, connecting, reconnectTimer, challengeTimer, connectSent,
                 connects, connected, destroyed, turnVars>>

(* new WebSocket(...) throws. *)
OpenSocketFails ==
  /\ waits > 0
  /\ ~destroyed
  /\ waits' = waits - 1
  /\ connecting' = FALSE
  /\ ScheduleReconnect
  /\ UNCHANGED <<sock, ws, started, challengeTimer, connectSent, connects,
                 connected, destroyed, turnVars>>

(* 'open': _beginHandshakeAfterOpen.  A device handshake waits for the challenge;
   the other two modes send connect at once. *)
SocketOpens(s) ==
  /\ sock[s] = "connecting"
  /\ sock' = [sock EXCEPT ![s] = "open"]
  /\ connecting' = FALSE
  /\ IF ConnectMode = "challenge"
     THEN /\ challengeTimer' = TRUE
          /\ connectSent' = FALSE
          /\ UNCHANGED connects
     ELSE /\ challengeTimer' = FALSE
          /\ connectSent' = TRUE
          /\ connects' = [connects EXCEPT ![s]["bare"] = @ + 1]
  /\ UNCHANGED <<ws, started, waits, reconnectTimer, connected, destroyed, turnVars>>

(* 'close', whoever closed it.  The connect entries a closed socket leaves in
   _pending can never be answered and are dropped here.  Turns are not settled. *)
SocketCloses(s) ==
  /\ Live(s)
  /\ sock' = [sock EXCEPT ![s] = "none"]
  /\ connects' = [connects EXCEPT ![s] = NoConnects]
  /\ connecting' = FALSE
  /\ connected' = FALSE
  /\ challengeTimer' = FALSE
  /\ connectSent' = FALSE
  /\ ws' = None
  /\ ScheduleReconnect
  /\ UNCHANGED <<started, waits, destroyed, turnVars>>

ReconnectFires ==
  /\ reconnectTimer
  /\ reconnectTimer' = FALSE
  /\ Connect
  /\ UNCHANGED <<sock, ws, started, challengeTimer, connectSent, connects,
                 connected, destroyed, turnVars>>

-----------------------------------------------------------------------------
(* The connect handshake *)

(* Mutant of ChallengeArrives: every challenge is answered with a connect. *)
ChallengeAnsweredAgain(s) ==
  /\ Receiving(s)
  /\ challengeTimer' = FALSE
  /\ SendConnect(WithDevice)
  /\ UNCHANGED <<sock, ws, started, connecting, waits, reconnectTimer, connected,
                 destroyed, turnVars>>

(* connect.challenge with a nonce. *)
ChallengeArrives(s) ==
  /\ Receiving(s)
  /\ challengeTimer' = FALSE
  /\ IF connectSent THEN UNCHANGED <<connectSent, connects>>
     ELSE SendConnect(WithDevice)
  /\ UNCHANGED <<sock, ws, started, connecting, waits, reconnectTimer, connected,
                 destroyed, turnVars>>

(* connect.challenge without a nonce closes the socket; the timer stays armed. *)
ChallengeWithoutNonce(s) ==
  /\ Receiving(s)
  /\ CloseSocket
  /\ UNCHANGED <<ws, started, connecting, waits, reconnectTimer, challengeTimer,
                 connectSent, connects, connected, destroyed, turnVars>>

(* Mutant of ChallengeTimeout: the timer only reports. *)
ChallengeTimeoutLogs ==
  /\ challengeTimer
  /\ challengeTimer' = FALSE
  /\ UNCHANGED <<sock, ws, started, connecting, waits, reconnectTimer, connectSent,
                 connects, connected, destroyed, turnVars>>

ChallengeTimeout ==
  /\ challengeTimer
  /\ challengeTimer' = FALSE
  /\ IF destroyed \/ connectSent THEN UNCHANGED sock ELSE CloseSocket
  /\ UNCHANGED <<ws, started, connecting, waits, reconnectTimer, connectSent,
                 connects, connected, destroyed, turnVars>>

(* A response to one of the connect requests outstanding on s. *)
TakeConnect(s, shape) == [connects EXCEPT ![s][shape] = @ - 1]

(* Mutant of ConnectAccepted: the queue waits for the next enqueue. *)
ConnectAcceptedNoDrain(s, shape) ==
  /\ Receiving(s)
  /\ connects[s][shape] > 0
  /\ connects' = TakeConnect(s, shape)
  /\ connected' = TRUE
  /\ UNCHANGED <<sock, ws, started, connecting, waits, reconnectTimer, challengeTimer,
                 connectSent, destroyed, turnVars>>

(* hello-ok with operator.write: _finishConnectSuccess, which drains the queue. *)
ConnectAccepted(s, shape) ==
  /\ Receiving(s)
  /\ connects[s][shape] > 0
  /\ connects' = TakeConnect(s, shape)
  /\ connected' = TRUE
  /\ Drain(queue, inFlight, IsOpen, pending, armed, calls, seen)
  /\ UNCHANGED <<sock, ws, started, connecting, waits, reconnectTimer, challengeTimer,
                 connectSent, destroyed, setup, enqueued, acked, delivered>>

(* Refused, or accepted without operator.write. *)
ConnectRefused(s, shape) ==
  /\ Receiving(s)
  /\ connects[s][shape] > 0
  /\ connects' = TakeConnect(s, shape)
  /\ CloseSocket
  /\ UNCHANGED <<ws, started, connecting, waits, reconnectTimer, challengeTimer,
                 connectSent, connected, destroyed, turnVars>>

(* A legacy gateway answers a device-less connect with CHALLENGE_REQUIRED and the
   nonce to sign: connect is sent again. *)
ConnectChallenged(s, shape) ==
  /\ Receiving(s)
  /\ connects[s][shape] > 0
  /\ shape = "bare"
  /\ connectSent' = IsOpen
  /\ connects' = IF IsOpen
                 THEN [TakeConnect(s, shape) EXCEPT ![ws][WithDevice] = @ + 1]
                 ELSE TakeConnect(s, shape)
  /\ UNCHANGED <<sock, ws, started, connecting, waits, reconnectTimer, challengeTimer,
                 connected, destroyed, turnVars>>

-----------------------------------------------------------------------------
(* Agent turns *)

EnqueueAgentTurn ==
  /\ enqueued < MaxTurns
  /\ enqueued' = enqueued + 1
  /\ Drain(Append(queue, enqueued + 1), inFlight, CanSendGateway, pending, armed,
           calls, seen)
  /\ UNCHANGED <<connVars, acked, delivered>>

(* assistantTextForConsumer and onAssistantText for a frame of run t. *)
Forward(t, f) ==
  delivered' = IF Delivers(f, seen) THEN [delivered EXCEPT ![t] = @ + 1] ELSE delivered

Frames(t) == {FrameOf(kind, t, t) : kind \in FrameKinds}

(* Mutants of Settle: the _pending entry stays; the finally clears _inFlight and
   leaves the queue alone. *)
SettleKeepsEntry(t, keys) ==
  Drain(queue, FALSE, CanSendGateway, pending, armed \ {t},
        {c \in calls : c.turn # t}, keys)

SettleNoDrain(t, keys) ==
  KeepQueue(queue, FALSE, pending \ {t}, armed \ {t},
            {c \in calls : c.turn # t}, keys)

(* The promise of t resolves: _drainQueue's finally, and the next turn. *)
Settle(t, keys) ==
  Drain(queue, FALSE, CanSendGateway, pending \ {t}, armed \ {t},
        {c \in calls : c.turn # t}, keys)

IsTurnResponse(t, f) == f.type = "res" /\ t \in pending

(* The response that settles turn t: an acceptance is acknowledged to the phone,
   any text in it is forwarded. *)
TurnResponse(t, f) ==
  /\ \E s \in Sockets : Receiving(s)
  /\ IsTurnResponse(t, f)
  /\ f.ok \/ ~AutoFallback
  /\ acked' = IF IsGatewayAcceptedAck(f) THEN [acked EXCEPT ![t] = @ + 1] ELSE acked
  /\ Forward(t, f)
  /\ Settle(t, After(f, seen))
  /\ UNCHANGED <<connVars, enqueued>>

(* An error response with the fallback on: the provider is asked instead. *)
TurnRejected(t, f) ==
  /\ \E s \in Sockets : Receiving(s)
  /\ IsTurnResponse(t, f)
  /\ ~f.ok /\ AutoFallback
  /\ pending' = pending \ {t}
  /\ armed' = armed \ {t}
  /\ calls' = calls \cup {[turn |-> t, why |-> "rejected"]}
  /\ UNCHANGED <<connVars, enqueued, queue, inFlight, seen, sent, acked, delivered>>

(* An event, or a response nobody waits for any more (a late or second res). *)
OtherFrame(t, f) ==
  /\ \E s \in Sockets : Receiving(s)
  /\ ~IsTurnResponse(t, f)
  /\ Forward(t, f)
  /\ seen' = After(f, seen)
  /\ UNCHANGED <<connVars, enqueued, queue, inFlight, pending, armed, calls, sent, acked>>

(* OPENCLAW_BRIDGE_REQ_TIMEOUT_MS passed without a response. *)
TurnTimeout(t) ==
  /\ t \in armed
  /\ Settle(t, seen)
  /\ UNCHANGED <<connVars, enqueued, acked, delivered>>

(* _tryFallback returns.  A turn it answers is done; an unanswered rejection is
   reported as the gateway's error; an unanswered offline turn is dropped. *)
FallbackEnds(c) ==
  /\ c \in calls
  /\ \/ /\ Settle(c.turn, seen)
        /\ UNCHANGED delivered
     \/ /\ c.why = "rejected"
        /\ LET f == FrameOf("error", c.turn, c.turn)
           IN Forward(c.turn, f) /\ Settle(c.turn, After(f, seen))
  /\ UNCHANGED <<connVars, enqueued, acked>>

-----------------------------------------------------------------------------
Destroy ==
  /\ ~destroyed
  /\ destroyed' = TRUE
  /\ challengeTimer' = FALSE
  /\ reconnectTimer' = FALSE
  /\ CloseSocket
  /\ ws' = None
  /\ connected' = FALSE
  /\ connects' = [s \in Sockets |-> NoConnects]
  /\ pending' = {}
  /\ queue' = <<>>
  /\ UNCHANGED <<setup, started, connecting, waits, connectSent, enqueued, inFlight, armed,
                 calls, seen, sent, acked, delivered>>

-----------------------------------------------------------------------------
ConnectionNext ==
  \/ EnsureConnected
  \/ WaitFails
  \/ WaitEndsDestroyed
  \/ OpenSocketFails
  \/ ReconnectFires
  \/ ChallengeTimeout
  \/ Destroy
  \/ \E s \in Sockets :
       \/ OpenSocket(s)
       \/ SocketOpens(s)
       \/ SocketCloses(s)
       \/ ChallengeArrives(s)
       \/ ChallengeWithoutNonce(s)
       \/ \E shape \in Shapes :
            \/ ConnectAccepted(s, shape)
            \/ ConnectRefused(s, shape)
            \/ ConnectChallenged(s, shape)

TurnNext ==
  \/ EnqueueAgentTurn
  \/ \E t \in Range(sent) : \E f \in Frames(t) :
       \/ TurnResponse(t, f)
       \/ TurnRejected(t, f)
       \/ OtherFrame(t, f)
  \/ \E t \in armed : TurnTimeout(t)
  \/ \E c \in calls : FallbackEnds(c)

Next == ConnectionNext \/ TurnNext

Spec == Init /\ [][Next]_vars

(* Timers fire, waits and connection attempts come to an end, a request to the
   provider is aborted after OPENCLAW_FALLBACK_TIMEOUT_MS, and a closing socket is
   closed (ws gives up after 30 s).  Nothing is assumed of the gateway:
   it may never answer and the port may never come up. *)
Fairness ==
  /\ WF_vars(WaitFails \/ WaitEndsDestroyed \/ OpenSocketFails \/ \E s \in Sockets : OpenSocket(s))
  /\ WF_vars(ReconnectFires)
  /\ WF_vars(ChallengeTimeout)
  /\ \A s \in Sockets :
       /\ WF_vars(SocketOpens(s) \/ (sock[s] = "connecting" /\ SocketCloses(s)))
       /\ WF_vars(sock[s] = "closing" /\ SocketCloses(s))
  /\ WF_vars(\E t \in armed : TurnTimeout(t))
  /\ WF_vars(\E c \in calls : FallbackEnds(c))

FairSpec == Spec /\ Fairness

-----------------------------------------------------------------------------
CallTypes == [turn : Turns, why : {"offline", "rejected"}]

(* Every variable has its type. *)
TypeOK ==
  /\ setup \in Setups
  /\ sock \in [Sockets -> {"none", "connecting", "open", "closing"}]
  /\ ws \in Sockets \cup {None}
  /\ started \in BOOLEAN /\ connecting \in BOOLEAN /\ waits \in Nat
  /\ reconnectTimer \in BOOLEAN /\ challengeTimer \in BOOLEAN
  /\ connectSent \in BOOLEAN /\ connected \in BOOLEAN /\ destroyed \in BOOLEAN
  /\ connects \in [Sockets -> [Shapes -> Nat]]
  /\ enqueued \in 0..MaxTurns
  /\ queue \in Seq(Turns) /\ sent \in Seq(Turns)
  /\ inFlight \in BOOLEAN
  /\ pending \subseteq Turns /\ armed \subseteq Turns
  /\ calls \subseteq CallTypes
  /\ seen \in Seq({"run"} \X Turns)
  /\ acked \in [Turns -> Nat] /\ delivered \in [Turns -> Nat]

(* There is never more than one WebSocket to the gateway, and until destroy it is
   the one gatewayWs refers to: the close handler, which nulls gatewayWs whoever
   it belongs to, never cuts off another connection (_connectWithWait). *)
OneSocket ==
  /\ \A s, r \in Sockets : Live(s) /\ Live(r) => s = r
  /\ ~destroyed => \A s \in Sockets : Live(s) <=> ws = s

(* Once started and not destroyed, the client is connected, connecting or has a
   reconnect timer set: no failure leaves it offline for good. *)
NeverStrandedOffline ==
  started /\ ~destroyed => ws # None \/ waits > 0 \/ reconnectTimer

(* _connecting is set only while an attempt is really under way, so it never
   blocks _connect for good. *)
ConnectingIsUnderWay ==
  connecting => waits > 0 \/ \E s \in Sockets : sock[s] \in {"connecting", "closing"}

(* An open socket that is not connected yet waits for the challenge under a timer
   or for the answer to a connect, of which at most one is outstanding. *)
HandshakeHasNext ==
  \A s \in Sockets :
    /\ Outstanding(s) <= 1
    /\ sock[s] = "open" /\ ~connected => challengeTimer \/ Outstanding(s) = 1

(* After destroy nothing is opened, kept or armed again: no socket but a closing
   one, no reconnect and no connection through which a turn could be sent. *)
DestroyedIsQuiet ==
  destroyed =>
    /\ ws = None /\ ~reconnectTimer /\ ~connected
    /\ \A s \in Sockets : sock[s] \in {"none", "closing"}

InProgress == armed \cup {c.turn : c \in calls}

Abstract == INSTANCE TurnQueue
              WITH accepted <- enqueued, line <- queue, working <- InProgress

(* The client implements the turn queue: in order, one at a time, none skipped,
   through every reconnect, timeout, late response and fallback. *)
ImplementsTurnQueue == Abstract!Spec

(* One agent turn at a time: _inFlight is set exactly while one turn's promise is
   unresolved, over responses, timeouts, fallbacks, reconnects and destroy. *)
OneTurnAtATime ==
  /\ \A t, u \in InProgress : t = u
  /\ inFlight <=> InProgress # {}
  /\ pending \subseteq armed

(* No lost wake-up: when the gateway can be used and no turn is in flight, no turn
   is left waiting in the queue (_drainQueue is called wherever this can change). *)
NoTurnLeftWaiting == CanSendGateway /\ ~inFlight => queue = <<>>

(* Turns reach the gateway in the order they were enqueued, each at most once,
   ahead of everything still queued. *)
SentInOrder ==
  /\ \A i, j \in DOMAIN sent : i < j => sent[i] < sent[j]
  /\ \A i \in DOMAIN sent : \A j \in DOMAIN queue : sent[i] < queue[j]
  /\ \A i, j \in DOMAIN queue : i < j => queue[i] < queue[j]

(* A turn's acceptance is acknowledged to the phone at most once, and only for a
   turn that was sent, however often the gateway repeats it. *)
AckedOnce ==
  \A t \in Turns : acked[t] <= 1 /\ (acked[t] = 1 => t \in Range(sent) \ pending)

(* As long as the gateway keeps coming back, every queued turn is taken from the
   queue (or discarded by destroy). *)
QueueDrains ==
  []<>CanSendGateway => \A t \in Turns : t \in Range(queue) ~> t \notin Range(queue)

(* README, OPENCLAW_GATEWAY_CONNECT_CHALLENGE_TIMEOUT_MS: a gateway that sends no
   challenge does not keep the socket open. *)
ChallengeTimesOut ==
  \A s \in Sockets :
    sock[s] = "open" /\ ~connectSent ~> sock[s] # "open" \/ connectSent

(* What the deduper does keep to: a run's reply is shown at most once for each turn
   sent from its own on, since only _sendAgentTurn resets the deduper, whatever the
   gateway repeats and in whatever order.  Evictions, of which there are none before
   MaxEntries turns are sent, are left aside. *)
ShownOncePerSend ==
  Len(sent) <= MaxEntries =>
    /\ \A i \in DOMAIN sent : delivered[sent[i]] <= Len(sent) - i + 1
    /\ \A t \in Turns \ Range(sent) : delivered[t] = 0

(* BOT-READY.md: replies are de-duplicated by runId, a late res included. *)
OneReplyPerRun == \A t \in Turns : delivered[t] <= 1
=============================================================================
