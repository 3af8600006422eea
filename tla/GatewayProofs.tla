---------------------------- MODULE GatewayProofs ----------------------------
(***************************************************************************)
(* The safety of the gateway client and of the bridge that is built on it,  *)
(* for any number of sockets and turns, in every connect mode, with and     *)
(* without the fallback.                                                   *)
(*                                                                         *)
(* 1. The connection.  ConnInv adds to the checked invariants what makes    *)
(*    them inductive: one attempt at a time and no socket while it waits,   *)
(*    and which of timer and outstanding connect an open socket waits on.   *)
(* 2. The turns.  TurnInv is the inductive invariant; DrainKeeps says that  *)
(*    _drainQueue preserves it wherever it is called from, so that each     *)
(*    handler only has to show that it hands _drainQueue a good turn state. *)
(*    Then the deduper: WindowInv says how often each run can still be      *)
(*    shown, and that a key is only evicted when more turns were sent than  *)
(*    the deduper has room for.                                            *)
(* 3. The bridge.  Its connection steps are the client's (ActsAsClient)     *)
(*    until stop, and after stop StoppedInv; its turn steps are the         *)
(*    client's or late answers, which the abstract queue takes as well.     *)
(* 4. After the end: what no step does any more once destroy or stop ran.   *)
(***************************************************************************)
EXTENDS GatewayBridge, FiniteSetTheorems, TLAPS

(* 1. The connection *)

Flags ==
  /\ started \in BOOLEAN /\ connecting \in BOOLEAN
  /\ reconnectTimer \in BOOLEAN /\ challengeTimer \in BOOLEAN
  /\ connectSent \in BOOLEAN /\ connected \in BOOLEAN /\ destroyed \in BOOLEAN

ConnTypeOK ==
  /\ Flags
  /\ waits \in Nat
  /\ sock \in [Sockets -> {"none", "connecting", "open", "closing"}]
  /\ ws \in Sockets \cup {None}
  /\ connects \in [Sockets -> [Shapes -> Nat]]

(* At most one attempt waits for the port, and only while there is no socket. *)
OneAttempt ==
  /\ waits <= 1
  /\ waits = 1 => connecting /\ \A s \in Sockets : ~Live(s)

(* Where the connection is between the open event and the answer to connect. *)
HandshakeState ==
  /\ connected \/ challengeTimer => ws # None /\ Receiving(ws)
  /\ destroyed => \A s \in Sockets : Outstanding(s) = 0
  /\ \A s \in Sockets :
       /\ Outstanding(s) <= 1
       /\ Outstanding(s) > 0 => Receiving(s) /\ connectSent
       /\ sock[s] = "open" /\ connected => connectSent
       /\ sock[s] = "open" /\ ~connected =>
            IF connectSent THEN Outstanding(s) = 1 ELSE challengeTimer

ConnInv ==
  /\ ConnTypeOK
  /\ OneSocket
  /\ NeverStrandedOffline
  /\ ConnectingIsUnderWay
  /\ DestroyedIsQuiet
  /\ OneAttempt
  /\ HandshakeState

-----------------------------------------------------------------------------
(* The number of connect requests outstanding on a socket is a number. *)
LEMMA OutstandingNat ==
  ASSUME ConnTypeOK PROVE \A s \in Sockets : Outstanding(s) \in Nat
  BY DEF ConnTypeOK, Outstanding, Shapes

LEMMA ConnInit == Init => ConnInv
  <1> SUFFICES ASSUME Init PROVE ConnInv
    OBVIOUS
  <1> USE DEF Init
  <1>1. ConnTypeOK
    <2>1. connects \in [Sockets -> [Shapes -> Nat]]
      BY DEF NoConnects
    <2>2. sock \in [Sockets -> {"none", "connecting", "open", "closing"}]
      OBVIOUS
    <2>3. waits \in Nat /\ ws \in Sockets \cup {None}
      OBVIOUS
    <2>4. Flags
      BY DEF Flags
    <2> QED BY <2>1, <2>2, <2>3, <2>4 DEF ConnTypeOK
  <1>2. OneSocket /\ NeverStrandedOffline /\ ConnectingIsUnderWay /\ DestroyedIsQuiet
    BY NoneIsNoSocket
    DEF OneSocket, NeverStrandedOffline, ConnectingIsUnderWay, DestroyedIsQuiet, Live
  <1>3. OneAttempt
    BY DEF OneAttempt
  <1>4. HandshakeState
    BY DEF HandshakeState, Outstanding, NoConnects, Shapes
  <1> QED BY <1>1, <1>2, <1>3, <1>4 DEF ConnInv

(* Starting a connection attempt: from the timer or from ensureConnected. *)
LEMMA ConnectKeeps ==
  ASSUME ConnInv, Connect,
         UNCHANGED <<sock, ws, challengeTimer, connectSent, connects, connected, destroyed>>,
         started' \in BOOLEAN, reconnectTimer' \in BOOLEAN,
         reconnectTimer' => reconnectTimer
  PROVE  ConnInv'
  <1>1. CASE destroyed \/ connecting \/ ws # None
    <2>1. UNCHANGED <<connecting, waits>>
      BY <1>1 DEF Connect
    <2>2. ~destroyed => ws # None \/ waits > 0
      BY <1>1, NoneIsNoSocket DEF ConnInv, OneSocket, ConnectingIsUnderWay, Live
    <2>3. ConnTypeOK'
      <3>1. Flags'
        BY <2>1 DEF ConnInv, ConnTypeOK, Flags
      <3> QED BY <2>1, <3>1 DEF ConnInv, ConnTypeOK
    <2>4. OneSocket' /\ ConnectingIsUnderWay' /\ OneAttempt'
      BY <2>1 DEF ConnInv, OneSocket, ConnectingIsUnderWay, OneAttempt, Live
    <2>5. NeverStrandedOffline'
      BY <2>1, <2>2 DEF NeverStrandedOffline
    <2>6. DestroyedIsQuiet'
      BY DEF ConnInv, DestroyedIsQuiet
    <2>7. HandshakeState'
      BY <2>1 DEF ConnInv, HandshakeState, Receiving, Outstanding
    <2> QED BY <2>3, <2>4, <2>5, <2>6, <2>7 DEF ConnInv
  <1>2. CASE ~(destroyed \/ connecting \/ ws # None)
    <2>1. connecting' = TRUE /\ waits' = waits + 1
      BY <1>2 DEF Connect
    <2>2. waits = 0 /\ \A s \in Sockets : ~Live(s)
      BY <1>2, NoneIsNoSocket DEF ConnInv, OneAttempt, ConnTypeOK, OneSocket
    <2>3. waits' = 1
      BY <2>1, <2>2
    <2>4. ConnTypeOK'
      <3>1. Flags'
        BY <2>1, <2>3 DEF ConnInv, ConnTypeOK, Flags
      <3> QED BY <2>1, <2>3, <3>1 DEF ConnInv, ConnTypeOK
    <2>5. OneSocket' /\ ConnectingIsUnderWay' /\ OneAttempt' /\ NeverStrandedOffline'
      BY <2>1, <2>2, <2>3
      DEF ConnInv, OneSocket, ConnectingIsUnderWay, OneAttempt, NeverStrandedOffline, Live
    <2>6. DestroyedIsQuiet'
      BY DEF ConnInv, DestroyedIsQuiet
    <2>7. HandshakeState'
      BY DEF ConnInv, HandshakeState, Receiving, Outstanding
    <2> QED BY <2>4, <2>5, <2>6, <2>7 DEF ConnInv
  <1> QED BY <1>1, <1>2

(* The end of a wait: no connection was opened. *)
LEMMA WaitOverKeeps ==
  ASSUME ConnInv, WaitFails \/ WaitEndsDestroyed \/ OpenSocketFails
  PROVE  ConnInv'
  <1>1. /\ waits > 0 /\ waits' = waits - 1 /\ connecting' = FALSE
        /\ UNCHANGED <<sock, ws, started, challengeTimer, connectSent, connects,
                       connected, destroyed>>
    BY DEF WaitFails, WaitEndsDestroyed, OpenSocketFails
  <1>2. reconnectTimer' = IF destroyed THEN reconnectTimer ELSE TRUE
    BY DEF WaitFails, WaitEndsDestroyed, OpenSocketFails, ScheduleReconnect
  <1>3. waits = 1 /\ waits' = 0
    BY <1>1 DEF ConnInv, ConnTypeOK, OneAttempt
  <1>4. ConnTypeOK'
    <2>1. reconnectTimer' = reconnectTimer \/ reconnectTimer' = TRUE
      BY <1>2
    <2>2. Flags'
      BY <1>1, <2>1 DEF ConnInv, ConnTypeOK, Flags
    <2> QED BY <1>1, <1>3, <2>2 DEF ConnInv, ConnTypeOK
  <1>5. OneSocket' /\ ConnectingIsUnderWay' /\ OneAttempt'
    BY <1>1, <1>3 DEF ConnInv, OneSocket, ConnectingIsUnderWay, OneAttempt, Live
  <1>6. NeverStrandedOffline' /\ DestroyedIsQuiet'
    BY <1>1, <1>2 DEF ConnInv, NeverStrandedOffline, DestroyedIsQuiet
  <1>7. HandshakeState'
    BY <1>1 DEF ConnInv, HandshakeState, Receiving, Outstanding
  <1> QED BY <1>4, <1>5, <1>6, <1>7 DEF ConnInv

(* Opening, losing and closing sockets. *)
LEMMA OpenSocketKeeps ==
  ASSUME ConnInv, NEW s \in Sockets, OpenSocket(s)
  PROVE  ConnInv'
  <1>1. /\ waits > 0 /\ ~destroyed /\ waits' = waits - 1
        /\ sock' = [sock EXCEPT ![s] = "connecting"] /\ ws' = s
        /\ UNCHANGED <<started, connecting, reconnectTimer, challengeTimer, connectSent,
                       connects, connected, destroyed>>
    BY DEF OpenSocket
  <1>2. /\ waits = 1 /\ waits' = 0
        /\ \A r \in Sockets : ~Live(r)
        /\ sock \in [Sockets -> {"none", "connecting", "open", "closing"}]
    BY <1>1 DEF ConnInv, ConnTypeOK, OneAttempt
  <1>3. \A r \in Sockets : sock'[r] = IF r = s THEN "connecting" ELSE "none"
    BY <1>1, <1>2 DEF Live
  <1>4. ConnTypeOK'
    <2>1. Flags'
      BY <1>1, <1>2 DEF ConnInv, ConnTypeOK, Flags
    <2> QED BY <1>1, <1>2, <2>1 DEF ConnInv, ConnTypeOK
  <1>5. OneSocket' /\ OneAttempt' /\ ConnectingIsUnderWay'
    BY <1>1, <1>2, <1>3 DEF ConnInv, OneSocket, OneAttempt, ConnectingIsUnderWay, Live
  <1>6. NeverStrandedOffline' /\ DestroyedIsQuiet'
    BY <1>1, NoneIsNoSocket DEF ConnInv, NeverStrandedOffline, DestroyedIsQuiet
  <1>7. ~connected /\ ~challengeTimer /\ \A r \in Sockets : Outstanding(r) = 0
    BY <1>2, NoneIsNoSocket, OutstandingNat
    DEF ConnInv, ConnTypeOK, HandshakeState, Live, Receiving
  <1>8. HandshakeState'
    BY <1>1, <1>3, <1>7 DEF HandshakeState, Receiving, Outstanding
  <1> QED BY <1>4, <1>5, <1>6, <1>8 DEF ConnInv

LEMMA SocketOpensKeeps ==
  ASSUME ConnInv, NEW s \in Sockets, SocketOpens(s)
  PROVE  ConnInv'
  <1>1. /\ sock[s] = "connecting" /\ sock' = [sock EXCEPT ![s] = "open"]
        /\ connecting' = FALSE
        /\ UNCHANGED <<ws, started, waits, reconnectTimer, connected, destroyed>>
        /\ \/ challengeTimer' = TRUE /\ connectSent' = FALSE /\ connects' = connects
           \/ /\ challengeTimer' = FALSE /\ connectSent' = TRUE
              /\ connects' = [connects EXCEPT ![s]["bare"] = @ + 1]
    BY DEF SocketOpens
  <1>2. ~destroyed /\ ws = s /\ waits = 0 /\ (\A r \in Sockets : Live(r) <=> r = s)
    BY <1>1 DEF ConnInv, DestroyedIsQuiet, OneSocket, OneAttempt, ConnTypeOK, Live
  <1>3. /\ \A r \in Sockets : sock'[r] = IF r = s THEN "open" ELSE "none"
        /\ \A r \in Sockets : Live(r)' <=> r = s
    BY <1>1, <1>2 DEF Live, ConnInv, ConnTypeOK
  <1>4. connects \in [Sockets -> [Shapes -> Nat]]
    BY DEF ConnInv, ConnTypeOK
  <1>5. ~connected /\ \A r \in Sockets : Outstanding(r) = 0
    BY <1>1, <1>2, OutstandingNat DEF ConnInv, HandshakeState, Receiving, Live
  <1>6. connects' \in [Sockets -> [Shapes -> Nat]]
    BY <1>1, <1>4 DEF Shapes
  <1>7. \A r \in Sockets : Outstanding(r)' = IF connectSent' /\ r = s THEN 1 ELSE 0
    BY <1>1, <1>4, <1>5 DEF Outstanding, Shapes
  <1>8. ConnTypeOK'
    <2>1. Flags'
      BY <1>1, <1>6 DEF ConnInv, ConnTypeOK, Flags
    <2> QED BY <1>1, <1>6, <2>1 DEF ConnInv, ConnTypeOK
  <1>9. OneSocket' /\ OneAttempt' /\ ConnectingIsUnderWay'
    BY <1>1, <1>2, <1>3 DEF OneSocket, OneAttempt, ConnectingIsUnderWay
  <1>10. NeverStrandedOffline' /\ DestroyedIsQuiet'
    BY <1>1, <1>2, NoneIsNoSocket DEF NeverStrandedOffline, DestroyedIsQuiet
  <1>11. HandshakeState'
    <2>1. ws' # None /\ Receiving(ws)' /\ ~connected' /\ ~destroyed'
      BY <1>1, <1>2, <1>3, <1>5, NoneIsNoSocket DEF Receiving
    <2>2. ~connectSent' => challengeTimer'
      BY <1>1
    <2>3. \A r \in Sockets :
            /\ Outstanding(r)' <= 1
            /\ Outstanding(r)' > 0 => Receiving(r)' /\ connectSent'
            /\ sock'[r] = "open" /\ connectSent' => Outstanding(r)' = 1
      BY <1>3, <1>7 DEF Receiving
    <2> QED BY <2>1, <2>2, <2>3 DEF HandshakeState
  <1> QED BY <1>8, <1>9, <1>10, <1>11 DEF ConnInv

LEMMA SocketClosesKeeps ==
  ASSUME ConnInv, NEW s \in Sockets, SocketCloses(s)
  PROVE  ConnInv'
  <1>1. /\ Live(s) /\ sock' = [sock EXCEPT ![s] = "none"]
        /\ connects' = [connects EXCEPT ![s] = NoConnects]
        /\ connecting' = FALSE /\ connected' = FALSE /\ challengeTimer' = FALSE
        /\ connectSent' = FALSE /\ ws' = None
        /\ reconnectTimer' = IF destroyed THEN reconnectTimer ELSE TRUE
        /\ UNCHANGED <<started, waits, destroyed>>
    BY DEF SocketCloses, ScheduleReconnect
  <1>2. waits = 0 /\ \A r \in Sockets : Live(r) <=> r = s
    BY <1>1 DEF ConnInv, OneSocket, OneAttempt, ConnTypeOK
  <1>3. \A r \in Sockets : sock'[r] = "none"
    BY <1>1, <1>2 DEF Live, ConnInv, ConnTypeOK
  <1>4. connects \in [Sockets -> [Shapes -> Nat]] /\ connects' \in [Sockets -> [Shapes -> Nat]]
    BY <1>1 DEF ConnInv, ConnTypeOK, NoConnects
  <1>5. \A r \in Sockets : Outstanding(r)' = 0
    <2>1. \A r \in Sockets : r # s => Outstanding(r) = 0
      BY <1>2, OutstandingNat DEF ConnInv, HandshakeState, Receiving, Live
    <2> QED BY <1>1, <1>4, <2>1 DEF Outstanding, NoConnects, Shapes
  <1>6. ConnTypeOK'
    <2>1. Flags'
      BY <1>1, <1>4 DEF ConnInv, ConnTypeOK, Flags
    <2> QED BY <1>1, <1>4, <2>1 DEF ConnInv, ConnTypeOK
  <1>7. OneSocket' /\ OneAttempt' /\ ConnectingIsUnderWay'
    BY <1>1, <1>2, <1>3, NoneIsNoSocket
    DEF OneSocket, OneAttempt, ConnectingIsUnderWay, Live
  <1>8. NeverStrandedOffline' /\ DestroyedIsQuiet'
    BY <1>1, <1>3 DEF ConnInv, NeverStrandedOffline, DestroyedIsQuiet
  <1>9. HandshakeState'
    BY <1>1, <1>3, <1>5 DEF HandshakeState
  <1> QED BY <1>6, <1>7, <1>8, <1>9 DEF ConnInv

-----------------------------------------------------------------------------
(* The handshake *)

(* Closing gatewayWs, from a timer or a frame, when the rest of the handshake
   state only shrinks. *)
LEMMA CloseKeeps ==
  ASSUME ConnInv, CloseSocket,
         UNCHANGED <<ws, started, connecting, waits, connectSent, connected, destroyed>>,
         reconnectTimer' = reconnectTimer \/ ScheduleReconnect,
         challengeTimer' \in BOOLEAN, challengeTimer' => challengeTimer,
         ws # None => sock[ws] \in {"open", "closing"},
         connects' \in [Sockets -> [Shapes -> Nat]],
         \A r \in Sockets : Outstanding(r)' <= Outstanding(r)
  PROVE  ConnInv'
  <1>1. sock \in [Sockets -> {"none", "connecting", "open", "closing"}] /\ ws \in Sockets \cup {None}
    BY DEF ConnInv, ConnTypeOK
  <1>2. \A r \in Sockets : sock'[r] = IF r = ws THEN "closing" ELSE sock[r]
    BY <1>1, NoneIsNoSocket DEF CloseSocket
  <1>3. /\ reconnectTimer' \in BOOLEAN /\ (reconnectTimer => reconnectTimer')
        /\ destroyed => reconnectTimer' = reconnectTimer
    <2>1. reconnectTimer \in BOOLEAN
      BY DEF ConnInv, ConnTypeOK, Flags
    <2>2. reconnectTimer' = reconnectTimer \/ (~destroyed /\ reconnectTimer' = TRUE)
      BY DEF ScheduleReconnect
    <2> QED BY <2>1, <2>2
  <1>4. ConnTypeOK'
    <2>1. Flags'
      BY <1>3 DEF ConnInv, ConnTypeOK, Flags
    <2>2. sock' \in [Sockets -> {"none", "connecting", "open", "closing"}]
      BY <1>1 DEF CloseSocket
    <2>3. waits' \in Nat /\ ws' \in Sockets \cup {None}
      BY DEF ConnInv, ConnTypeOK
    <2> QED BY <2>1, <2>2, <2>3 DEF ConnTypeOK
  <1>5. \A r \in Sockets : Live(r)' <=> Live(r)
    BY <1>1, <1>2, NoneIsNoSocket DEF Live
  <1>6. \A r \in Sockets : Receiving(r)' <=> Receiving(r)
    BY <1>1, <1>2, NoneIsNoSocket DEF Receiving
  <1>7. OneSocket' /\ OneAttempt' /\ ConnectingIsUnderWay'
    BY <1>2, <1>5, NoneIsNoSocket
    DEF ConnInv, OneSocket, OneAttempt, ConnectingIsUnderWay
  <1>8. NeverStrandedOffline' /\ DestroyedIsQuiet'
    BY <1>2, <1>3 DEF ConnInv, NeverStrandedOffline, DestroyedIsQuiet
  <1>9. /\ \A r \in Sockets : sock'[r] = "open" => destroyed
        /\ \A r \in Sockets : Outstanding(r) \in Nat /\ Outstanding(r)' \in Nat
    BY <1>1, <1>2, <1>4, OutstandingNat DEF ConnInv, OneSocket, Live, ConnTypeOK, Outstanding, Shapes
  <1>10. \A r \in Sockets : sock'[r] # "open"
    BY <1>2, <1>9 DEF ConnInv, DestroyedIsQuiet
  <1>11. HandshakeState'
    <2>1. connected \/ challengeTimer => ws # None /\ Receiving(ws)'
      BY <1>1, <1>6, NoneIsNoSocket DEF ConnInv, HandshakeState
    <2>2. connected' \/ challengeTimer' => ws' # None /\ Receiving(ws)'
      BY <2>1
    <2>3. destroyed' => \A r \in Sockets : Outstanding(r)' = 0
      BY <1>9 DEF ConnInv, HandshakeState
    <2>4. \A r \in Sockets : Outstanding(r)' <= 1
      BY <1>9 DEF ConnInv, HandshakeState
    <2>5. \A r \in Sockets : Outstanding(r)' > 0 => Receiving(r)' /\ connectSent'
      BY <1>6, <1>9 DEF ConnInv, HandshakeState
    <2> QED BY <1>10, <2>2, <2>3, <2>4, <2>5 DEF HandshakeState, Receiving
  <1> QED BY <1>4, <1>7, <1>8, <1>11 DEF ConnInv

(* Where the answered connect came from: gatewayWs, not destroyed, and it was the
   only one outstanding. *)
LEMMA AnsweredConnect ==
  ASSUME ConnInv, NEW s \in Sockets, NEW shape \in Shapes,
         Receiving(s), connects[s][shape] > 0
  PROVE  /\ ~destroyed /\ ws = s /\ ws # None /\ connectSent
         /\ connects \in [Sockets -> [Shapes -> Nat]]
         /\ TakeConnect(s, shape) \in [Sockets -> [Shapes -> Nat]]
         /\ \A r \in Sockets, h \in Shapes :
              TakeConnect(s, shape)[r][h] =
                IF r = s /\ h = shape THEN connects[r][h] - 1 ELSE connects[r][h]
         /\ \A r \in Sockets : r # s => Outstanding(r) = 0
         /\ Outstanding(s) = 1 /\ connects[s][shape] = 1
  <1>1. connects \in [Sockets -> [Shapes -> Nat]]
    BY DEF ConnInv, ConnTypeOK
  <1>2. Outstanding(s) = 1 /\ connects[s][shape] = 1
    <2>1. connects[s]["bare"] \in Nat /\ connects[s]["device"] \in Nat
      BY <1>1 DEF Shapes
    <2>2. Outstanding(s) <= 1
      BY DEF ConnInv, HandshakeState
    <2> QED BY <2>1, <2>2 DEF Outstanding, Shapes
  <1>3. connectSent /\ ~destroyed
    BY <1>2 DEF ConnInv, HandshakeState
  <1>4. ws = s /\ ws # None
    BY <1>3, NoneIsNoSocket DEF ConnInv, OneSocket, Receiving, Live
  <1>5. \A r \in Sockets : r # s => Outstanding(r) = 0
    BY <1>3, <1>4, OutstandingNat DEF ConnInv, ConnTypeOK, OneSocket, HandshakeState, Receiving, Live
  <1>6. \A r \in Sockets, h \in Shapes :
          TakeConnect(s, shape)[r][h] =
            IF r = s /\ h = shape THEN connects[r][h] - 1 ELSE connects[r][h]
    BY <1>1 DEF TakeConnect
  <1>7. connects[s][shape] - 1 \in Nat
    BY <1>2
  <1>8. TakeConnect(s, shape) \in [Sockets -> [Shapes -> Nat]]
    BY <1>1, <1>7 DEF TakeConnect
  <1> QED BY <1>1, <1>2, <1>3, <1>4, <1>5, <1>6, <1>8

LEMMA ConnectRefusedKeeps ==
  ASSUME ConnInv, NEW s \in Sockets, NEW shape \in Shapes, ConnectRefused(s, shape)
  PROVE  ConnInv'
  <1>1. /\ Receiving(s) /\ connects[s][shape] > 0
        /\ connects' = TakeConnect(s, shape) /\ CloseSocket
        /\ UNCHANGED <<ws, started, connecting, waits, reconnectTimer, challengeTimer,
                       connectSent, connected, destroyed>>
    BY DEF ConnectRefused
  <1>2. /\ ws = s
        /\ connects \in [Sockets -> [Shapes -> Nat]]
        /\ connects' \in [Sockets -> [Shapes -> Nat]]
        /\ \A r \in Sockets, h \in Shapes :
              connects'[r][h] = IF r = s /\ h = shape THEN connects[r][h] - 1 ELSE connects[r][h]
    BY <1>1, AnsweredConnect
  <1>3. \A r \in Sockets : Outstanding(r)' <= Outstanding(r)
    BY <1>2 DEF Outstanding, Shapes
  <1>4. challengeTimer' \in BOOLEAN
    BY <1>1 DEF ConnInv, ConnTypeOK, Flags
  <1>5. sock[ws] \in {"open", "closing"}
    BY <1>1, <1>2 DEF Receiving
  <1> QED BY <1>1, <1>2, <1>3, <1>4, <1>5, CloseKeeps

(* After the answer nothing is outstanding. *)
LEMMA ConnectAcceptedKeeps ==
  ASSUME ConnInv, NEW s \in Sockets, NEW shape \in Shapes, ConnectAccepted(s, shape)
  PROVE  ConnInv'
  <1>1. /\ Receiving(s) /\ connects[s][shape] > 0
        /\ connects' = TakeConnect(s, shape) /\ connected' = TRUE
        /\ UNCHANGED <<sock, ws, started, connecting, waits, reconnectTimer,
                       challengeTimer, connectSent, destroyed>>
    BY DEF ConnectAccepted
  <1>2. /\ ~destroyed /\ ws = s /\ ws # None /\ connectSent
        /\ connects \in [Sockets -> [Shapes -> Nat]]
        /\ connects' \in [Sockets -> [Shapes -> Nat]]
        /\ \A r \in Sockets, h \in Shapes :
              connects'[r][h] = IF r = s /\ h = shape THEN connects[r][h] - 1 ELSE connects[r][h]
        /\ \A r \in Sockets : r # s => Outstanding(r) = 0
        /\ Outstanding(s) = 1
    BY <1>1, AnsweredConnect
  <1>3. \A r \in Sockets : Outstanding(r)' = 0
    BY <1>2 DEF Outstanding, Shapes
  <1>4. ConnTypeOK'
    <2>1. Flags'
      BY <1>1 DEF ConnInv, ConnTypeOK, Flags
    <2> QED BY <1>1, <1>2, <2>1 DEF ConnInv, ConnTypeOK
  <1>5. OneSocket' /\ OneAttempt' /\ ConnectingIsUnderWay'
    BY <1>1 DEF ConnInv, OneSocket, OneAttempt, ConnectingIsUnderWay, Live
  <1>6. NeverStrandedOffline' /\ DestroyedIsQuiet'
    BY <1>1, <1>2 DEF ConnInv, NeverStrandedOffline, DestroyedIsQuiet
  <1>7. HandshakeState'
    BY <1>1, <1>2, <1>3 DEF HandshakeState, Receiving
  <1> QED BY <1>4, <1>5, <1>6, <1>7 DEF ConnInv

LEMMA ConnectChallengedKeeps ==
  ASSUME ConnInv, NEW s \in Sockets, NEW shape \in Shapes, ConnectChallenged(s, shape)
  PROVE  ConnInv'
  <1>1. /\ Receiving(s) /\ connects[s][shape] > 0
        /\ connectSent' = IsOpen
        /\ connects' = IF IsOpen
                       THEN [TakeConnect(s, shape) EXCEPT ![ws][WithDevice] = @ + 1]
                       ELSE TakeConnect(s, shape)
        /\ UNCHANGED <<sock, ws, started, connecting, waits, reconnectTimer,
                       challengeTimer, connected, destroyed>>
    BY DEF ConnectChallenged
  <1>2. /\ ~destroyed /\ ws = s /\ ws # None
        /\ connects \in [Sockets -> [Shapes -> Nat]]
        /\ TakeConnect(s, shape) \in [Sockets -> [Shapes -> Nat]]
        /\ \A r \in Sockets, h \in Shapes :
              TakeConnect(s, shape)[r][h] =
                IF r = s /\ h = shape THEN connects[r][h] - 1 ELSE connects[r][h]
        /\ \A r \in Sockets : r # s => Outstanding(r) = 0
        /\ Outstanding(s) = 1
    BY <1>1, AnsweredConnect
  <1>3. WithDevice \in Shapes
    BY DEF WithDevice, Shapes
  <1>4. /\ connects' \in [Sockets -> [Shapes -> Nat]]
        /\ \A r \in Sockets : Outstanding(r)' = IF IsOpen /\ r = s THEN 1 ELSE 0
    <2> DEFINE taken == TakeConnect(s, shape)
    <2>1. \A r \in Sockets : taken[r]["bare"] = 0 /\ taken[r]["device"] = 0
      BY <1>1, <1>2 DEF Outstanding, Shapes
    <2> HIDE DEF taken
    <2>2. CASE IsOpen
      <3>1. connects' = [taken EXCEPT ![s][WithDevice] = @ + 1]
        BY <1>1, <1>2, <2>2 DEF taken
      <3>2. taken \in [Sockets -> [Shapes -> Nat]]
        BY <1>2 DEF taken
      <3> QED BY <1>3, <2>1, <2>2, <3>1, <3>2 DEF Outstanding, Shapes
    <2>3. CASE ~IsOpen
      <3>1. connects' = taken
        BY <1>1, <2>3 DEF taken
      <3>2. taken \in [Sockets -> [Shapes -> Nat]]
        BY <1>2 DEF taken
      <3> QED BY <2>1, <2>3, <3>1, <3>2 DEF Outstanding
    <2> QED BY <2>2, <2>3
  <1>5. ConnTypeOK'
    <2>1. connectSent' \in BOOLEAN
      BY <1>1 DEF IsOpen
    <2>2. Flags'
      BY <1>1, <2>1 DEF ConnInv, ConnTypeOK, Flags
    <2> QED BY <1>1, <1>4, <2>2 DEF ConnInv, ConnTypeOK
  <1>6. OneSocket' /\ OneAttempt' /\ ConnectingIsUnderWay'
    BY <1>1 DEF ConnInv, OneSocket, OneAttempt, ConnectingIsUnderWay, Live
  <1>7. NeverStrandedOffline' /\ DestroyedIsQuiet'
    BY <1>1, <1>2 DEF ConnInv, NeverStrandedOffline, DestroyedIsQuiet
  <1>8. \A r \in Sockets : sock[r] = "open" => r = s /\ IsOpen
    BY <1>2 DEF ConnInv, OneSocket, Live, IsOpen
  <1>9. HandshakeState'
    <2>1. \A r \in Sockets : sock'[r] = "open" => connectSent' /\ Outstanding(r)' = 1
      BY <1>1, <1>4, <1>8
    <2>2. \A r \in Sockets : Outstanding(r)' > 0 => Receiving(r)' /\ connectSent'
      BY <1>1, <1>4 DEF Receiving
    <2>3. connected' \/ challengeTimer' => ws' # None /\ Receiving(ws)'
      BY <1>1, <1>2 DEF Receiving
    <2>4. \A r \in Sockets : Outstanding(r)' <= 1
      BY <1>4
    <2> QED BY <1>1, <1>2, <2>1, <2>2, <2>3, <2>4 DEF HandshakeState
  <1> QED BY <1>5, <1>6, <1>7, <1>9 DEF ConnInv

LEMMA ChallengeKeeps ==
  ASSUME ConnInv, NEW s \in Sockets, ChallengeArrives(s)
  PROVE  ConnInv'
  <1>1. /\ Receiving(s) /\ challengeTimer' = FALSE
        /\ UNCHANGED <<sock, ws, started, connecting, waits, reconnectTimer, connected,
                       destroyed>>
        /\ \/ (connectSent \/ ~IsOpen) /\ UNCHANGED <<connectSent, connects>>
           \/ /\ ~connectSent /\ IsOpen /\ connectSent' = TRUE
              /\ connects' = [connects EXCEPT ![ws][WithDevice] = @ + 1]
    BY DEF ChallengeArrives, SendConnect, WithDevice
  <1>2. connects \in [Sockets -> [Shapes -> Nat]] /\ WithDevice \in Shapes
    BY DEF ConnInv, ConnTypeOK, WithDevice, Shapes
  <1>3. \A r \in Sockets : sock[r] = "open" => IsOpen /\ ws = r
    BY NoneIsNoSocket DEF ConnInv, OneSocket, Live, IsOpen, DestroyedIsQuiet
  <1>4. OneSocket' /\ OneAttempt' /\ ConnectingIsUnderWay'
    BY <1>1 DEF ConnInv, OneSocket, OneAttempt, ConnectingIsUnderWay, Live
  <1>5. NeverStrandedOffline' /\ DestroyedIsQuiet'
    BY <1>1 DEF ConnInv, NeverStrandedOffline, DestroyedIsQuiet
  <1>6. CASE (connectSent \/ ~IsOpen) /\ UNCHANGED <<connectSent, connects>>
    <2>1. ConnTypeOK'
      <3>1. Flags'
        BY <1>1, <1>6 DEF ConnInv, ConnTypeOK, Flags
      <3> QED BY <1>1, <1>6, <3>1 DEF ConnInv, ConnTypeOK
    <2>2. HandshakeState'
      BY <1>1, <1>3, <1>6 DEF ConnInv, HandshakeState, Receiving, Outstanding
    <2> QED BY <1>4, <1>5, <2>1, <2>2 DEF ConnInv
  <1>7. CASE /\ ~connectSent /\ IsOpen /\ connectSent' = TRUE
             /\ connects' = [connects EXCEPT ![ws][WithDevice] = @ + 1]
    <2>1. ws \in Sockets /\ ws # None /\ sock[ws] = "open"
      BY <1>7 DEF IsOpen, ConnInv, ConnTypeOK
    <2>2. ~destroyed
      BY <2>1 DEF ConnInv, DestroyedIsQuiet
    <2>3. \A r \in Sockets : connects[r]["bare"] = 0 /\ connects[r]["device"] = 0
      BY <1>2, <1>7, OutstandingNat DEF ConnInv, HandshakeState, Outstanding, Shapes
    <2>4. connects' \in [Sockets -> [Shapes -> Nat]]
      BY <1>2, <1>7, <2>1
    <2>5. \A r \in Sockets : Outstanding(r)' = IF r = ws THEN 1 ELSE 0
      BY <1>2, <1>7, <2>1, <2>3 DEF Outstanding, Shapes
    <2>6. ConnTypeOK'
      <3>1. Flags'
        BY <1>1, <1>7 DEF ConnInv, ConnTypeOK, Flags
      <3> QED BY <1>1, <2>4, <3>1 DEF ConnInv, ConnTypeOK
    <2>7. HandshakeState'
      <3>1. \A r \in Sockets : sock'[r] = "open" => Outstanding(r)' = 1
        BY <1>1, <1>3, <2>5
      <3>2. \A r \in Sockets : Outstanding(r)' > 0 => Receiving(r)'
        BY <1>1, <2>1, <2>5 DEF Receiving
      <3>3. connected' \/ challengeTimer' => ws' # None /\ Receiving(ws)'
        BY <1>1, <2>1 DEF Receiving
      <3>4. \A r \in Sockets : Outstanding(r)' <= 1
        BY <2>5
      <3> QED BY <1>1, <1>7, <2>2, <3>1, <3>2, <3>3, <3>4 DEF HandshakeState
    <2> QED BY <1>4, <1>5, <2>6, <2>7 DEF ConnInv
  <1> QED BY <1>1, <1>6, <1>7

LEMMA ChallengeWithoutNonceKeeps ==
  ASSUME ConnInv, NEW s \in Sockets, ChallengeWithoutNonce(s)
  PROVE  ConnInv'
  <1>1. /\ Receiving(s) /\ CloseSocket
        /\ UNCHANGED <<ws, started, connecting, waits, reconnectTimer, challengeTimer,
                       connectSent, connects, connected, destroyed>>
    BY DEF ChallengeWithoutNonce
  <1>2. ws # None => sock[ws] \in {"open", "closing"}
    BY <1>1 DEF ConnInv, DestroyedIsQuiet, OneSocket, Receiving, Live
  <1>3. challengeTimer' \in BOOLEAN /\ connects' \in [Sockets -> [Shapes -> Nat]]
    BY <1>1 DEF ConnInv, ConnTypeOK, Flags
  <1>4. \A r \in Sockets : Outstanding(r)' <= Outstanding(r)
    BY <1>1, OutstandingNat DEF ConnInv, Outstanding
  <1> QED BY <1>1, <1>2, <1>3, <1>4, CloseKeeps

LEMMA ChallengeTimeoutKeeps ==
  ASSUME ConnInv, ChallengeTimeout
  PROVE  ConnInv'
  <1>1. /\ challengeTimer /\ challengeTimer' = FALSE
        /\ IF destroyed \/ connectSent THEN UNCHANGED sock ELSE CloseSocket
        /\ UNCHANGED <<ws, started, connecting, waits, reconnectTimer, connectSent,
                       connects, connected, destroyed>>
    BY DEF ChallengeTimeout
  <1>2. connects \in [Sockets -> [Shapes -> Nat]]
    BY DEF ConnInv, ConnTypeOK
  <1>3. CASE destroyed \/ connectSent
    <2>1. UNCHANGED sock
      BY <1>1, <1>3
    <2>2. ConnTypeOK'
      <3>1. Flags'
        BY <1>1 DEF ConnInv, ConnTypeOK, Flags
      <3> QED BY <1>1, <2>1, <3>1 DEF ConnInv, ConnTypeOK
    <2>3. OneSocket' /\ OneAttempt' /\ ConnectingIsUnderWay'
      BY <1>1, <2>1 DEF ConnInv, OneSocket, OneAttempt, ConnectingIsUnderWay, Live
    <2>4. NeverStrandedOffline' /\ DestroyedIsQuiet'
      BY <1>1, <2>1 DEF ConnInv, NeverStrandedOffline, DestroyedIsQuiet
    <2>5. destroyed => \A r \in Sockets : sock[r] # "open"
      BY DEF ConnInv, DestroyedIsQuiet
    <2>6. HandshakeState'
      BY <1>1, <1>3, <2>1, <2>5 DEF ConnInv, HandshakeState, Receiving, Outstanding
    <2> QED BY <2>2, <2>3, <2>4, <2>6 DEF ConnInv
  <1>4. CASE ~(destroyed \/ connectSent)
    <2>1. CloseSocket
      BY <1>1, <1>4
    <2>2. sock[ws] \in {"open", "closing"}
      BY <1>1 DEF ConnInv, HandshakeState, Receiving
    <2>3. \A r \in Sockets : Outstanding(r)' <= Outstanding(r)
      BY <1>1, OutstandingNat DEF ConnInv, Outstanding
    <2>4. connects' \in [Sockets -> [Shapes -> Nat]]
      BY <1>1, <1>2
    <2> QED BY <1>1, <2>1, <2>2, <2>3, <2>4, CloseKeeps
  <1> QED BY <1>3, <1>4

LEMMA DestroyKeeps ==
  ASSUME ConnInv, Destroy
  PROVE  ConnInv'
  <1>1. /\ destroyed' = TRUE /\ challengeTimer' = FALSE /\ reconnectTimer' = FALSE
        /\ ws' = None /\ connected' = FALSE /\ ~destroyed
        /\ sock' = IF ws # None THEN [sock EXCEPT ![ws] = "closing"] ELSE sock
        /\ connects' = [s \in Sockets |-> NoConnects]
        /\ UNCHANGED <<started, connecting, waits, connectSent>>
    BY DEF Destroy, CloseSocket
  <1>2. /\ sock \in [Sockets -> {"none", "connecting", "open", "closing"}]
        /\ ws \in Sockets \cup {None}
        /\ \A s \in Sockets : Live(s) <=> ws = s
    BY <1>1 DEF ConnInv, ConnTypeOK, OneSocket
  <1>3. \A s \in Sockets : sock'[s] = IF s = ws THEN "closing" ELSE "none"
    BY <1>1, <1>2, NoneIsNoSocket DEF Live
  <1>4. connects' \in [Sockets -> [Shapes -> Nat]] /\ \A s \in Sockets : Outstanding(s)' = 0
    BY <1>1 DEF NoConnects, Outstanding, Shapes
  <1>5. ConnTypeOK'
    <2>1. Flags'
      BY <1>1 DEF ConnInv, ConnTypeOK, Flags
    <2>2. sock' \in [Sockets -> {"none", "connecting", "open", "closing"}]
      BY <1>1, <1>2
    <2>3. waits' \in Nat /\ ws' \in Sockets \cup {None}
      BY <1>1 DEF ConnInv, ConnTypeOK
    <2> QED BY <1>4, <2>1, <2>2, <2>3 DEF ConnTypeOK
  <1>6. OneSocket'
    BY <1>1, <1>3 DEF OneSocket, Live
  <1>7. OneAttempt' /\ ConnectingIsUnderWay'
    <2>1. \A s \in Sockets : Live(s)' <=> Live(s)
      BY <1>2, <1>3 DEF Live
    <2>2. OneAttempt'
      BY <1>1, <2>1 DEF ConnInv, OneAttempt
    <2>3. \A s \in Sockets : sock[s] \in {"connecting", "closing"} => sock'[s] = "closing"
      BY <1>2, <1>3 DEF Live
    <2> QED BY <1>1, <2>2, <2>3 DEF ConnInv, ConnectingIsUnderWay
  <1>8. NeverStrandedOffline' /\ DestroyedIsQuiet'
    BY <1>1, <1>3 DEF NeverStrandedOffline, DestroyedIsQuiet
  <1>9. HandshakeState'
    BY <1>1, <1>3, <1>4 DEF HandshakeState
  <1> QED BY <1>5, <1>6, <1>7, <1>8, <1>9 DEF ConnInv

(* Every step keeps the connection invariant; the turns do not touch it. *)
LEMMA ConnNext == ConnInv /\ [Next]_vars => ConnInv'
  <1> SUFFICES ASSUME ConnInv, [Next]_vars PROVE ConnInv'
    OBVIOUS
  <1>1. CASE EnsureConnected
    <2>1. started' \in BOOLEAN /\ reconnectTimer' \in BOOLEAN
      BY <1>1 DEF EnsureConnected, ConnInv, ConnTypeOK, Flags
    <2> QED BY <1>1, <2>1, ConnectKeeps DEF EnsureConnected
  <1>2. CASE ReconnectFires
    <2>1. started' \in BOOLEAN /\ reconnectTimer' \in BOOLEAN /\ (reconnectTimer' => reconnectTimer)
      BY <1>2 DEF ReconnectFires, ConnInv, ConnTypeOK, Flags
    <2> QED BY <1>2, <2>1, ConnectKeeps DEF ReconnectFires
  <1>3. CASE WaitFails \/ WaitEndsDestroyed \/ OpenSocketFails
    BY <1>3, WaitOverKeeps
  <1>4. CASE ChallengeTimeout
    BY <1>4, ChallengeTimeoutKeeps
  <1>5. CASE Destroy
    BY <1>5, DestroyKeeps
  <1>6. ASSUME NEW s \in Sockets, OpenSocket(s) \/ SocketOpens(s) \/ SocketCloses(s)
        PROVE  ConnInv'
    BY <1>6, OpenSocketKeeps, SocketOpensKeeps, SocketClosesKeeps
  <1>7. ASSUME NEW s \in Sockets, ChallengeArrives(s) \/ ChallengeWithoutNonce(s)
        PROVE  ConnInv'
    BY <1>7, ChallengeKeeps, ChallengeWithoutNonceKeeps
  <1>8. ASSUME NEW s \in Sockets, NEW shape \in Shapes,
               \/ ConnectAccepted(s, shape)
               \/ ConnectRefused(s, shape)
               \/ ConnectChallenged(s, shape)
        PROVE  ConnInv'
    BY <1>8, ConnectAcceptedKeeps, ConnectRefusedKeeps, ConnectChallengedKeeps
  <1>9. CASE UNCHANGED connVars
    BY <1>9 DEF connVars, ConnInv, ConnTypeOK, Flags, OneSocket, NeverStrandedOffline,
       ConnectingIsUnderWay, DestroyedIsQuiet, OneAttempt, HandshakeState, Live, Receiving,
       Outstanding
  <1>10. TurnNext => UNCHANGED connVars
    BY DEF TurnNext, EnqueueAgentTurn, TurnResponse, TurnRejected, OtherFrame, TurnTimeout,
       FallbackEnds
  <1>11. UNCHANGED vars => UNCHANGED connVars
    BY DEF vars
  <1> QED BY <1>1, <1>2, <1>3, <1>4, <1>5, <1>6, <1>7, <1>8, <1>9, <1>10, <1>11
          DEF Next, ConnectionNext

-----------------------------------------------------------------------------
(* ConnInv holds in every reachable state. *)
THEOREM ConnectionInvariant == Spec => []ConnInv
  BY ConnInit, ConnNext, PTL DEF Spec

(* One WebSocket to the gateway, and gatewayWs refers to it. *)
THEOREM NeverTwoSockets == Spec => []OneSocket
  <1>1. ConnInv => OneSocket
    BY DEF ConnInv
  <1> QED BY <1>1, ConnectionInvariant, PTL

(* No failure leaves a started client without socket, attempt or timer. *)
THEOREM AlwaysAWayBack == Spec => []NeverStrandedOffline
  <1>1. ConnInv => NeverStrandedOffline
    BY DEF ConnInv
  <1> QED BY <1>1, ConnectionInvariant, PTL

(* _connecting never outlives the attempt it stands for. *)
THEOREM ConnectingIsNeverStale == Spec => []ConnectingIsUnderWay
  <1>1. ConnInv => ConnectingIsUnderWay
    BY DEF ConnInv
  <1> QED BY <1>1, ConnectionInvariant, PTL

(* An open socket that is not connected waits on the challenge timer or on the
   one connect outstanding. *)
THEOREM HandshakeNeverForgotten == Spec => []HandshakeHasNext
  <1>1. ConnInv => HandshakeHasNext
    BY DEF ConnInv, HandshakeState, HandshakeHasNext
  <1> QED BY <1>1, ConnectionInvariant, PTL

(* destroy is final for the connection, whenever it comes. *)
THEOREM NothingAfterDestroy == Spec => []DestroyedIsQuiet
  <1>1. ConnInv => DestroyedIsQuiet
    BY DEF ConnInv
  <1> QED BY <1>1, ConnectionInvariant, PTL

-----------------------------------------------------------------------------
(* 2. The turns *)

TurnTypeOK ==
  /\ setup \in Setups
  /\ enqueued \in 0..MaxTurns
  /\ queue \in Seq(Turns) /\ sent \in Seq(Turns)
  /\ inFlight \in BOOLEAN
  /\ pending \subseteq Turns /\ armed \subseteq Turns
  /\ calls \subseteq CallTypes
  /\ acked \in [Turns -> Nat]

(* OneTurnAtATime of the turn state a caller hands to _drainQueue. *)
AtMostOne(busy, pend, arm, fb) ==
  /\ \A t, u \in arm \cup {c.turn : c \in fb} : t = u
  /\ busy <=> arm \cup {c.turn : c \in fb} # {}
  /\ pend \subseteq arm

(* SentInOrder of a queue and what has been sent. *)
InOrder(out, q) ==
  /\ \A i, j \in DOMAIN out : i < j => out[i] < out[j]
  /\ \A i \in DOMAIN out : \A j \in DOMAIN q : out[i] < q[j]
  /\ \A i, j \in DOMAIN q : i < j => q[i] < q[j]

(* Turns are numbered as they come. *)
Numbered ==
  /\ \A i \in DOMAIN queue : queue[i] <= enqueued
  /\ \A i \in DOMAIN sent : sent[i] <= enqueued

(* With the fallback on a turn is taken up even while the gateway is away. *)
NoneLeftWaiting == (CanSendGateway \/ AutoFallback) /\ ~inFlight => queue = <<>>

TurnInv ==
  /\ TurnTypeOK
  /\ AtMostOne(inFlight, pending, armed, calls)
  /\ InOrder(sent, queue)
  /\ Numbered
  /\ pending \subseteq Range(sent)
  /\ AckedOnce
  /\ NoneLeftWaiting

-----------------------------------------------------------------------------
(* Dropping the first element keeps the rest in place. *)
LEMMA TailElements ==
  ASSUME NEW S, NEW q \in Seq(S), q # <<>>
  PROVE  /\ Tail(q) \in Seq(S) /\ Head(q) \in S /\ Head(q) = q[1] /\ 1 \in DOMAIN q
         /\ \A i \in DOMAIN Tail(q) : i + 1 \in DOMAIN q /\ Tail(q)[i] = q[i + 1] /\ i \in Nat /\ i >= 1
  OBVIOUS

LEMMA AppendElements ==
  ASSUME NEW S, NEW q \in Seq(S), NEW e \in S
  PROVE  /\ Append(q, e) \in Seq(S)
         /\ DOMAIN Append(q, e) = 1..(Len(q) + 1)
         /\ \A i \in DOMAIN q : Append(q, e)[i] = q[i]
         /\ Append(q, e)[Len(q) + 1] = e
         /\ DOMAIN q = 1..Len(q) /\ Len(q) \in Nat
  OBVIOUS

(* The elements of a sequence of turns are numbers. *)
LEMMA TurnsAreNumbers ==
  ASSUME NEW q \in Seq(Turns)
  PROVE  \A i \in DOMAIN q : q[i] \in Turns /\ q[i] \in Nat
  <1>1. \A i \in DOMAIN q : q[i] \in Turns
    OBVIOUS
  <1>2. Turns \subseteq Nat
    BY DEF Turns
  <1> QED BY <1>1, <1>2

(* The turns in a set of fallback calls. *)
LEMMA TurnsOfCalls ==
  ASSUME NEW fb, NEW t, NEW w
  PROVE  /\ {c.turn : c \in {[turn |-> t, why |-> w]}} = {t}
         /\ {c.turn : c \in fb \cup {[turn |-> t, why |-> w]}} = {c.turn : c \in fb} \cup {t}
  <1> DEFINE r == [turn |-> t, why |-> w]
  <1>1. r.turn = t
    OBVIOUS
  <1> HIDE DEF r
  <1>2. {c.turn : c \in {r}} = {t}
    BY <1>1
  <1>3. {c.turn : c \in fb \cup {r}} = {c.turn : c \in fb} \cup {r.turn}
    OBVIOUS
  <1> QED BY <1>1, <1>2, <1>3 DEF r

(* Sending the head of the line keeps the order. *)
LEMMA SendHeadInOrder ==
  ASSUME NEW out \in Seq(Turns), NEW q \in Seq(Turns), q # <<>>, InOrder(out, q)
  PROVE  InOrder(Append(out, Head(q)), Tail(q)) /\ InOrder(out, Tail(q))
  <1> DEFINE new == Append(out, Head(q))
  <1>1. /\ Tail(q) \in Seq(Turns) /\ Head(q) \in Turns /\ Head(q) = q[1] /\ 1 \in DOMAIN q
        /\ \A i \in DOMAIN Tail(q) : i + 1 \in DOMAIN q /\ Tail(q)[i] = q[i + 1] /\ i \in Nat /\ i >= 1
    BY TailElements
  <1>2. /\ DOMAIN new = 1..(Len(out) + 1)
        /\ \A i \in DOMAIN out : new[i] = out[i]
        /\ new[Len(out) + 1] = Head(q)
        /\ DOMAIN out = 1..Len(out) /\ Len(out) \in Nat
    BY <1>1, AppendElements
  <1>3. \A i, j \in DOMAIN Tail(q) : i < j => Tail(q)[i] < Tail(q)[j]
    BY <1>1 DEF InOrder
  <1>4. \A j \in DOMAIN Tail(q) : Head(q) < Tail(q)[j]
    BY <1>1 DEF InOrder
  <1>5. \A i \in DOMAIN out : out[i] < Head(q) /\ \A j \in DOMAIN Tail(q) : out[i] < Tail(q)[j]
    BY <1>1 DEF InOrder
  <1>6. \A i, j \in DOMAIN new : i < j => new[i] < new[j]
    BY <1>2, <1>5 DEF InOrder
  <1>7. \A i \in DOMAIN new : \A j \in DOMAIN Tail(q) : new[i] < Tail(q)[j]
    BY <1>2, <1>4, <1>5
  <1> QED BY <1>3, <1>5, <1>6, <1>7 DEF InOrder

(* What _drainQueue makes of a good turn state: the same state, or its first
   turn taken up. *)
TakenUp(q, busy, pend, arm, fb) ==
  \/ /\ queue' = q /\ inFlight' = busy /\ sent' = sent
     /\ pending' = pend /\ armed' = arm /\ calls' = fb
  \/ /\ ~busy /\ q # <<>>
     /\ queue' = Tail(q) /\ inFlight' = TRUE
     /\ \/ pending' = {Head(q)} /\ armed' = {Head(q)} /\ calls' = {} /\ sent' = Append(sent, Head(q))
        \/ pending' = {} /\ armed' = {} /\ calls' = {[turn |-> Head(q), why |-> "offline"]} /\ sent' = sent

LEMMA DrainTakesUp ==
  ASSUME NEW q, NEW busy \in BOOLEAN, NEW can, NEW pend, NEW arm, NEW fb, NEW keys,
         AtMostOne(busy, pend, arm, fb),
         Drain(q, busy, can, pend, arm, fb, keys)
  PROVE  /\ TakenUp(q, busy, pend, arm, fb)
         /\ (can \/ AutoFallback) /\ ~inFlight' => queue' = <<>>
         /\ ~busy /\ inFlight' => can \/ AutoFallback
  <1>1. CASE busy \/ q = <<>> \/ (~can /\ ~AutoFallback)
    BY <1>1 DEF Drain, KeepQueue, TakenUp
  <1>2. CASE ~(busy \/ q = <<>> \/ (~can /\ ~AutoFallback))
    <2>1. arm = {} /\ fb = {} /\ pend = {}
      BY <1>2 DEF AtMostOne
    <2>2. StartTurn(Head(q), Tail(q), can, pend, arm, fb, keys)
      BY <1>2 DEF Drain
    <2> QED BY <1>2, <2>1, <2>2 DEF StartTurn, TakenUp
  <1> QED BY <1>1, <1>2

(* What is left after _drainQueue: a good turn state, with nothing sent forgotten and
   nothing waiting that could have been taken up. *)
DrainedWell(pend, can) ==
  /\ queue' \in Seq(Turns) /\ sent' \in Seq(Turns) /\ inFlight' \in BOOLEAN
  /\ pending' \subseteq Turns /\ armed' \subseteq Turns /\ calls' \subseteq CallTypes
  /\ AtMostOne(inFlight', pending', armed', calls')
  /\ InOrder(sent', queue')
  /\ \A i \in DOMAIN queue' : queue'[i] <= enqueued'
  /\ \A i \in DOMAIN sent' : sent'[i] <= enqueued'
  /\ Range(sent) \subseteq Range(sent') /\ pending' \subseteq Range(sent')
  /\ \A t \in pending' : t \in pend \/ t \notin Range(sent)
  /\ (can \/ AutoFallback) /\ ~inFlight' => queue' = <<>>

LEMMA DrainKeeps ==
  ASSUME NEW q \in Seq(Turns), NEW busy \in BOOLEAN, NEW can,
         NEW pend \in SUBSET Turns, NEW arm \in SUBSET Turns, NEW fb \in SUBSET CallTypes,
         NEW keys, sent \in Seq(Turns), enqueued' \in Nat,
         AtMostOne(busy, pend, arm, fb), InOrder(sent, q), pend \subseteq Range(sent),
         \A i \in DOMAIN q : q[i] <= enqueued',
         \A i \in DOMAIN sent : sent[i] <= enqueued',
         Drain(q, busy, can, pend, arm, fb, keys)
  PROVE  DrainedWell(pend, can)
  <1>1. TakenUp(q, busy, pend, arm, fb) /\ ((can \/ AutoFallback) /\ ~inFlight' => queue' = <<>>)
    BY DrainTakesUp
  <1>2. CASE /\ queue' = q /\ inFlight' = busy /\ sent' = sent
             /\ pending' = pend /\ armed' = arm /\ calls' = fb
    BY <1>1, <1>2 DEF DrainedWell
  <1>3. CASE /\ ~busy /\ q # <<>>
             /\ queue' = Tail(q) /\ inFlight' = TRUE
             /\ \/ pending' = {Head(q)} /\ armed' = {Head(q)} /\ calls' = {} /\ sent' = Append(sent, Head(q))
                \/ pending' = {} /\ armed' = {} /\ calls' = {[turn |-> Head(q), why |-> "offline"]} /\ sent' = sent
    <2>1. /\ Tail(q) \in Seq(Turns) /\ Head(q) \in Turns /\ Head(q) = q[1] /\ 1 \in DOMAIN q
          /\ \A i \in DOMAIN Tail(q) : i + 1 \in DOMAIN q /\ Tail(q)[i] = q[i + 1]
      BY <1>3, TailElements
    <2>2. InOrder(Append(sent, Head(q)), Tail(q)) /\ InOrder(sent, Tail(q))
      BY <1>3, SendHeadInOrder
    <2>3. /\ Append(sent, Head(q)) \in Seq(Turns)
          /\ DOMAIN Append(sent, Head(q)) = 1..(Len(sent) + 1)
          /\ \A i \in DOMAIN sent : Append(sent, Head(q))[i] = sent[i]
          /\ Append(sent, Head(q))[Len(sent) + 1] = Head(q)
          /\ DOMAIN sent = 1..Len(sent) /\ Len(sent) \in Nat
      BY <2>1, AppendElements
    <2>4. Head(q) \notin Range(sent)
      BY <2>1 DEF InOrder, Range, Turns
    <2>5. /\ Range(sent) \subseteq Range(Append(sent, Head(q)))
          /\ Head(q) \in Range(Append(sent, Head(q)))
      BY <2>3 DEF Range
    <2>6. \A i \in DOMAIN Append(sent, Head(q)) : Append(sent, Head(q))[i] <= enqueued'
      BY <2>1, <2>3
    <2>7. \A i \in DOMAIN Tail(q) : Tail(q)[i] <= enqueued'
      BY <2>1
    <2>8. [turn |-> Head(q), why |-> "offline"] \in CallTypes
      BY <2>1 DEF CallTypes
    <2>9. AtMostOne(inFlight', pending', armed', calls')
      <3>1. armed' \cup {c.turn : c \in calls'} = {Head(q)} /\ inFlight' /\ pending' \subseteq armed'
        <4>1. CASE pending' = {Head(q)} /\ armed' = {Head(q)} /\ calls' = {}
          BY <1>3, <4>1
        <4>2. CASE /\ pending' = {} /\ armed' = {}
                   /\ calls' = {[turn |-> Head(q), why |-> "offline"]}
          <5>1. {c.turn : c \in calls'} = {Head(q)}
            BY <4>2, TurnsOfCalls
          <5> QED BY <1>3, <4>2, <5>1
        <4> QED BY <1>3, <4>1, <4>2
      <3> QED BY <3>1, Zenon DEF AtMostOne
    <2> QED BY <1>1, <1>3, <2>1, <2>2, <2>3, <2>4, <2>5, <2>6, <2>7, <2>8, <2>9
           DEF DrainedWell
  <1> QED BY <1>1, <1>2, <1>3 DEF TakenUp

(* A handler that ends in _drainQueue keeps TurnInv if the turn state it hands
   over is good. *)
LEMMA DrainStep ==
  ASSUME TurnInv,
         NEW q \in Seq(Turns), NEW busy \in BOOLEAN, NEW can,
         NEW pend \in SUBSET pending, NEW arm \in SUBSET Turns, NEW fb \in SUBSET CallTypes,
         NEW keys,
         AtMostOne(busy, pend, arm, fb), InOrder(sent, q),
         enqueued' \in 0..MaxTurns, enqueued <= enqueued',
         \A i \in DOMAIN q : q[i] <= enqueued',
         acked' \in [Turns -> Nat],
         \A t \in Turns : acked'[t] <= 1 /\ (acked'[t] = 1 => t \in Range(sent) \ pend),
         CanSendGateway' => can, UNCHANGED setup,
         Drain(q, busy, can, pend, arm, fb, keys)
  PROVE  TurnInv'
  <1>1. enqueued \in Nat /\ enqueued' \in Nat
    BY MaxTurnsIsNat DEF TurnInv, TurnTypeOK
  <1>2. \A i \in DOMAIN sent : sent[i] <= enqueued'
    <2>1. sent \in Seq(Turns)
      BY DEF TurnInv, TurnTypeOK
    <2>2. \A i \in DOMAIN sent : sent[i] \in Nat
      BY <2>1, TurnsAreNumbers
    <2>3. \A i \in DOMAIN sent : sent[i] <= enqueued
      BY DEF TurnInv, Numbered
    <2> QED BY <1>1, <2>2, <2>3
  <1>3. /\ sent \in Seq(Turns) /\ pend \in SUBSET Turns /\ pend \subseteq Range(sent)
        /\ arm \in SUBSET Turns /\ fb \in SUBSET CallTypes /\ q \in Seq(Turns) /\ busy \in BOOLEAN
    BY DEF TurnInv, TurnTypeOK
  <1>0. DrainedWell(pend, can)
    BY <1>1, <1>2, <1>3, DrainKeeps
  <1>4. /\ queue' \in Seq(Turns) /\ sent' \in Seq(Turns) /\ inFlight' \in BOOLEAN
        /\ pending' \subseteq Turns /\ armed' \subseteq Turns /\ calls' \subseteq CallTypes
        /\ AtMostOne(inFlight', pending', armed', calls')
        /\ InOrder(sent', queue')
        /\ \A i \in DOMAIN queue' : queue'[i] <= enqueued'
        /\ \A i \in DOMAIN sent' : sent'[i] <= enqueued'
        /\ Range(sent) \subseteq Range(sent') /\ pending' \subseteq Range(sent')
        /\ \A t \in pending' : t \in pend \/ t \notin Range(sent)
        /\ (can \/ AutoFallback) /\ ~inFlight' => queue' = <<>>
    BY <1>0 DEF DrainedWell
  <1>5. TurnTypeOK'
    BY <1>4 DEF TurnInv, TurnTypeOK
  <1>6. Numbered'
    BY <1>4 DEF Numbered
  <1>7. AckedOnce'
    BY <1>4 DEF AckedOnce
  <1>8. NoneLeftWaiting'
    BY <1>4 DEF NoneLeftWaiting, AutoFallback
  <1>9. AtMostOne(inFlight, pending, armed, calls)' /\ InOrder(sent, queue)'
    BY <1>4 DEF AtMostOne, InOrder
  <1> QED BY <1>4, <1>5, <1>6, <1>7, <1>8, <1>9 DEF TurnInv

(* The turn state once the turn in progress is over. *)
LEMMA SettledState ==
  ASSUME TurnInv, NEW t \in InProgress
  PROVE  AtMostOne(FALSE, pending \ {t}, armed \ {t}, {c \in calls : c.turn # t})
  BY DEF TurnInv, AtMostOne, InProgress

(* The turn that comes in is newer than all that wait or have been sent. *)
LEMMA EnqueuedInOrder ==
  ASSUME TurnInv, EnqueueAgentTurn
  PROVE  /\ Append(queue, enqueued + 1) \in Seq(Turns)
         /\ \A i \in DOMAIN Append(queue, enqueued + 1) : Append(queue, enqueued + 1)[i] <= enqueued + 1
         /\ InOrder(sent, Append(queue, enqueued + 1))
  <1> DEFINE e == enqueued + 1
             q == Append(queue, e)
  <1>1. /\ enqueued \in Nat /\ e \in Turns /\ enqueued' = e /\ UNCHANGED <<connVars, acked>>
        /\ Drain(q, inFlight, CanSendGateway, pending, armed, calls, seen)
    BY MaxTurnsIsNat DEF EnqueueAgentTurn, TurnInv, TurnTypeOK, Turns
  <1>2. /\ queue \in Seq(Turns) /\ sent \in Seq(Turns) /\ inFlight \in BOOLEAN
        /\ armed \subseteq Turns /\ calls \subseteq CallTypes /\ acked \in [Turns -> Nat]
        /\ AtMostOne(inFlight, pending, armed, calls) /\ InOrder(sent, queue)
    BY DEF TurnInv, TurnTypeOK
  <1>3. /\ q \in Seq(Turns)
        /\ DOMAIN q = 1..(Len(queue) + 1)
        /\ \A i \in DOMAIN queue : q[i] = queue[i]
        /\ q[Len(queue) + 1] = e
        /\ DOMAIN queue = 1..Len(queue) /\ Len(queue) \in Nat
    BY <1>1, <1>2, AppendElements
  <1>4. /\ \A i \in DOMAIN queue : queue[i] \in Nat /\ queue[i] < e
        /\ \A i \in DOMAIN sent : sent[i] \in Nat /\ sent[i] < e
    <2>1. /\ \A i \in DOMAIN queue : queue[i] \in Turns
          /\ \A i \in DOMAIN sent : sent[i] \in Turns
      BY <1>2
    <2>2. Turns \subseteq Nat
      BY DEF Turns
    <2>3. /\ \A i \in DOMAIN queue : queue[i] <= enqueued
          /\ \A i \in DOMAIN sent : sent[i] <= enqueued
      BY DEF TurnInv, Numbered
    <2>4. \A m \in Nat : m <= enqueued => m < e
      BY <1>1
    <2> QED BY <2>1, <2>2, <2>3, <2>4
  <1>5. \A i \in DOMAIN q : q[i] <= e
    BY <1>1, <1>3, <1>4
  <1>6. InOrder(sent, q)
    <2>1. \A i \in DOMAIN sent : \A j \in DOMAIN q : sent[i] < q[j]
      BY <1>2, <1>3, <1>4 DEF InOrder
    <2>2. \A i, j \in DOMAIN q : i < j => q[i] < q[j]
      BY <1>2, <1>3, <1>4 DEF InOrder
    <2> QED BY <1>2, <2>1, <2>2 DEF InOrder
  <1> QED BY <1>3, <1>5, <1>6

(* A handler that settles the turn in progress, and may acknowledge it. *)
LEMMA SettleStep ==
  ASSUME TurnInv, NEW t \in InProgress, NEW keys, Settle(t, keys),
         UNCHANGED <<connVars, enqueued>>,
         \/ UNCHANGED acked
         \/ t \in pending /\ acked' = [acked EXCEPT ![t] = @ + 1]
  PROVE  TurnInv'
  <1> DEFINE pend == pending \ {t}
             arm == armed \ {t}
             fb == {c \in calls : c.turn # t}
             can == CanSendGateway
             idle == FALSE
  <1>1. AtMostOne(idle, pend, arm, fb)
    BY SettledState
  <1>2. /\ queue \in Seq(Turns) /\ pend \in SUBSET pending
        /\ arm \in SUBSET Turns /\ fb \in SUBSET CallTypes
        /\ acked \in [Turns -> Nat] /\ enqueued \in 0..MaxTurns
    BY DEF TurnInv, TurnTypeOK
  <1>3. /\ InOrder(sent, queue) /\ enqueued <= enqueued'
        /\ \A i \in DOMAIN queue : queue[i] <= enqueued'
    BY <1>2, MaxTurnsIsNat DEF TurnInv, Numbered
  <1>4. (CanSendGateway' => can) /\ UNCHANGED setup
    BY DEF connVars, CanSendGateway, IsOpen
  <1>5. acked' \in [Turns -> Nat]
    <2>1. CASE UNCHANGED acked
      BY <1>2, <2>1
    <2>2. CASE acked' = [acked EXCEPT ![t] = @ + 1]
      <3>1. \A u \in Turns : acked[u] \in Nat /\ acked[u] + 1 \in Nat
        BY <1>2
      <3> QED BY <1>2, <2>2, <3>1
    <2> QED BY <2>1, <2>2
  <1>6. \A u \in Turns : acked'[u] <= 1 /\ (acked'[u] = 1 => u \in Range(sent) \ pend)
    <2>1. \A u \in Turns : acked[u] \in Nat /\ acked[u] <= 1 /\ (acked[u] = 1 => u \in Range(sent) \ pending)
      BY <1>2 DEF TurnInv, AckedOnce
    <2>2. CASE UNCHANGED acked
      BY <2>1, <2>2
    <2>3. CASE t \in pending /\ acked' = [acked EXCEPT ![t] = @ + 1]
      <3>1. t \in Turns /\ t \in Range(sent)
        BY <2>3 DEF TurnInv, TurnTypeOK
      <3>2. acked[t] = 0
        BY <2>1, <2>3, <3>1
      <3>3. \A u \in Turns : acked'[u] = IF u = t THEN 1 ELSE acked[u]
        BY <1>2, <2>3, <3>2
      <3> QED BY <2>1, <3>1, <3>3
    <2> QED BY <2>2, <2>3
  <1>7. Drain(queue, idle, can, pend, arm, fb, keys)
    BY DEF Settle
  <1>8. idle \in BOOLEAN /\ enqueued' \in 0..MaxTurns
    BY <1>2
  <1> HIDE DEF pend, arm, fb, can, idle
  <1> QED BY <1>1, <1>2, <1>3, <1>4, <1>5, <1>6, <1>7, <1>8, DrainStep

LEMMA EnqueueKeeps ==
  ASSUME TurnInv, EnqueueAgentTurn
  PROVE  TurnInv'
  <1> DEFINE e == enqueued + 1
             q == Append(queue, e)
  <1>1. /\ enqueued \in Nat /\ e \in Turns /\ enqueued' = e /\ UNCHANGED <<connVars, acked>>
        /\ Drain(q, inFlight, CanSendGateway, pending, armed, calls, seen)
    BY MaxTurnsIsNat DEF EnqueueAgentTurn, TurnInv, TurnTypeOK, Turns
  <1>2. /\ queue \in Seq(Turns) /\ sent \in Seq(Turns) /\ inFlight \in BOOLEAN
        /\ armed \subseteq Turns /\ calls \subseteq CallTypes /\ acked \in [Turns -> Nat]
        /\ AtMostOne(inFlight, pending, armed, calls) /\ InOrder(sent, queue)
    BY DEF TurnInv, TurnTypeOK
  <1>3. q \in Seq(Turns) /\ (\A i \in DOMAIN q : q[i] <= e) /\ InOrder(sent, q)
    BY EnqueuedInOrder
  <1>7. (CanSendGateway' => CanSendGateway) /\ UNCHANGED setup
    BY <1>1 DEF connVars, CanSendGateway, IsOpen
  <1>8. \A t \in Turns : acked'[t] <= 1 /\ (acked'[t] = 1 => t \in Range(sent) \ pending)
    BY <1>1 DEF TurnInv, AckedOnce
  <1>9. enqueued' \in 0..MaxTurns /\ enqueued <= enqueued' /\ acked' \in [Turns -> Nat]
    BY <1>1, <1>2 DEF Turns
  <1>10. \A i \in DOMAIN q : q[i] <= enqueued'
    BY <1>1, <1>3
  <1> HIDE DEF q, e
  <1> QED BY <1>1, <1>2, <1>3, <1>7, <1>8, <1>9, <1>10, DrainStep, SMTT(30)

(* Events, late responses and rejected turns leave _drainQueue alone. *)
LEMMA FrameKeeps ==
  ASSUME TurnInv, NEW t, NEW f, OtherFrame(t, f) \/ TurnRejected(t, f)
  PROVE  TurnInv'
  <1>1. UNCHANGED <<connVars, enqueued, queue, inFlight, sent, acked>>
    BY DEF OtherFrame, TurnRejected
  <1>2. \/ pending' = pending /\ armed' = armed /\ calls' = calls
        \/ /\ t \in pending
           /\ pending' = pending \ {t} /\ armed' = armed \ {t}
           /\ calls' = calls \cup {[turn |-> t, why |-> "rejected"]}
    BY DEF OtherFrame, TurnRejected, IsTurnResponse
  <1>3. t \in pending => [turn |-> t, why |-> "rejected"] \in CallTypes
    BY DEF CallTypes, TurnInv, TurnTypeOK
  <1>4. TurnTypeOK'
    BY <1>1, <1>2, <1>3 DEF TurnInv, TurnTypeOK, connVars
  <1>5. AtMostOne(inFlight, pending, armed, calls)'
    <2>1. AtMostOne(inFlight, pending, armed, calls)
      BY DEF TurnInv
    <2>2. t \in pending =>
            /\ pending \ {t} \subseteq armed \ {t}
            /\ \A u \in armed \cup {c.turn : c \in calls} : u = t
            /\ (armed \ {t}) \cup {c.turn : c \in calls \cup {[turn |-> t, why |-> "rejected"]}} = {t}
      <3>1. {c.turn : c \in calls \cup {[turn |-> t, why |-> "rejected"]}} = {c.turn : c \in calls} \cup {t}
        BY TurnsOfCalls
      <3>2. t \in pending => t \in armed /\ pending \ {t} \subseteq armed \ {t}
        BY <2>1 DEF AtMostOne
      <3>3. t \in armed => \A u \in armed \cup {c.turn : c \in calls} : u = t
        BY <2>1 DEF AtMostOne
      <3> QED BY <3>1, <3>2, <3>3
    <2>3. t \in pending => inFlight
      BY <2>1 DEF AtMostOne
    <2>4. CASE pending' = pending /\ armed' = armed /\ calls' = calls
      BY <1>1, <2>1, <2>4 DEF AtMostOne
    <2>5. CASE /\ t \in pending
               /\ pending' = pending \ {t} /\ armed' = armed \ {t}
               /\ calls' = calls \cup {[turn |-> t, why |-> "rejected"]}
      <3>1. armed' \cup {c.turn : c \in calls'} = {t} /\ inFlight'
        BY <1>1, <2>2, <2>3, <2>5
      <3>2. pending' \subseteq armed'
        BY <2>2, <2>5
      <3> QED BY <3>1, <3>2 DEF AtMostOne
    <2> QED BY <1>2, <2>4, <2>5
  <1>6. InOrder(sent, queue)' /\ Numbered'
    BY <1>1 DEF TurnInv, InOrder, Numbered
  <1>7. pending' \subseteq Range(sent)' /\ AckedOnce'
    BY <1>1, <1>2 DEF TurnInv, AckedOnce, Range
  <1>8. NoneLeftWaiting'
    BY <1>1 DEF TurnInv, NoneLeftWaiting, CanSendGateway, IsOpen, AutoFallback, connVars
  <1> QED BY <1>4, <1>5, <1>6, <1>7, <1>8 DEF TurnInv

LEMMA ConnectAcceptedDrains ==
  ASSUME TurnInv, NEW s, NEW shape, ConnectAccepted(s, shape)
  PROVE  TurnInv'
  <1>1. /\ Drain(queue, inFlight, IsOpen, pending, armed, calls, seen)
        /\ UNCHANGED <<setup, sock, ws, enqueued, acked>>
    BY DEF ConnectAccepted
  <1>2. /\ queue \in Seq(Turns) /\ inFlight \in BOOLEAN /\ pending \in SUBSET pending
        /\ armed \in SUBSET Turns /\ calls \in SUBSET CallTypes
        /\ AtMostOne(inFlight, pending, armed, calls) /\ InOrder(sent, queue)
    BY DEF TurnInv, TurnTypeOK
  <1>3. enqueued' \in 0..MaxTurns /\ enqueued <= enqueued' /\ acked' \in [Turns -> Nat]
    BY <1>1, MaxTurnsIsNat DEF TurnInv, TurnTypeOK
  <1>4. \A i \in DOMAIN queue : queue[i] <= enqueued'
    BY <1>1 DEF TurnInv, Numbered
  <1>5. \A t \in Turns : acked'[t] <= 1 /\ (acked'[t] = 1 => t \in Range(sent) \ pending)
    BY <1>1 DEF TurnInv, AckedOnce
  <1>6. CanSendGateway' => IsOpen
    BY <1>1 DEF CanSendGateway, IsOpen
  <1> QED BY <1>1, <1>2, <1>3, <1>4, <1>5, <1>6, DrainStep

LEMMA DestroyDiscards ==
  ASSUME TurnInv, Destroy
  PROVE  TurnInv'
  <1>1. /\ pending' = {} /\ queue' = <<>> /\ ~CanSendGateway'
        /\ UNCHANGED <<setup, enqueued, inFlight, armed, calls, sent, acked>>
    BY DEF Destroy, CanSendGateway
  <1>2. TurnTypeOK'
    BY <1>1 DEF TurnInv, TurnTypeOK
  <1>3. AtMostOne(inFlight, pending, armed, calls)'
    BY <1>1, Zenon DEF TurnInv, AtMostOne
  <1>4. InOrder(sent, queue)' /\ Numbered'
    BY <1>1 DEF TurnInv, InOrder, Numbered
  <1>5. AckedOnce' /\ NoneLeftWaiting'
    BY <1>1 DEF TurnInv, AckedOnce, NoneLeftWaiting
  <1> QED BY <1>1, <1>2, <1>3, <1>4, <1>5 DEF TurnInv

(* Other steps leave the turns alone. *)
LEMMA TurnsLeftAlone ==
  ASSUME TurnInv, CanSendGateway' => CanSendGateway,
         UNCHANGED <<setup, enqueued, queue, inFlight, pending, armed, calls, sent, acked>>
  PROVE  TurnInv'
  BY DEF TurnInv, TurnTypeOK, AtMostOne, InOrder, Numbered, AckedOnce, NoneLeftWaiting,
         AutoFallback

(* Those of the connection cannot make the gateway usable while turns wait: only an
   accepted connect does, and it drains. *)
LEMMA UsableOnlyByConnect ==
  ASSUME ConnInv, ConnectionNext, ~Destroy,
         \A s \in Sockets, shape \in Shapes : ~ConnectAccepted(s, shape)
  PROVE  UNCHANGED turnVars /\ (CanSendGateway' => CanSendGateway)
  <1>1. UNCHANGED turnVars
    BY DEF ConnectionNext, EnsureConnected, WaitFails, WaitEndsDestroyed, OpenSocketFails,
       ReconnectFires, ChallengeTimeout, OpenSocket, SocketOpens, SocketCloses,
       ChallengeArrives, ChallengeWithoutNonce, ConnectRefused, ConnectChallenged
  <1>2. sock \in [Sockets -> {"none", "connecting", "open", "closing"}] /\ ws \in Sockets \cup {None}
    BY DEF ConnInv, ConnTypeOK
  <1>3. CASE UNCHANGED <<sock, ws, connected>>
    BY <1>3, <1>1 DEF CanSendGateway, IsOpen
  <1>4. CASE CloseSocket /\ UNCHANGED <<ws, connected>>
    BY <1>1, <1>2, <1>4 DEF CanSendGateway, IsOpen, CloseSocket
  <1>5. ASSUME NEW s \in Sockets, OpenSocket(s) \/ SocketOpens(s)
        PROVE  ~CanSendGateway'
    <2>1. ~connected
      BY <1>5, NoneIsNoSocket
      DEF ConnInv, ConnTypeOK, OneAttempt, HandshakeState, OneSocket, Live, Receiving,
          OpenSocket, SocketOpens
    <2> QED BY <1>5, <2>1 DEF CanSendGateway, OpenSocket, SocketOpens
  <1>6. ASSUME NEW s \in Sockets, SocketCloses(s)
        PROVE  ~CanSendGateway'
    BY <1>6 DEF SocketCloses, CanSendGateway
  <1>7. EnsureConnected \/ WaitFails \/ WaitEndsDestroyed \/ OpenSocketFails \/ ReconnectFires
          => UNCHANGED <<sock, ws, connected>>
    BY DEF EnsureConnected, WaitFails, WaitEndsDestroyed, OpenSocketFails, ReconnectFires
  <1>8. ChallengeTimeout =>
          UNCHANGED <<sock, ws, connected>> \/ (CloseSocket /\ UNCHANGED <<ws, connected>>)
    BY DEF ChallengeTimeout
  <1>9. ASSUME NEW s \in Sockets, NEW shape \in Shapes,
               \/ ChallengeArrives(s) \/ ChallengeWithoutNonce(s)
               \/ ConnectRefused(s, shape) \/ ConnectChallenged(s, shape)
        PROVE  UNCHANGED <<sock, ws, connected>> \/ (CloseSocket /\ UNCHANGED <<ws, connected>>)
    BY <1>9 DEF ChallengeArrives, ChallengeWithoutNonce, ConnectRefused, ConnectChallenged
  <1>10. "bare" \in Shapes
    BY DEF Shapes
  <1> QED BY <1>1, <1>3, <1>4, <1>5, <1>6, <1>7, <1>8, <1>9, <1>10 DEF ConnectionNext

LEMMA TurnInit == Init => TurnInv
  <1> SUFFICES ASSUME Init PROVE TurnInv
    OBVIOUS
  <1> USE DEF Init
  <1>1. TurnTypeOK
    <2>1. enqueued \in 0..MaxTurns /\ acked \in [Turns -> Nat]
      BY MaxTurnsIsNat
    <2>2. queue \in Seq(Turns) /\ sent \in Seq(Turns)
      OBVIOUS
    <2>3. inFlight \in BOOLEAN
      OBVIOUS
    <2> QED BY <2>1, <2>2, <2>3 DEF TurnTypeOK
  <1>2. AtMostOne(inFlight, pending, armed, calls)
    BY DEF AtMostOne
  <1>3. InOrder(sent, queue) /\ Numbered /\ pending \subseteq Range(sent)
    BY DEF InOrder, Numbered
  <1>4. AckedOnce /\ NoneLeftWaiting
    BY DEF AckedOnce, NoneLeftWaiting
  <1> QED BY <1>1, <1>2, <1>3, <1>4 DEF TurnInv

(* Every step of the turns keeps the turn invariant, whatever the connection is. *)
LEMMA TurnStep == TurnInv /\ TurnNext => TurnInv'
  <1> SUFFICES ASSUME TurnInv, TurnNext PROVE TurnInv'
    OBVIOUS
  <1>1. CASE EnqueueAgentTurn
    BY <1>1, EnqueueKeeps
  <1>2. ASSUME NEW t, NEW f, OtherFrame(t, f) \/ TurnRejected(t, f)
        PROVE  TurnInv'
    BY <1>2, FrameKeeps
  <1>3. ASSUME NEW t, NEW f, TurnResponse(t, f)
        PROVE  TurnInv'
    <2>1. t \in pending /\ t \in InProgress
      BY <1>3 DEF TurnResponse, IsTurnResponse, TurnInv, AtMostOne, InProgress
    <2> DEFINE keys == After(f, seen)
    <2>2. /\ Settle(t, keys) /\ UNCHANGED <<connVars, enqueued>>
          /\ UNCHANGED acked \/ acked' = [acked EXCEPT ![t] = @ + 1]
      BY <1>3 DEF TurnResponse
    <2> HIDE DEF keys
    <2> QED BY <2>1, <2>2, SettleStep
  <1>4. ASSUME NEW t \in armed, TurnTimeout(t)
        PROVE  TurnInv'
    <2>1. t \in InProgress
      BY DEF InProgress
    <2>2. Settle(t, seen) /\ UNCHANGED <<connVars, enqueued>> /\ UNCHANGED acked
      BY <1>4 DEF TurnTimeout
    <2> QED BY <2>1, <2>2, SettleStep
  <1>5. ASSUME NEW c \in calls, FallbackEnds(c)
        PROVE  TurnInv'
    <2> DEFINE t == c.turn
    <2>1. t \in InProgress
      BY DEF InProgress
    <2>2. UNCHANGED <<connVars, enqueued>> /\ UNCHANGED acked
      BY <1>5 DEF FallbackEnds
    <2>3. PICK keys : Settle(t, keys)
      BY <1>5 DEF FallbackEnds
    <2> HIDE DEF t
    <2> QED BY <2>1, <2>2, <2>3, SettleStep
  <1> QED BY <1>1, <1>2, <1>3, <1>4, <1>5 DEF TurnNext

(* Every step keeps the turn invariant. *)
LEMMA TurnsNext == ConnInv /\ TurnInv /\ [Next]_vars => TurnInv'
  <1> SUFFICES ASSUME ConnInv, TurnInv, [Next]_vars PROVE TurnInv'
    OBVIOUS
  <1>1. CASE Destroy
    BY <1>1, DestroyDiscards
  <1>2. ASSUME NEW s \in Sockets, NEW shape \in Shapes, ConnectAccepted(s, shape)
        PROVE  TurnInv'
    BY <1>2, ConnectAcceptedDrains
  <1>3. CASE /\ ConnectionNext /\ ~Destroy
             /\ \A s \in Sockets, shape \in Shapes : ~ConnectAccepted(s, shape)
    <2>1. UNCHANGED turnVars /\ (CanSendGateway' => CanSendGateway)
      BY <1>3, UsableOnlyByConnect
    <2> QED BY <2>1, TurnsLeftAlone DEF turnVars
  <1>4. CASE UNCHANGED vars
    <2>1. UNCHANGED turnVars /\ UNCHANGED connVars
      BY <1>4 DEF vars
    <2>2. CanSendGateway' => CanSendGateway
      BY <2>1 DEF connVars, CanSendGateway, IsOpen
    <2> QED BY <2>1, <2>2, TurnsLeftAlone DEF turnVars
  <1> QED BY <1>1, <1>2, <1>3, <1>4, TurnStep DEF Next

-----------------------------------------------------------------------------
(* TurnInv holds in every reachable state. *)
THEOREM TurnInvariant == Spec => []TurnInv
  BY TurnInit, TurnsNext, ConnectionInvariant, PTL DEF Spec

(* At most one agent turn is in progress, and _inFlight says so. *)
THEOREM TurnsOneAtATime == Spec => []OneTurnAtATime
  <1>1. TurnInv => OneTurnAtATime
    BY DEF TurnInv, AtMostOne, OneTurnAtATime, InProgress
  <1> QED BY <1>1, TurnInvariant, PTL

(* Turns go out in the order they were enqueued, each at most once. *)
THEOREM TurnsSentInOrder == Spec => []SentInOrder
  <1>1. TurnInv => SentInOrder
    BY DEF TurnInv, InOrder, SentInOrder
  <1> QED BY <1>1, TurnInvariant, PTL

(* No turn waits while the gateway can be used and nothing is in flight. *)
THEOREM NoLostWakeUp == Spec => []NoTurnLeftWaiting
  <1>1. TurnInv => NoTurnLeftWaiting
    BY DEF TurnInv, NoneLeftWaiting, NoTurnLeftWaiting
  <1> QED BY <1>1, TurnInvariant, PTL

(* A turn is acknowledged to the phone at most once. *)
THEOREM NeverAckedTwice == Spec => []AckedOnce
  <1>1. TurnInv => AckedOnce
    BY DEF TurnInv
  <1> QED BY <1>1, TurnInvariant, PTL

-----------------------------------------------------------------------------
(* The client implements the abstract turn queue. *)

LEMMA AbstractInit == Init => Abstract!Init
  BY DEF Init, Abstract!Init, InProgress

(* What _drainQueue does, in the terms of the turn queue. *)
LEMMA TakenUpMaps ==
  ASSUME NEW q, NEW busy, NEW pend, NEW arm, NEW fb,
         AtMostOne(busy, pend, arm, fb), TakenUp(q, busy, pend, arm, fb)
  PROVE  \/ queue' = q /\ InProgress' = arm \cup {c.turn : c \in fb} /\ inFlight' = busy
         \/ /\ ~busy /\ inFlight' /\ q # <<>>
            /\ queue' = Tail(q) /\ InProgress' = {Head(q)}
  <1>1. CASE /\ queue' = q /\ inFlight' = busy /\ sent' = sent
             /\ pending' = pend /\ armed' = arm /\ calls' = fb
    BY <1>1 DEF InProgress
  <1>2. CASE /\ ~busy /\ q # <<>>
             /\ queue' = Tail(q) /\ inFlight' = TRUE
             /\ \/ armed' = {Head(q)} /\ calls' = {}
                \/ armed' = {} /\ calls' = {[turn |-> Head(q), why |-> "offline"]}
    <2>1. InProgress' = {Head(q)}
      <3>1. CASE armed' = {Head(q)} /\ calls' = {}
        BY <3>1 DEF InProgress
      <3>2. CASE armed' = {} /\ calls' = {[turn |-> Head(q), why |-> "offline"]}
        <4>1. {c.turn : c \in calls'} = {Head(q)}
          BY <3>2, TurnsOfCalls
        <4> QED BY <3>2, <4>1 DEF InProgress
      <3> QED BY <1>2, <3>1, <3>2
    <2>2. inFlight'
      BY <1>2
    <2> QED BY <1>2, <2>1, <2>2
  <1> QED BY <1>1, <1>2 DEF TakenUp

LEMMA SettleMaps ==
  ASSUME TurnInv, NEW t \in InProgress, NEW keys, Settle(t, keys), UNCHANGED enqueued
  PROVE  Abstract!Finish
  <1> DEFINE pend == pending \ {t}
             arm == armed \ {t}
             fb == {c \in calls : c.turn # t}
             can == CanSendGateway
  <1>1. AtMostOne(FALSE, pend, arm, fb)
    BY SettledState
  <1>2. arm \cup {c.turn : c \in fb} = {} /\ InProgress # {}
    BY DEF TurnInv, AtMostOne, InProgress
  <1>3. Drain(queue, FALSE, can, pend, arm, fb, keys)
    BY DEF Settle
  <1> HIDE DEF pend, arm, fb, can
  <1>4. TakenUp(queue, FALSE, pend, arm, fb)
    BY <1>1, <1>3, DrainTakesUp
  <1>5. \/ queue' = queue /\ InProgress' = {}
        \/ queue # <<>> /\ queue' = Tail(queue) /\ InProgress' = {Head(queue)}
    BY <1>1, <1>2, <1>4, TakenUpMaps
  <1> QED BY <1>2, <1>5 DEF Abstract!Finish

LEMMA EnqueueMaps ==
  ASSUME TurnInv, EnqueueAgentTurn
  PROVE  Abstract!Accept
  <1> DEFINE q == Append(queue, enqueued + 1)
  <1>1. /\ enqueued < MaxTurns /\ enqueued' = enqueued + 1
        /\ Drain(q, inFlight, CanSendGateway, pending, armed, calls, seen)
    BY DEF EnqueueAgentTurn
  <1>2. AtMostOne(inFlight, pending, armed, calls) /\ inFlight \in BOOLEAN
    BY DEF TurnInv, TurnTypeOK
  <1>3. Head(Append(<<>>, enqueued + 1)) = enqueued + 1 /\ Tail(Append(<<>>, enqueued + 1)) = <<>>
    OBVIOUS
  <1> HIDE DEF q
  <1>4. /\ TakenUp(q, inFlight, pending, armed, calls)
        /\ ~inFlight /\ inFlight' => CanSendGateway \/ AutoFallback
    BY <1>1, <1>2, DrainTakesUp
  <1>5. CASE queue' = q /\ InProgress' = InProgress
    BY <1>1, <1>5 DEF Abstract!Accept, q
  <1>6. CASE ~inFlight /\ inFlight' /\ queue' = Tail(q) /\ InProgress' = {Head(q)}
    <2>1. queue = <<>>
      BY <1>4, <1>6 DEF TurnInv, NoneLeftWaiting
    <2>2. InProgress = {}
      BY <1>2, <1>6 DEF AtMostOne, InProgress
    <2> QED BY <1>1, <1>3, <1>6, <2>1, <2>2 DEF Abstract!Accept, q
  <1>7. \/ queue' = q /\ InProgress' = InProgress
        \/ ~inFlight /\ inFlight' /\ queue' = Tail(q) /\ InProgress' = {Head(q)}
    BY <1>2, <1>4, TakenUpMaps DEF InProgress
  <1> QED BY <1>5, <1>6, <1>7

LEMMA ConnectAcceptedMaps ==
  ASSUME TurnInv, NEW s, NEW shape, ConnectAccepted(s, shape)
  PROVE  Abstract!Start \/ UNCHANGED Abstract!vars
  <1>1. /\ Drain(queue, inFlight, IsOpen, pending, armed, calls, seen)
        /\ UNCHANGED enqueued
    BY DEF ConnectAccepted
  <1>2. AtMostOne(inFlight, pending, armed, calls) /\ inFlight \in BOOLEAN
    BY DEF TurnInv, TurnTypeOK
  <1>3. TakenUp(queue, inFlight, pending, armed, calls)
    BY <1>1, <1>2, DrainTakesUp
  <1>4. \/ queue' = queue /\ InProgress' = InProgress
        \/ /\ ~inFlight /\ queue # <<>>
           /\ queue' = Tail(queue) /\ InProgress' = {Head(queue)}
    BY <1>2, <1>3, TakenUpMaps DEF InProgress
  <1>5. ~inFlight => InProgress = {}
    BY <1>2 DEF AtMostOne, InProgress
  <1> QED BY <1>1, <1>4, <1>5 DEF Abstract!Start, Abstract!vars

(* Every step of the turns is one of the turn queue or changes nothing there. *)
LEMMA TurnNextMaps ==
  ASSUME TurnInv, TurnNext
  PROVE  Abstract!Next \/ UNCHANGED Abstract!vars
  <1>1. CASE EnqueueAgentTurn
    BY <1>1, EnqueueMaps DEF Abstract!Next
  <1>2. ASSUME NEW t, NEW f, OtherFrame(t, f)
        PROVE  UNCHANGED Abstract!vars
    BY <1>2 DEF OtherFrame, Abstract!vars, InProgress
  <1>3. ASSUME NEW t, NEW f, TurnRejected(t, f)
        PROVE  UNCHANGED Abstract!vars
    <2>1. /\ t \in armed /\ UNCHANGED <<enqueued, queue>>
          /\ armed' = armed \ {t} /\ calls' = calls \cup {[turn |-> t, why |-> "rejected"]}
      BY <1>3 DEF TurnRejected, IsTurnResponse, TurnInv, AtMostOne
    <2>2. {c.turn : c \in calls'} = {c.turn : c \in calls} \cup {t}
      BY <2>1, TurnsOfCalls
    <2>3. InProgress' = InProgress
      BY <2>1, <2>2 DEF InProgress
    <2> QED BY <2>1, <2>3 DEF Abstract!vars
  <1>4. ASSUME NEW t, NEW f, TurnResponse(t, f)
        PROVE  Abstract!Next
    <2>1. t \in InProgress
      BY <1>4 DEF TurnResponse, IsTurnResponse, TurnInv, AtMostOne, InProgress
    <2>2. Settle(t, After(f, seen)) /\ UNCHANGED enqueued
      BY <1>4 DEF TurnResponse
    <2> QED BY <2>1, <2>2, SettleMaps DEF Abstract!Next
  <1>5. ASSUME NEW t \in armed, TurnTimeout(t)
         PROVE  Abstract!Next
    <2>1. t \in InProgress
      BY DEF InProgress
    <2>2. Settle(t, seen) /\ UNCHANGED enqueued
      BY <1>5 DEF TurnTimeout
    <2> QED BY <2>1, <2>2, SettleMaps DEF Abstract!Next
  <1>6. ASSUME NEW c \in calls, FallbackEnds(c)
         PROVE  Abstract!Next
    <2>1. c.turn \in InProgress
      BY DEF InProgress
    <2>2. PICK keys : Settle(c.turn, keys)
      BY <1>6 DEF FallbackEnds
    <2>3. UNCHANGED enqueued
      BY <1>6 DEF FallbackEnds
    <2> QED BY <2>1, <2>2, <2>3, SettleMaps DEF Abstract!Next
  <1> QED BY <1>1, <1>2, <1>3, <1>4, <1>5, <1>6 DEF TurnNext

LEMMA AbstractNext ==
  ConnInv /\ TurnInv /\ [Next]_vars => [Abstract!Next]_Abstract!vars
  <1> SUFFICES ASSUME ConnInv, TurnInv, [Next]_vars
               PROVE  Abstract!Next \/ UNCHANGED Abstract!vars
    BY DEF Abstract!vars
  <1>1. CASE Destroy
    <2>1. Abstract!Discard
      BY <1>1 DEF Destroy, Abstract!Discard, InProgress
    <2> QED BY <2>1 DEF Abstract!Next
  <1>2. ASSUME NEW s \in Sockets, NEW shape \in Shapes, ConnectAccepted(s, shape)
        PROVE  Abstract!Next \/ UNCHANGED Abstract!vars
    BY <1>2, ConnectAcceptedMaps DEF Abstract!Next
  <1>3. CASE UNCHANGED turnVars
    BY <1>3 DEF turnVars, Abstract!vars, InProgress
  <1>4. CASE /\ ConnectionNext /\ ~Destroy
             /\ \A s \in Sockets, shape \in Shapes : ~ConnectAccepted(s, shape)
    BY <1>3, <1>4, UsableOnlyByConnect
  <1>5. CASE UNCHANGED vars
    BY <1>3, <1>5 DEF vars
  <1> QED BY <1>1, <1>2, <1>3, <1>4, <1>5, TurnNextMaps DEF Next

(* Through every reconnect, timeout, late response and fallback, turns are worked
   on in order, one at a time, none skipped. *)
THEOREM ClientImplementsTurnQueue == Spec => ImplementsTurnQueue
  <1>1. Init => Abstract!Init
    BY AbstractInit
  <1>2. ConnInv /\ TurnInv /\ [Next]_vars => [Abstract!Next]_Abstract!vars
    BY AbstractNext
  <1> QED BY <1>1, <1>2, ConnectionInvariant, TurnInvariant, PTL
          DEF Spec, ImplementsTurnQueue, Abstract!Spec

-----------------------------------------------------------------------------
(* Types of the reply state: every reply of a turn names its run, so the deduper
   only ever holds runs. *)

ReplyTypeOK == seen \in Seq({"run"} \X Turns) /\ delivered \in [Turns -> Nat]

LEMMA KeyIsRun ==
  ASSUME NEW t \in Turns, NEW kind \in Kinds
  PROVE  DedupKey(FrameOf(kind, t, t)) = <<"run", t>>
  <1>1. t # NoRun
    BY NoRunIsNoTurn DEF Turns
  <1>2. ExtractGatewayRunId(FrameOf(kind, t, t)) = t
    <2>1. \A ok, stage, text : ExtractGatewayRunId(Res(t, ok, stage, text)) = t
      BY <1>1 DEF ExtractGatewayRunId, Res
    <2>2. \A event, stage, text : ExtractGatewayRunId(Event(t, event, stage, text)) = t
      BY <1>1 DEF ExtractGatewayRunId, Event
    <2> QED BY <2>1, <2>2 DEF FrameOf, Kinds
  <1> QED BY <1>1, <1>2 DEF DedupKey

LEMMA SeenAfter ==
  ASSUME NEW t \in Turns, NEW kind \in Kinds, NEW keys \in Seq({"run"} \X Turns)
  PROVE  After(FrameOf(kind, t, t), keys) \in Seq({"run"} \X Turns)
  <1> DEFINE K == {"run"} \X Turns
             new == Append(keys, <<"run", t>>)
  <1>1. <<"run", t>> \in K
    OBVIOUS
  <1> HIDE DEF K
  <1>2. new \in Seq(K) /\ new # <<>>
    BY <1>1, AppendElements DEF K
  <1>3. Tail(new) \in Seq(K)
    BY <1>2, TailElements
  <1>4. Evict(new) \in Seq(K)
    BY <1>2, <1>3 DEF Evict
  <1> QED BY <1>4, KeyIsRun DEF After, K

LEMMA DrainSeen ==
  ASSUME NEW q, NEW busy, NEW can, NEW pend, NEW arm, NEW fb,
         NEW keys \in Seq({"run"} \X Turns), Drain(q, busy, can, pend, arm, fb, keys)
  PROVE  seen' \in Seq({"run"} \X Turns)
  <1>1. seen' = keys \/ seen' = <<>>
    BY Zenon DEF Drain, KeepQueue, StartTurn
  <1> DEFINE K == {"run"} \X Turns
  <1>2. keys \in Seq(K) /\ <<>> \in Seq(K)
    OBVIOUS
  <1> HIDE DEF K
  <1>3. seen' \in Seq(K)
    BY <1>1, <1>2
  <1> QED BY <1>3 DEF K

LEMMA ForwardType ==
  ASSUME NEW t \in Turns, NEW f, delivered \in [Turns -> Nat], Forward(t, f)
  PROVE  delivered' \in [Turns -> Nat]
  BY DEF Forward

(* The steps of the turns keep the types of the reply state. *)
LEMMA ReplyStep == TurnInv /\ ReplyTypeOK /\ TurnNext => ReplyTypeOK'
  <1> SUFFICES ASSUME TurnInv, ReplyTypeOK, TurnNext PROVE ReplyTypeOK'
    OBVIOUS
  <1> DEFINE K == {"run"} \X Turns
  <1>1. seen \in Seq(K) /\ delivered \in [Turns -> Nat]
    BY DEF ReplyTypeOK
  <1>2. CASE UNCHANGED <<seen, delivered>>
    BY <1>1, <1>2 DEF ReplyTypeOK
  <1>3. CASE EnqueueAgentTurn
    BY <1>1, <1>3, DrainSeen DEF EnqueueAgentTurn, ReplyTypeOK
  <1>4. ASSUME NEW t \in Range(sent), NEW f \in Frames(t),
               TurnResponse(t, f) \/ OtherFrame(t, f)
        PROVE  ReplyTypeOK'
    <2>1. t \in Turns
      BY DEF TurnInv, TurnTypeOK, Range
    <2>2. PICK kind \in Kinds : f = FrameOf(kind, t, t)
      BY KindsAreKnown DEF Frames
    <2>3. After(f, seen) \in Seq(K)
      BY <1>1, <2>1, <2>2, SeenAfter
    <2>4. delivered' \in [Turns -> Nat]
      BY <1>1, <1>4, <2>1, ForwardType DEF TurnResponse, OtherFrame
    <2>5. seen' \in Seq(K)
      BY <1>4, <2>3, DrainSeen DEF TurnResponse, OtherFrame, Settle
    <2> QED BY <2>4, <2>5 DEF ReplyTypeOK
  <1>5. ASSUME NEW t, TurnTimeout(t) PROVE ReplyTypeOK'
    BY <1>1, <1>5, DrainSeen DEF TurnTimeout, Settle, ReplyTypeOK
  <1>6. ASSUME NEW c \in calls, FallbackEnds(c) PROVE ReplyTypeOK'
    <2>1. c.turn \in Turns
      BY DEF TurnInv, TurnTypeOK, CallTypes
    <2>2. "error" \in Kinds
      BY DEF Kinds
    <2> DEFINE f == FrameOf("error", c.turn, c.turn)
    <2>3. After(f, seen) \in Seq(K)
      BY <1>1, <2>1, <2>2, SeenAfter
    <2> HIDE DEF f
    <2>4. CASE Settle(c.turn, seen) /\ UNCHANGED delivered
      BY <1>1, <2>4, DrainSeen DEF Settle, ReplyTypeOK
    <2>5. CASE Forward(c.turn, f) /\ Settle(c.turn, After(f, seen))
      <3>1. delivered' \in [Turns -> Nat]
        BY <1>1, <2>1, <2>5, ForwardType
      <3>2. seen' \in Seq(K)
        BY <2>3, <2>5, DrainSeen DEF Settle
      <3> QED BY <3>1, <3>2 DEF ReplyTypeOK
    <2> QED BY <1>6, <2>4, <2>5 DEF FallbackEnds, f
  <1>7. (\E t, f : TurnRejected(t, f)) => UNCHANGED <<seen, delivered>>
    BY DEF TurnRejected
  <1> QED BY <1>2, <1>3, <1>4, <1>5, <1>6, <1>7 DEF TurnNext

LEMMA ReplyNext == ConnInv /\ TurnInv /\ ReplyTypeOK /\ [Next]_vars => ReplyTypeOK'
  <1> SUFFICES ASSUME ConnInv, TurnInv, ReplyTypeOK, [Next]_vars PROVE ReplyTypeOK'
    OBVIOUS
  <1>1. CASE UNCHANGED <<seen, delivered>>
    BY <1>1 DEF ReplyTypeOK
  <1>2. ASSUME NEW s, NEW shape, ConnectAccepted(s, shape) PROVE ReplyTypeOK'
    BY <1>2, DrainSeen DEF ConnectAccepted, ReplyTypeOK
  <1>3. Destroy \/ UNCHANGED vars => UNCHANGED <<seen, delivered>>
    BY DEF Destroy, vars, turnVars
  <1>4. CASE /\ ConnectionNext /\ ~Destroy
              /\ \A s \in Sockets, shape \in Shapes : ~ConnectAccepted(s, shape)
    BY <1>1, <1>4, UsableOnlyByConnect DEF turnVars
  <1> QED BY <1>1, <1>2, <1>3, <1>4, ReplyStep DEF Next, ConnectionNext

(* Every variable has its type, in every reachable state. *)
THEOREM TypeCorrect == Spec => []TypeOK
  <1>1. Init => ReplyTypeOK
    BY DEF Init, ReplyTypeOK
  <1>2. ConnInv /\ TurnInv /\ ReplyTypeOK => TypeOK
    BY DEF ConnInv, ConnTypeOK, Flags, TurnInv, TurnTypeOK, ReplyTypeOK, TypeOK
  <1> QED BY <1>1, <1>2, ReplyNext, ConnectionInvariant, TurnInvariant, PTL DEF Spec

-----------------------------------------------------------------------------
(* The deduper.  WindowInv says of each turn sent how many replies it may have got,
   one less than it could have had as soon as its run is remembered. *)

RunKey(t) == <<"run", t>>

(* ShownOncePerSend of what has been sent and shown, and of the keys remembered. *)
Window(out, keys, shown) ==
  /\ keys \in Seq({"run"} \X Turns) /\ shown \in [Turns -> Nat]
  /\ \A i, j \in DOMAIN keys : keys[i] = keys[j] => i = j
  /\ Len(keys) <= MaxEntries
  /\ \A i \in DOMAIN keys : keys[i][2] \in Range(out)
  /\ \A t \in Turns \ Range(out) : shown[t] = 0
  /\ Len(out) <= MaxEntries =>
       \A i \in DOMAIN out :
         /\ shown[out[i]] <= Len(out) - i + 1
         /\ RunKey(out[i]) \notin Range(keys) => shown[out[i]] <= Len(out) - i

(* Only a turn that was sent can have been rejected. *)
RejectedWereSent(out, fb) ==
  \A c \in fb : c.why = "rejected" => c.turn \in Range(out)

WindowInv == Window(sent, seen, delivered) /\ RejectedWereSent(sent, calls)

(* No more runs are remembered than turns were sent. *)
LEMMA NoMoreKeysThanSent ==
  ASSUME NEW out \in Seq(Turns), NEW keys \in Seq({"run"} \X Turns),
         \A i, j \in DOMAIN keys : keys[i] = keys[j] => i = j,
         \A i \in DOMAIN keys : keys[i][2] \in Range(out)
  PROVE  Len(keys) <= Len(out)
  <1> DEFINE n == Len(keys)
             m == Len(out)
             f == [i \in 1..n |-> CHOOSE k \in 1..m : out[k] = keys[i][2]]
  <1>1. n \in Nat /\ m \in Nat /\ DOMAIN keys = 1..n /\ DOMAIN out = 1..m
    OBVIOUS
  <1>2. \A i \in DOMAIN keys : keys[i] = RunKey(keys[i][2])
    <2>1. \A i \in DOMAIN keys : keys[i] \in {"run"} \X Turns
      OBVIOUS
    <2> QED BY <2>1 DEF RunKey
  <1>3. \A i \in 1..n : \E k \in 1..m : out[k] = keys[i][2]
    BY <1>1 DEF Range
  <1>4. \A i \in 1..n : f[i] \in 1..m /\ out[f[i]] = keys[i][2]
    BY <1>3
  <1>5. f \in Injection(1..n, 1..m)
    <2>1. f \in [1..n -> 1..m]
      BY <1>4
    <2>2. ASSUME NEW i \in 1..n, NEW j \in 1..n, f[i] = f[j] PROVE i = j
      <3>1. keys[i][2] = keys[j][2]
        BY <1>4, <2>2
      <3>2. keys[i] = keys[j]
        BY <1>1, <1>2, <3>1
      <3> QED BY <1>1, <3>2
    <2> QED BY <2>1, <2>2 DEF Injection, IsInjective
  <1> HIDE DEF f, n, m
  <1>6. IsFiniteSet(1..n) /\ Cardinality(1..n) = n /\ IsFiniteSet(1..m) /\ Cardinality(1..m) = m
    <2>1. ASSUME NEW k \in Nat PROVE IsFiniteSet(1..k) /\ Cardinality(1..k) = k
      <3>1. k \in Int /\ 1 \in Int
        OBVIOUS
      <3>2. IsFiniteSet(1..k) /\ Cardinality(1..k) = IF 1 > k THEN 0 ELSE k - 1 + 1
        BY <3>1, FS_Interval
      <3> QED BY <3>2
    <2> QED BY <1>1, <2>1
  <1>7. Cardinality(1..n) <= Cardinality(1..m)
    BY <1>5, <1>6, FS_Injection
  <1> QED BY <1>6, <1>7 DEF n, m

(* A new turn is sent: the deduper starts anew, and each older run may be shown once
   more. *)
LEMMA SendOpensWindow ==
  ASSUME NEW out \in Seq(Turns), NEW keys, NEW shown, Window(out, keys, shown),
         NEW h \in Turns, h \notin Range(out)
  PROVE  Window(Append(out, h), <<>>, shown)
  <1> DEFINE new == Append(out, h)
             n == Len(out)
  <1>1. /\ new \in Seq(Turns) /\ DOMAIN new = 1..(n + 1) /\ n \in Nat /\ DOMAIN out = 1..n
        /\ \A i \in DOMAIN out : new[i] = out[i]
        /\ new[n + 1] = h /\ Len(new) = n + 1
    BY AppendElements
  <1>2. shown \in [Turns -> Nat] /\ \A t \in Turns \ Range(out) : shown[t] = 0
    BY DEF Window
  <1>3. Range(out) \subseteq Range(new) /\ \A i \in DOMAIN out : out[i] \in Turns
    BY <1>1 DEF Range
  <1> HIDE DEF new
  <1>4. ASSUME Len(new) <= MaxEntries, NEW i \in DOMAIN new
        PROVE  shown[new[i]] <= Len(new) - i
    <2>1. CASE i = n + 1
      BY <1>1, <1>2, <2>1
    <2>2. CASE i # n + 1
      <3>1. i \in DOMAIN out /\ i \in Nat /\ new[i] = out[i] /\ n <= MaxEntries
        BY <1>1, <1>4, <2>2, MaxEntriesIsNat
      <3>2. shown[out[i]] <= n - i + 1
        BY <3>1 DEF Window
      <3> QED BY <1>1, <3>1, <3>2
    <2> QED BY <2>1, <2>2
  <1>5. ASSUME Len(new) <= MaxEntries, NEW i \in DOMAIN new
        PROVE  shown[new[i]] <= Len(new) - i + 1
    <2>1. shown[new[i]] <= Len(new) - i /\ Len(new) - i \in Int
      BY <1>1, <1>4, <1>5
    <2>2. new[i] \in Turns
      BY <1>1, <1>5
    <2> QED BY <1>2, <2>1, <2>2
  <1>6. <<>> \in Seq({"run"} \X Turns) /\ DOMAIN <<>> = {} /\ Len(<<>>) = 0
    OBVIOUS
  <1>7. Len(<<>>) <= MaxEntries
    BY <1>6, MaxEntriesIsNat
  <1> QED BY <1>2, <1>3, <1>4, <1>5, <1>6, <1>7 DEF Window, new

(* A reply of a run that is not remembered: it is shown, or comes after stop and is
   only remembered. *)
LEMMA ShowKeepsWindow ==
  ASSUME NEW out \in Seq(Turns), \A i, j \in DOMAIN out : i < j => out[i] < out[j],
         NEW keys, NEW shown, Window(out, keys, shown),
         NEW t \in Turns, t \in Range(out), RunKey(t) \notin Range(keys),
         NEW now, now = shown \/ now = [shown EXCEPT ![t] = @ + 1]
  PROVE  Window(out, Evict(Append(keys, RunKey(t))), now)
  <1> DEFINE K == {"run"} \X Turns
             new == Append(keys, RunKey(t))
             n == Len(keys)
             left == Evict(new)
  <1>1. /\ keys \in Seq(K) /\ shown \in [Turns -> Nat]
        /\ \A i, j \in DOMAIN keys : keys[i] = keys[j] => i = j
        /\ n <= MaxEntries
        /\ \A i \in DOMAIN keys : keys[i][2] \in Range(out)
        /\ \A u \in Turns \ Range(out) : shown[u] = 0
    BY DEF Window
  <1>2. RunKey(t) \in K /\ RunKey(t)[2] = t
    BY DEF RunKey
  <1>3. /\ new \in Seq(K) /\ DOMAIN new = 1..(n + 1) /\ n \in Nat /\ DOMAIN keys = 1..n
        /\ \A i \in DOMAIN keys : new[i] = keys[i]
        /\ new[n + 1] = RunKey(t) /\ Len(new) = n + 1 /\ new # <<>>
    <2> HIDE DEF K
    <2> QED BY <1>1, <1>2, AppendElements
  <1>4. \A i \in DOMAIN keys : keys[i] # RunKey(t)
    BY DEF Range
  <1> HIDE DEF new, n
  <1>5. \A i \in DOMAIN new : new[i][2] \in Range(out)
    <2>1. ASSUME NEW i \in DOMAIN new PROVE new[i][2] \in Range(out)
      <3>1. CASE i = n + 1
        BY <1>2, <1>3, <3>1
      <3>2. CASE i # n + 1
        <4>1. i \in DOMAIN keys /\ new[i] = keys[i]
          BY <1>3, <3>2
        <4> QED BY <1>1, <4>1
      <3> QED BY <3>1, <3>2
    <2> QED BY <2>1
  <1>6. ASSUME NEW i \in DOMAIN new, NEW j \in DOMAIN new, new[i] = new[j] PROVE i = j
    <2>1. CASE i = n + 1 \/ j = n + 1
      <3>1. \A k \in DOMAIN new : k = n + 1 \/ (k \in DOMAIN keys /\ new[k] = keys[k])
        BY <1>3
      <3> QED BY <1>3, <1>4, <1>6, <2>1, <3>1
    <2>2. CASE i # n + 1 /\ j # n + 1
      <3>1. i \in DOMAIN keys /\ j \in DOMAIN keys /\ new[i] = keys[i] /\ new[j] = keys[j]
        BY <1>3, <2>2
      <3> QED BY <1>1, <1>6, <3>1
    <2> QED BY <2>1, <2>2
  <1>7. n + 1 <= Len(out)
    <2>1. Len(new) <= Len(out)
      BY <1>3, <1>5, <1>6, NoMoreKeysThanSent
    <2> QED BY <1>3, <2>1
  <1>8. /\ left \in Seq(K) /\ Len(left) <= MaxEntries
        /\ \A i \in DOMAIN left : left[i][2] \in Range(out)
        /\ \A i, j \in DOMAIN left : left[i] = left[j] => i = j
    <2>1. CASE n + 1 > MaxEntries
      <3>1. left = Tail(new)
        BY <1>3, <2>1 DEF Evict
      <3>2. /\ Tail(new) \in Seq(K)
            /\ \A i \in DOMAIN Tail(new) : i + 1 \in DOMAIN new /\ Tail(new)[i] = new[i + 1] /\ i \in Nat /\ i >= 1
        BY <1>3, TailElements
      <3>3. Len(Tail(new)) = n
        BY <1>3
      <3>4. \A i, j \in DOMAIN Tail(new) : Tail(new)[i] = Tail(new)[j] => i = j
        BY <1>6, <3>2
      <3> HIDE DEF left
      <3> QED BY <1>1, <1>5, <3>1, <3>2, <3>3, <3>4
    <2>2. CASE ~(n + 1 > MaxEntries)
      <3>1. left = new /\ n + 1 <= MaxEntries
        BY <1>3, <2>2, MaxEntriesIsNat DEF Evict
      <3> HIDE DEF left
      <3> QED BY <1>3, <1>5, <1>6, <3>1
    <2> QED BY <2>1, <2>2
  <1>9. now \in [Turns -> Nat] /\ \A u \in Turns \ Range(out) : now[u] = 0
    <2>1. CASE now = shown
      BY <1>1, <2>1
    <2>2. CASE now = [shown EXCEPT ![t] = @ + 1]
      <3>1. \A u \in Turns : shown[u] \in Nat /\ shown[u] + 1 \in Nat
        BY <1>1
      <3>2. now \in [Turns -> Nat]
        BY <1>1, <2>2, <3>1
      <3>3. \A u \in Turns : u # t => now[u] = shown[u]
        BY <1>1, <2>2
      <3> QED BY <1>1, <3>2, <3>3
    <2> QED BY <2>1, <2>2
  <1>10. ASSUME Len(out) <= MaxEntries, NEW i \in DOMAIN out
         PROVE  /\ now[out[i]] <= Len(out) - i + 1
                /\ RunKey(out[i]) \notin Range(left) => now[out[i]] <= Len(out) - i
    <2>1. left = new
      <3>1. Len(out) \in Nat
        OBVIOUS
      <3> QED BY <1>3, <1>7, <1>10, <3>1, MaxEntriesIsNat DEF Evict
    <2>2. /\ out[i] \in Turns /\ i \in Nat /\ Len(out) \in Nat
          /\ shown[out[i]] <= Len(out) - i + 1
          /\ RunKey(out[i]) \notin Range(keys) => shown[out[i]] <= Len(out) - i
      BY <1>10 DEF Window
    <2>3. Range(keys) \subseteq Range(new) /\ RunKey(t) \in Range(new)
      BY <1>3 DEF Range
    <2> HIDE DEF left
    <2>4. CASE out[i] = t
      <3>1. shown[t] \in Nat /\ shown[t] <= Len(out) - i
        BY <1>1, <2>2, <2>4
      <3>2. now[t] <= shown[t] + 1 /\ now[t] \in Nat
        BY <1>1, <1>9, <3>1
      <3> QED BY <2>1, <2>2, <2>3, <2>4, <3>1, <3>2
    <2>5. CASE out[i] # t
      <3>1. now[out[i]] = shown[out[i]]
        BY <1>1, <2>2, <2>5
      <3> QED BY <2>1, <2>2, <2>3, <2>5, <3>1
    <2> QED BY <2>4, <2>5
  <1> HIDE DEF left
  <1>11. left \in Seq({"run"} \X Turns)
    BY <1>8
  <1>12. Window(out, left, now)
    BY <1>8, <1>9, <1>10, <1>11 DEF Window
  <1> QED BY <1>12 DEF left, new

(* What _drainQueue does to the window: nothing, or a turn sent opens a new one. *)
LEMMA DrainWindow ==
  ASSUME sent \in Seq(Turns), NEW q \in Seq(Turns), NEW busy, NEW can, NEW pend, NEW arm, NEW fb,
         NEW keys, InOrder(sent, q), Window(sent, keys, delivered'), RejectedWereSent(sent, fb),
         Drain(q, busy, can, pend, arm, fb, keys)
  PROVE  WindowInv'
  <1>1. CASE sent' = sent /\ seen' = keys /\ calls' = fb
    BY <1>1 DEF WindowInv, Window, RejectedWereSent
  <1>2. CASE /\ sent' = sent /\ seen' = keys
             /\ calls' = fb \cup {[turn |-> Head(q), why |-> "offline"]}
    <2>1. \A c \in calls' : c \in fb \/ c.why # "rejected"
      BY <1>2
    <2>2. RejectedWereSent(sent', calls')
      BY <1>2, <2>1 DEF RejectedWereSent
    <2>3. Window(sent', seen', delivered')
      BY <1>2
    <2> QED BY <2>2, <2>3 DEF WindowInv, Window, RejectedWereSent
  <1>3. CASE q # <<>> /\ sent' = Append(sent, Head(q)) /\ seen' = <<>> /\ calls' = fb
    <2>1. Head(q) \in Turns /\ Head(q) = q[1] /\ 1 \in DOMAIN q
      BY <1>3, TailElements
    <2>2. Head(q) \notin Range(sent)
      <3>1. \A i \in DOMAIN sent : sent[i] < q[1] /\ sent[i] \in Nat /\ q[1] \in Nat
        BY <2>1, TurnsAreNumbers DEF InOrder
      <3>2. \A i \in DOMAIN sent : sent[i] # q[1]
        BY <3>1
      <3> QED BY <2>1, <3>2 DEF Range
    <2>3. Window(sent', seen', delivered')
      BY <1>3, <2>1, <2>2, SendOpensWindow
    <2>4. Range(sent) \subseteq Range(sent')
      <3>1. /\ DOMAIN sent' = 1..(Len(sent) + 1)
            /\ \A i \in DOMAIN sent : sent'[i] = sent[i]
            /\ DOMAIN sent = 1..Len(sent) /\ Len(sent) \in Nat
        BY <1>3, <2>1, AppendElements
      <3> QED BY <3>1 DEF Range
    <2>5. RejectedWereSent(sent', calls')
      BY <1>3, <2>4 DEF RejectedWereSent
    <2> QED BY <2>3, <2>5 DEF WindowInv, Window, RejectedWereSent
  <1>4. \/ sent' = sent /\ seen' = keys /\ calls' = fb
        \/ /\ sent' = sent /\ seen' = keys
           /\ calls' = fb \cup {[turn |-> Head(q), why |-> "offline"]}
        \/ q # <<>> /\ sent' = Append(sent, Head(q)) /\ seen' = <<>> /\ calls' = fb
    BY DEF Drain, KeepQueue, StartTurn
  <1> QED BY <1>1, <1>2, <1>3, <1>4

(* A frame of a run that was sent, shown to the phone or not. *)
LEMMA FrameKeepsWindow ==
  ASSUME TurnInv, WindowInv, NEW t \in Range(sent), NEW kind \in Kinds,
         Forward(t, FrameOf(kind, t, t)) \/ UNCHANGED delivered
  PROVE  Window(sent, After(FrameOf(kind, t, t), seen), delivered')
  <1> DEFINE f == FrameOf(kind, t, t)
  <1>1. t \in Turns
    BY DEF TurnInv, TurnTypeOK, Range
  <1>2. DedupKey(f) = RunKey(t)
    BY <1>1, KeyIsRun DEF RunKey
  <1>3. /\ sent \in Seq(Turns) /\ \A i, j \in DOMAIN sent : i < j => sent[i] < sent[j]
    BY DEF TurnInv, TurnTypeOK, InOrder
  <1>4. Forward(t, f) \/ UNCHANGED delivered
    OBVIOUS
  <1> HIDE DEF f
  <1>5. CASE Delivers(f, seen)
    <2>1. RunKey(t) \notin Range(seen) /\ After(f, seen) = Evict(Append(seen, RunKey(t)))
      BY <1>2, <1>5 DEF Delivers, After
    <2>2. delivered' = delivered \/ delivered' = [delivered EXCEPT ![t] = @ + 1]
      BY <1>4 DEF Forward
    <2>3. Window(sent, seen, delivered)
      BY DEF WindowInv
    <2> DEFINE now == delivered'
    <2>4. now = delivered \/ now = [delivered EXCEPT ![t] = @ + 1]
      BY <2>2
    <2> HIDE DEF now
    <2>5. Window(sent, Evict(Append(seen, RunKey(t))), now)
      BY <1>1, <1>3, <2>1, <2>3, <2>4, ShowKeepsWindow
    <2> QED BY <2>1, <2>5 DEF now, f
  <1>6. CASE ~Delivers(f, seen)
    <2>1. After(f, seen) = seen /\ delivered' = delivered
      BY <1>4, <1>6 DEF After, Forward
    <2>2. Window(sent, seen, delivered)
      BY DEF WindowInv
    <2>3. Window(sent, seen, delivered')
      BY <2>1, <2>2
    <2> QED BY <2>1, <2>3 DEF f
  <1> QED BY <1>5, <1>6

(* The promise of a turn resolves, with the frame that did it taken in before. *)
LEMMA SettleWindow ==
  ASSUME TurnInv, WindowInv, NEW t, NEW keys, Window(sent, keys, delivered'), Settle(t, keys)
  PROVE  WindowInv'
  <1>1. queue \in Seq(Turns) /\ sent \in Seq(Turns) /\ InOrder(sent, queue)
    BY DEF TurnInv, TurnTypeOK
  <1> DEFINE fb == {c \in calls : c.turn # t}
  <1>2. RejectedWereSent(sent, fb)
    BY DEF WindowInv, RejectedWereSent
  <1>3. Drain(queue, FALSE, CanSendGateway, pending \ {t}, armed \ {t}, fb, keys)
    BY DEF Settle
  <1> HIDE DEF fb
  <1> QED BY <1>1, <1>2, <1>3, DrainWindow

(* The steps of the turns keep the window. *)
LEMMA WindowStep == TurnInv /\ WindowInv /\ TurnNext => WindowInv'
  <1> SUFFICES ASSUME TurnInv, WindowInv, TurnNext PROVE WindowInv'
    OBVIOUS
  <1>1. /\ queue \in Seq(Turns) /\ sent \in Seq(Turns) /\ pending \subseteq Range(sent)
        /\ Window(sent, seen, delivered) /\ RejectedWereSent(sent, calls)
    BY DEF TurnInv, TurnTypeOK, WindowInv
  <1>2. UNCHANGED delivered => Window(sent, seen, delivered')
    BY <1>1
  <1>3. CASE EnqueueAgentTurn
    <2>1. Append(queue, enqueued + 1) \in Seq(Turns) /\ InOrder(sent, Append(queue, enqueued + 1))
      BY <1>3, EnqueuedInOrder
    <2>2. /\ UNCHANGED delivered
          /\ Drain(Append(queue, enqueued + 1), inFlight, CanSendGateway, pending, armed, calls, seen)
      BY <1>3 DEF EnqueueAgentTurn
    <2> QED BY <1>1, <1>2, <2>1, <2>2, DrainWindow
  <1>4. ASSUME NEW t \in Range(sent), NEW f \in Frames(t), TurnResponse(t, f)
        PROVE  WindowInv'
    <2>1. PICK kind \in Kinds : f = FrameOf(kind, t, t)
      BY KindsAreKnown DEF Frames
    <2>2. Forward(t, f) /\ Settle(t, After(f, seen))
      BY <1>4 DEF TurnResponse
    <2>3. Window(sent, After(f, seen), delivered')
      BY <2>1, <2>2, FrameKeepsWindow
    <2> QED BY <2>2, <2>3, SettleWindow
  <1>5. ASSUME NEW t \in Range(sent), NEW f \in Frames(t), OtherFrame(t, f)
        PROVE  WindowInv'
    <2>1. PICK kind \in Kinds : f = FrameOf(kind, t, t)
      BY KindsAreKnown DEF Frames
    <2>2. Forward(t, f) /\ seen' = After(f, seen) /\ UNCHANGED <<sent, calls>>
      BY <1>5 DEF OtherFrame
    <2>3. Window(sent, After(f, seen), delivered')
      BY <2>1, <2>2, FrameKeepsWindow
    <2> QED BY <1>1, <2>2, <2>3 DEF WindowInv, Window, RejectedWereSent
  <1>6. ASSUME NEW t, NEW f, TurnRejected(t, f) PROVE WindowInv'
    <2>1. /\ UNCHANGED <<sent, seen, delivered>> /\ t \in Range(sent)
          /\ calls' = calls \cup {[turn |-> t, why |-> "rejected"]}
      BY <1>1, <1>6 DEF TurnRejected, IsTurnResponse
    <2>2. RejectedWereSent(sent, calls')
      BY <1>1, <2>1 DEF RejectedWereSent
    <2> QED BY <1>1, <2>1, <2>2 DEF WindowInv, Window, RejectedWereSent
  <1>7. ASSUME NEW t, TurnTimeout(t) PROVE WindowInv'
    BY <1>2, <1>7, SettleWindow DEF TurnTimeout
  <1>8. ASSUME NEW c \in calls, FallbackEnds(c) PROVE WindowInv'
    <2> DEFINE f == FrameOf("error", c.turn, c.turn)
    <2>1. CASE Settle(c.turn, seen) /\ UNCHANGED delivered
      BY <1>2, <2>1, SettleWindow
    <2>2. CASE c.why = "rejected" /\ Forward(c.turn, f) /\ Settle(c.turn, After(f, seen))
      <3>1. c.turn \in Range(sent) /\ "error" \in Kinds
        BY <1>1, <2>2 DEF RejectedWereSent, Kinds
      <3>2. Window(sent, After(f, seen), delivered')
        BY <2>2, <3>1, FrameKeepsWindow
      <3> HIDE DEF f
      <3> QED BY <2>2, <3>2, SettleWindow
    <2> QED BY <1>8, <2>1, <2>2 DEF FallbackEnds
  <1> QED BY <1>3, <1>4, <1>5, <1>6, <1>7, <1>8 DEF TurnNext

LEMMA ConnectAcceptedWindow ==
  ASSUME TurnInv, WindowInv, NEW s, NEW shape, ConnectAccepted(s, shape)
  PROVE  WindowInv'
  <1>1. /\ queue \in Seq(Turns) /\ sent \in Seq(Turns) /\ InOrder(sent, queue)
        /\ Window(sent, seen, delivered) /\ RejectedWereSent(sent, calls)
    BY DEF TurnInv, TurnTypeOK, WindowInv
  <1>2. /\ Drain(queue, inFlight, IsOpen, pending, armed, calls, seen)
        /\ UNCHANGED delivered
    BY DEF ConnectAccepted
  <1>3. Window(sent, seen, delivered')
    BY <1>1, <1>2
  <1> QED BY <1>1, <1>2, <1>3, DrainWindow

LEMMA WindowLeftAlone ==
  ASSUME WindowInv, UNCHANGED <<sent, seen, delivered, calls>>
  PROVE  WindowInv'
  BY DEF WindowInv, Window, RejectedWereSent

LEMMA WindowInit == Init => WindowInv
  <1> SUFFICES ASSUME Init PROVE WindowInv
    OBVIOUS
  <1>1. /\ sent = <<>> /\ seen = <<>> /\ calls = {} /\ delivered = [t \in Turns |-> 0]
    BY DEF Init
  <1>2. /\ seen \in Seq({"run"} \X Turns) /\ DOMAIN seen = {} /\ Len(seen) = 0 /\ DOMAIN sent = {}
    BY <1>1
  <1>3. delivered \in [Turns -> Nat] /\ \A t \in Turns : delivered[t] = 0
    BY <1>1
  <1>4. Window(sent, seen, delivered)
    BY <1>2, <1>3, MaxEntriesIsNat DEF Window
  <1> QED BY <1>1, <1>4 DEF WindowInv, RejectedWereSent

LEMMA WindowShows == WindowInv => ShownOncePerSend
  BY DEF WindowInv, Window, ShownOncePerSend

LEMMA WindowNext == ConnInv /\ TurnInv /\ WindowInv /\ [Next]_vars => WindowInv'
  <1> SUFFICES ASSUME ConnInv, TurnInv, WindowInv, [Next]_vars PROVE WindowInv'
    OBVIOUS
  <1>1. Destroy \/ UNCHANGED vars => UNCHANGED <<sent, seen, delivered, calls>>
    BY DEF Destroy, vars, turnVars
  <1>2. CASE /\ ConnectionNext /\ ~Destroy
             /\ \A s \in Sockets, shape \in Shapes : ~ConnectAccepted(s, shape)
    BY <1>2, UsableOnlyByConnect, WindowLeftAlone DEF turnVars
  <1>3. ASSUME NEW s, NEW shape, ConnectAccepted(s, shape) PROVE WindowInv'
    BY <1>3, ConnectAcceptedWindow
  <1> QED BY <1>1, <1>2, <1>3, WindowStep, WindowLeftAlone DEF Next

(* A run's reply reaches the phone at most once for each turn sent from its own on:
   repeated, late and rejected answers included, only a new turn opens the deduper. *)
THEOREM RunShownOncePerSend == Spec => []ShownOncePerSend
  BY WindowInit, WindowNext, WindowShows, ConnectionInvariant, TurnInvariant, PTL DEF Spec

-----------------------------------------------------------------------------
(* 3. The bridge *)

(* The bridge's connection after stop: a socket that is closing, on which a connect
   may still be answered, and nothing else. *)
StoppedInv ==
  /\ ConnTypeOK
  /\ OneSocket
  /\ ws = None /\ ~reconnectTimer /\ ~challengeTimer
  /\ \A s \in Sockets : sock[s] \in {"none", "closing"}
  /\ \A s \in Sockets : Outstanding(s) <= 1

(* The keepalive runs exactly while the bridge is connected. *)
Watched ==
  /\ pinging \in BOOLEAN /\ awaiting \in BOOLEAN
  /\ pinging <=> connected /\ ws # None
  /\ awaiting => pinging

BridgeConnInv ==
  /\ destroyed => StoppedInv
  /\ ~destroyed => ConnInv
  /\ Watched

-----------------------------------------------------------------------------
(* After stop *)

(* An answered connect on a socket that is closing is one less outstanding. *)
LEMMA StoppedTakesConnect ==
  ASSUME StoppedInv, NEW s \in Sockets, NEW shape \in Shapes, connects[s][shape] > 0,
         connects' = TakeConnect(s, shape), connected' \in BOOLEAN,
         connectSent' \in BOOLEAN,
         UNCHANGED <<sock, ws, started, connecting, waits, reconnectTimer,
                     challengeTimer, destroyed>>
  PROVE  StoppedInv'
  <1>1. connects \in [Sockets -> [Shapes -> Nat]]
    BY DEF StoppedInv, ConnTypeOK
  <1>2. connects[s][shape] - 1 \in Nat
    BY <1>1
  <1>3. connects' \in [Sockets -> [Shapes -> Nat]]
    BY <1>1, <1>2 DEF TakeConnect
  <1>4. \A r \in Sockets, h \in Shapes :
          connects'[r][h] = IF r = s /\ h = shape THEN connects[r][h] - 1 ELSE connects[r][h]
    BY <1>1 DEF TakeConnect
  <1>5. \A r \in Sockets : Outstanding(r)' <= 1
    BY <1>1, <1>4 DEF StoppedInv, Outstanding, Shapes
  <1>6. Flags'
    BY DEF StoppedInv, ConnTypeOK, Flags
  <1>7. ConnTypeOK'
    BY <1>3, <1>6 DEF StoppedInv, ConnTypeOK
  <1> QED BY <1>5, <1>7 DEF StoppedInv, OneSocket, Live

(* The last close event, whatever socket it is of. *)
LEMMA StoppedCloses ==
  ASSUME StoppedInv, destroyed, NEW s \in Sockets, SocketCloses(s)
  PROVE  StoppedInv'
  <1>1. /\ sock' = [sock EXCEPT ![s] = "none"]
        /\ connects' = [connects EXCEPT ![s] = NoConnects]
        /\ connecting' = FALSE /\ connected' = FALSE /\ challengeTimer' = FALSE
        /\ connectSent' = FALSE /\ ws' = None
        /\ UNCHANGED <<started, waits, destroyed, reconnectTimer>>
    BY DEF SocketCloses, ScheduleReconnect
  <1>2. Flags'
    BY <1>1 DEF StoppedInv, ConnTypeOK, Flags
  <1>3. connects \in [Sockets -> [Shapes -> Nat]] /\ NoConnects \in [Shapes -> Nat]
    BY DEF StoppedInv, ConnTypeOK, NoConnects
  <1>4. ConnTypeOK'
    BY <1>1, <1>2, <1>3 DEF StoppedInv, ConnTypeOK
  <1>5. \A r \in Sockets : sock'[r] = IF r = s THEN "none" ELSE sock[r]
    BY <1>1 DEF StoppedInv, ConnTypeOK
  <1>6. \A r \in Sockets : Outstanding(r)' <= 1
    BY <1>1, <1>3 DEF StoppedInv, Outstanding, NoConnects, Shapes
  <1>7. OneSocket'
    BY <1>1, <1>5 DEF StoppedInv, OneSocket, Live
  <1> QED BY <1>1, <1>4, <1>5, <1>6, <1>7 DEF StoppedInv

(* A wait that comes to its end, and a challenge, find nothing to do. *)
LEMMA StoppedIgnores ==
  ASSUME StoppedInv,
         UNCHANGED <<sock, ws, started, reconnectTimer, connectSent, connects, connected,
                     destroyed>>,
         waits' \in Nat, connecting' \in BOOLEAN,
         challengeTimer' = FALSE \/ UNCHANGED challengeTimer
  PROVE  StoppedInv'
  <1>1. Flags'
    BY DEF StoppedInv, ConnTypeOK, Flags
  <1>2. ConnTypeOK'
    BY <1>1 DEF StoppedInv, ConnTypeOK
  <1>3. OneSocket' /\ \A s \in Sockets : Outstanding(s)' <= 1
    BY DEF StoppedInv, OneSocket, Live, Outstanding
  <1> QED BY <1>2, <1>3 DEF StoppedInv

LEMMA StoppedStep ==
  ASSUME StoppedInv, Watched, destroyed, BridgeNext
  PROVE  StoppedInv' /\ destroyed'
  <1>1. ~IsOpen /\ waits \in Nat
    BY DEF StoppedInv, IsOpen, ConnTypeOK
  <1>2. ~awaiting /\ ~pinging
    BY DEF StoppedInv, Watched
  <1>3. connecting \in BOOLEAN /\ connectSent \in BOOLEAN /\ connected \in BOOLEAN
    BY DEF StoppedInv, ConnTypeOK, Flags
  <1>4. ~(Start \/ OpenGatewayFails \/ ReconnectTimer \/ GatewayChallengeTimeout \/ PongTimeout \/ Stop)
    BY <1>2 DEF StoppedInv, Start, OpenGatewayFails, OpenSocketFails, ReconnectTimer, ReconnectFires,
       GatewayChallengeTimeout, ChallengeTimeout, PongTimeout, Stop
  <1>5. \A s \in Sockets : ~OpenGateway(s) /\ ~GatewayOpens(s)
    BY DEF StoppedInv, OpenGateway, OpenSocket, GatewayOpens, SocketOpens
  <1>6. CASE ConnectWaitFails \/ ConnectWaitEndsDestroyed
    <2>1. /\ UNCHANGED <<sock, ws, started, reconnectTimer, challengeTimer, connectSent,
                         connects, connected, destroyed>>
          /\ waits > 0 /\ waits' = waits - 1 /\ connecting' = FALSE
      BY <1>6 DEF ConnectWaitFails, WaitFails, ConnectWaitEndsDestroyed, WaitEndsDestroyed,
         ScheduleReconnect
    <2>2. waits' \in Nat
      BY <1>1, <2>1
    <2>3. connecting' \in BOOLEAN
      BY <2>1
    <2> QED BY <2>1, <2>2, <2>3, StoppedIgnores
  <1>7. ASSUME NEW s \in Sockets, GatewayCloses(s) PROVE StoppedInv' /\ destroyed'
    BY <1>7, StoppedCloses DEF GatewayCloses, SocketCloses
  <1>8. ASSUME NEW s \in Sockets, GatewayChallenge(s) \/ GatewayChallengeNoNonce(s)
        PROVE  StoppedInv' /\ destroyed'
    <2>1. /\ UNCHANGED <<sock, ws, started, connecting, waits, reconnectTimer, connectSent,
                         connects, connected, destroyed>>
          /\ challengeTimer' = FALSE \/ UNCHANGED challengeTimer
      BY <1>1, <1>8 DEF StoppedInv, GatewayChallenge, ChallengeArrives, SendConnect, GatewayChallengeNoNonce,
         ChallengeWithoutNonce, CloseSocket
    <2> QED BY <1>1, <1>3, <2>1, StoppedIgnores
  <1>9. ASSUME NEW s \in Sockets, NEW shape \in Shapes,
               \/ GatewayAccepts(s, shape) \/ GatewayDenies(s, shape)
               \/ GatewayRejects(s, shape) \/ GatewayAsksForDevice(s, shape)
        PROVE  StoppedInv' /\ destroyed'
    <2>1. /\ connects[s][shape] > 0 /\ connects' = TakeConnect(s, shape)
          /\ UNCHANGED <<ws, started, connecting, waits, challengeTimer, destroyed>>
      BY <1>1, <1>9 DEF GatewayAccepts, ConnectAccepted, GatewayDenies, ConnectRefused,
         GatewayRejects, GatewayAsksForDevice, ConnectChallenged
    <2>2. UNCHANGED <<sock, reconnectTimer>>
      BY <1>9 DEF StoppedInv, GatewayAccepts, ConnectAccepted, GatewayDenies, ConnectRefused,
         GatewayRejects, CloseSocket, ScheduleReconnect, GatewayAsksForDevice,
         ConnectChallenged
    <2>3. connected' = TRUE \/ connected' = connected
      BY <1>9 DEF GatewayAccepts, ConnectAccepted, GatewayDenies, ConnectRefused,
         GatewayRejects, GatewayAsksForDevice, ConnectChallenged
    <2>4. connectSent' = IsOpen \/ connectSent' = connectSent
      BY <1>9 DEF GatewayAccepts, ConnectAccepted, GatewayDenies, ConnectRefused,
         GatewayRejects, GatewayAsksForDevice, ConnectChallenged
    <2>5. IsOpen \in BOOLEAN
      BY DEF IsOpen
    <2>6. connected' \in BOOLEAN /\ connectSent' \in BOOLEAN
      BY <1>3, <2>3, <2>4, <2>5
    <2> QED BY <2>1, <2>2, <2>6, StoppedTakesConnect
  <1>10. CASE UNCHANGED connVars
    BY <1>1, <1>3, <1>10, StoppedIgnores DEF connVars
  <1>11. KeepalivePing \/ (\E s \in Sockets : Pong(s)) => UNCHANGED connVars
    BY DEF KeepalivePing, Pong, vars
  <1>12. PhoneMessage => UNCHANGED connVars
    BY DEF PhoneMessage, EnqueueAgentTurn
  <1>13. ASSUME NEW t, NEW f,
                \/ AgentResponse(t, f) \/ AgentRefuses(t, f) \/ AgentFrame(t, f)
                \/ LateFrame(t, f)
         PROVE  UNCHANGED connVars
    BY <1>13 DEF AgentResponse, TurnResponse, AgentRefuses, TurnRejected, AgentFrame,
       OtherFrame, LateFrame
  <1>14. ASSUME NEW c, AgentTimeout(c) \/ ProviderEnds(c) \/ LateProviderEnds(c)
         PROVE  UNCHANGED connVars
    BY <1>14 DEF AgentTimeout, TurnTimeout, ProviderEnds, FallbackEnds, LateProviderEnds
  <1> QED BY <1>4, <1>5, <1>6, <1>7, <1>8, <1>9, <1>10, <1>11, <1>12, <1>13, <1>14
          DEF BridgeNext

-----------------------------------------------------------------------------
(* Before stop *)

(* The steps the bridge takes that the client does not. *)
OwnStep ==
  \/ PongTimeout
  \/ Stop
  \/ \E s \in Sockets, shape \in Shapes : GatewayRejects(s, shape)

(* Every other step of a running bridge is one of the client's. *)
LEMMA ActsAsClient ==
  ASSUME ~destroyed, BridgeNext, ~OwnStep
  PROVE  [Next /\ ~Destroy]_vars
  <1>1. CASE Start \/ ConnectWaitFails \/ ConnectWaitEndsDestroyed \/ OpenGatewayFails
             \/ ReconnectTimer \/ GatewayChallengeTimeout
    <2>1. \/ EnsureConnected \/ WaitFails \/ WaitEndsDestroyed \/ OpenSocketFails
          \/ ReconnectFires \/ ChallengeTimeout
      BY <1>1 DEF Start, ConnectWaitFails, ConnectWaitEndsDestroyed, OpenGatewayFails,
         ReconnectTimer, GatewayChallengeTimeout
    <2>2. ~Destroy
      BY <2>1 DEF EnsureConnected, WaitFails, WaitEndsDestroyed, OpenSocketFails, ReconnectFires,
         ChallengeTimeout, Destroy
    <2> QED BY <2>1, <2>2 DEF Next, ConnectionNext
  <1>2. ASSUME NEW s \in Sockets,
               \/ OpenGateway(s) \/ GatewayOpens(s) \/ GatewayCloses(s)
               \/ GatewayChallenge(s) \/ GatewayChallengeNoNonce(s)
        PROVE  Next /\ ~Destroy
    <2>1. \/ OpenSocket(s) \/ SocketOpens(s) \/ SocketCloses(s)
          \/ ChallengeArrives(s) \/ ChallengeWithoutNonce(s)
      BY <1>2 DEF OpenGateway, GatewayOpens, GatewayCloses, GatewayChallenge,
         GatewayChallengeNoNonce
    <2>2. ~Destroy
      BY <2>1 DEF OpenSocket, SocketOpens, SocketCloses, ChallengeArrives,
         ChallengeWithoutNonce, Destroy
    <2> QED BY <2>1, <2>2 DEF Next, ConnectionNext
  <1>3. ASSUME NEW s \in Sockets, NEW shape \in Shapes,
               \/ GatewayAccepts(s, shape) \/ GatewayDenies(s, shape)
               \/ GatewayAsksForDevice(s, shape)
        PROVE  Next /\ ~Destroy
    <2>1. ConnectAccepted(s, shape) \/ ConnectRefused(s, shape) \/ ConnectChallenged(s, shape)
      BY <1>3 DEF GatewayAccepts, GatewayDenies, GatewayAsksForDevice
    <2>2. ~Destroy
      BY <2>1 DEF ConnectAccepted, ConnectRefused, ConnectChallenged, Destroy
    <2> QED BY <2>1, <2>2 DEF Next, ConnectionNext
  <1>4. ASSUME NEW s \in Sockets, KeepalivePing \/ Pong(s)
        PROVE  UNCHANGED vars
    BY <1>4 DEF KeepalivePing, Pong
  <1>5. KeepalivePing => UNCHANGED vars
    BY DEF KeepalivePing
  <1>6. TurnNext => ~Destroy
    BY DEF TurnNext, EnqueueAgentTurn, TurnResponse, TurnRejected, OtherFrame, TurnTimeout,
       FallbackEnds, connVars, Destroy
  <1>7. PhoneMessage => TurnNext
    BY DEF PhoneMessage, TurnNext
  <1>8. ASSUME NEW t \in Range(sent), NEW f \in Frames(t),
               \/ AgentResponse(t, f) \/ AgentRefuses(t, f) \/ AgentFrame(t, f)
               \/ LateFrame(t, f)
        PROVE  TurnNext
    BY <1>8 DEF AgentResponse, AgentRefuses, AgentFrame, LateFrame, TurnNext
  <1>9. ASSUME NEW t \in armed, AgentTimeout(t)
        PROVE  TurnNext
    BY <1>9 DEF AgentTimeout, TurnNext
  <1>10. ASSUME NEW c \in calls, ProviderEnds(c) \/ LateProviderEnds(c)
         PROVE  TurnNext
    BY <1>10 DEF ProviderEnds, LateProviderEnds, TurnNext
  <1> QED BY <1>1, <1>2, <1>3, <1>4, <1>5, <1>6, <1>7, <1>8, <1>9, <1>10
          DEF BridgeNext, OwnStep, Next

(* A refused connect: the socket is closed, and a reconnect set as well. *)
LEMMA GatewayRejectsKeeps ==
  ASSUME ConnInv, NEW s \in Sockets, NEW shape \in Shapes, GatewayRejects(s, shape)
  PROVE  ConnInv'
  <1>1. /\ Receiving(s) /\ connects[s][shape] > 0
        /\ connects' = TakeConnect(s, shape) /\ CloseSocket /\ ScheduleReconnect
        /\ UNCHANGED <<ws, started, connecting, waits, challengeTimer, connectSent,
                       connected, destroyed>>
    BY DEF GatewayRejects
  <1>2. /\ ws = s
        /\ connects \in [Sockets -> [Shapes -> Nat]]
        /\ connects' \in [Sockets -> [Shapes -> Nat]]
        /\ \A r \in Sockets, h \in Shapes :
              connects'[r][h] = IF r = s /\ h = shape THEN connects[r][h] - 1 ELSE connects[r][h]
    BY <1>1, AnsweredConnect
  <1>3. \A r \in Sockets : Outstanding(r)' <= Outstanding(r)
    BY <1>2 DEF Outstanding, Shapes
  <1>4. challengeTimer' \in BOOLEAN
    BY <1>1 DEF ConnInv, ConnTypeOK, Flags
  <1>5. sock[ws] \in {"open", "closing"}
    BY <1>1, <1>2 DEF Receiving
  <1> QED BY <1>1, <1>2, <1>3, <1>4, <1>5, CloseKeeps

(* The keepalive runs only while connected, so it finds a socket that was open. *)
LEMMA PongTimeoutKeeps ==
  ASSUME ConnInv, Watched, PongTimeout
  PROVE  ConnInv'
  <1>1. /\ awaiting
        /\ IF fresh THEN UNCHANGED sock ELSE CloseSocket
        /\ UNCHANGED <<ws, started, connecting, waits, reconnectTimer, challengeTimer,
                       connectSent, connects, connected, destroyed, turnVars>>
    BY DEF PongTimeout
  <1>2. CASE fresh
    <2>1. UNCHANGED vars
      BY <1>1, <1>2 DEF vars, connVars, turnVars
    <2> QED BY <2>1, ConnNext
  <1>3. CASE ~fresh
    <2>1. CloseSocket
      BY <1>1, <1>3
    <2>2. sock[ws] \in {"open", "closing"}
      BY <1>1 DEF Watched, ConnInv, HandshakeState, Receiving
    <2>3. \A r \in Sockets : Outstanding(r)' <= Outstanding(r)
      BY <1>1, OutstandingNat DEF ConnInv, Outstanding
    <2>4. connects' \in [Sockets -> [Shapes -> Nat]] /\ challengeTimer' \in BOOLEAN
      BY <1>1 DEF ConnInv, ConnTypeOK, Flags
    <2> QED BY <1>1, <2>1, <2>2, <2>3, <2>4, CloseKeeps
  <1> QED BY <1>2, <1>3

(* stop leaves at most one socket, which is closing. *)
LEMMA StopStops ==
  ASSUME ConnInv, Stop
  PROVE  StoppedInv' /\ destroyed'
  <1>1. /\ destroyed' /\ ~destroyed /\ challengeTimer' = FALSE /\ connectSent' = FALSE
        /\ reconnectTimer' = FALSE /\ ws' = None /\ connected' = FALSE
        /\ sock' = IF ws # None THEN [sock EXCEPT ![ws] = "closing"] ELSE sock
        /\ UNCHANGED <<started, connecting, waits, connects>>
    BY DEF Stop, CloseSocket
  <1>2. destroyed' = TRUE
    BY DEF Stop
  <1>3. /\ sock \in [Sockets -> {"none", "connecting", "open", "closing"}]
        /\ ws \in Sockets \cup {None}
        /\ \A s \in Sockets : Live(s) <=> ws = s
    BY <1>1 DEF ConnInv, ConnTypeOK, OneSocket
  <1>4. \A s \in Sockets : sock'[s] = IF s = ws THEN "closing" ELSE "none"
    BY <1>1, <1>3, NoneIsNoSocket DEF Live
  <1>5. Flags'
    BY <1>1, <1>2 DEF ConnInv, ConnTypeOK, Flags
  <1>6. ConnTypeOK'
    <2>1. sock' \in [Sockets -> {"none", "connecting", "open", "closing"}]
      BY <1>1, <1>3
    <2>2. waits' \in Nat /\ connects' \in [Sockets -> [Shapes -> Nat]]
      BY <1>1 DEF ConnInv, ConnTypeOK
    <2> QED BY <1>1, <1>5, <2>1, <2>2 DEF ConnTypeOK
  <1>7. OneSocket'
    BY <1>1, <1>4 DEF OneSocket, Live
  <1>8. \A s \in Sockets : Outstanding(s)' <= 1
    BY <1>1 DEF ConnInv, HandshakeState, Outstanding
  <1> QED BY <1>1, <1>4, <1>6, <1>7, <1>8 DEF StoppedInv

(* The connection's invariant, before stop and after. *)
LEMMA ConnectionStep ==
  ASSUME BridgeConnInv, BridgeNext
  PROVE  (destroyed' => StoppedInv') /\ (~destroyed' => ConnInv')
  <1>1. CASE destroyed
    BY <1>1, StoppedStep DEF BridgeConnInv
  <1>2. CASE Stop
    BY <1>2, StopStops DEF BridgeConnInv, Stop
  <1>3. CASE ~destroyed /\ PongTimeout
    BY <1>3, PongTimeoutKeeps DEF BridgeConnInv, PongTimeout
  <1>4. ASSUME ~destroyed, NEW s \in Sockets, NEW shape \in Shapes, GatewayRejects(s, shape)
        PROVE  ConnInv' /\ ~destroyed'
    BY <1>4, GatewayRejectsKeeps DEF BridgeConnInv, GatewayRejects
  <1>5. CASE ~destroyed /\ ~OwnStep
    <2>1. [Next]_vars /\ ConnInv
      BY <1>5, ActsAsClient DEF BridgeConnInv
    <2>2. UNCHANGED destroyed
      <3>1. UNCHANGED vars \/ TurnNext \/ (ConnectionNext /\ ~Destroy)
        BY <1>5, ActsAsClient DEF Next
      <3>2. UNCHANGED vars \/ TurnNext => UNCHANGED connVars
        BY DEF vars, TurnNext, EnqueueAgentTurn, TurnResponse, TurnRejected, OtherFrame,
           TurnTimeout, FallbackEnds
      <3> QED BY <3>1, <3>2
              DEF connVars, ConnectionNext, EnsureConnected, WaitFails, WaitEndsDestroyed,
              OpenSocketFails, ReconnectFires, ChallengeTimeout, OpenSocket, SocketOpens,
              SocketCloses, ChallengeArrives, ChallengeWithoutNonce, ConnectAccepted,
              ConnectRefused, ConnectChallenged
    <2> QED BY <1>5, <2>1, <2>2, ConnNext
  <1> QED BY <1>1, <1>2, <1>3, <1>4, <1>5 DEF OwnStep

(* Every step that touches the connection keeps its keepalive with it. *)
LEMMA WatchedStep ==
  ASSUME BridgeConnInv, BridgeNext
  PROVE  Watched'
  <1>1. pinging \in BOOLEAN /\ awaiting \in BOOLEAN /\ (pinging <=> connected /\ ws # None)
        /\ (awaiting => pinging)
    BY DEF BridgeConnInv, Watched
  <1>2. CASE UNCHANGED <<pinging, awaiting, connected, ws>>
    BY <1>1, <1>2 DEF Watched
  <1>3. CASE \/ Start \/ ConnectWaitFails \/ ConnectWaitEndsDestroyed \/ OpenGatewayFails
             \/ ReconnectTimer \/ GatewayChallengeTimeout \/ PhoneMessage
    BY <1>2, <1>3
    DEF Start, EnsureConnected, ConnectWaitFails, WaitFails, ConnectWaitEndsDestroyed,
        WaitEndsDestroyed, OpenGatewayFails, OpenSocketFails, ReconnectTimer, ReconnectFires,
        GatewayChallengeTimeout, ChallengeTimeout, PhoneMessage, EnqueueAgentTurn, connVars,
        keepalive
  <1>4. CASE KeepalivePing
    BY <1>1, <1>4 DEF KeepalivePing, vars, connVars, Watched
  <1>5. CASE PongTimeout
    BY <1>1, <1>5 DEF PongTimeout, Watched
  <1>6. CASE Stop
    BY <1>6 DEF Stop, StopGatewayKeepalive, Watched
  <1>7. ASSUME NEW s \in Sockets, OpenGateway(s)
        PROVE  Watched'
    <2>1. ~connected
      BY <1>7, NoneIsNoSocket
      DEF BridgeConnInv, ConnInv, ConnTypeOK, OneAttempt, HandshakeState, OneSocket, Live,
          Receiving, OpenGateway, OpenSocket
    <2> QED BY <1>1, <1>7, <2>1 DEF OpenGateway, OpenSocket, keepalive, Watched
  <1>8. ASSUME NEW s \in Sockets, GatewayOpens(s)
        PROVE  Watched'
    BY <1>2, <1>8 DEF GatewayOpens, SocketOpens, keepalive
  <1>9. ASSUME NEW s \in Sockets, GatewayCloses(s)
        PROVE  Watched'
    BY <1>9 DEF GatewayCloses, SocketCloses, StopGatewayKeepalive, Watched
  <1>10. ASSUME NEW s \in Sockets, GatewayChallenge(s) \/ GatewayChallengeNoNonce(s)
         PROVE  Watched'
    BY <1>2, <1>10 DEF GatewayChallenge, ChallengeArrives, GatewayChallengeNoNonce,
       ChallengeWithoutNonce, keepalive
  <1>11. ASSUME NEW s \in Sockets, Pong(s)
         PROVE  Watched'
    BY <1>1, <1>11 DEF Pong, vars, connVars, Watched
  <1>12. ASSUME NEW s \in Sockets, NEW shape \in Shapes, GatewayAccepts(s, shape)
         PROVE  Watched'
    <2>1. /\ pinging' = (ws # None) /\ awaiting' = FALSE /\ connected' = TRUE /\ ws' = ws
      BY <1>12 DEF GatewayAccepts, ConnectAccepted, StartGatewayKeepalive
    <2> QED BY <2>1 DEF Watched
  <1>13. ASSUME NEW s \in Sockets, NEW shape \in Shapes,
                \/ GatewayDenies(s, shape) \/ GatewayRejects(s, shape)
                \/ GatewayAsksForDevice(s, shape)
         PROVE  Watched'
    BY <1>2, <1>13 DEF GatewayDenies, ConnectRefused, GatewayRejects, GatewayAsksForDevice,
       ConnectChallenged, keepalive
  <1>14. ASSUME NEW t, NEW f,
                \/ AgentResponse(t, f) \/ AgentRefuses(t, f) \/ AgentFrame(t, f)
                \/ LateFrame(t, f)
         PROVE  Watched'
    BY <1>2, <1>14 DEF AgentResponse, TurnResponse, AgentRefuses, TurnRejected, AgentFrame,
       OtherFrame, LateFrame, connVars, keepalive
  <1>15. ASSUME NEW c, AgentTimeout(c) \/ ProviderEnds(c) \/ LateProviderEnds(c)
         PROVE  Watched'
    BY <1>2, <1>15 DEF AgentTimeout, TurnTimeout, ProviderEnds, FallbackEnds,
       LateProviderEnds, connVars, keepalive
  <1> QED BY <1>3, <1>4, <1>5, <1>6, <1>7, <1>8, <1>9, <1>10, <1>11, <1>12, <1>13, <1>14,
             <1>15 DEF BridgeNext

LEMMA BridgeConnNext == BridgeConnInv /\ [BridgeNext]_bridgeVars => BridgeConnInv'
  <1> SUFFICES ASSUME BridgeConnInv, [BridgeNext]_bridgeVars PROVE BridgeConnInv'
    OBVIOUS
  <1>1. CASE BridgeNext
    BY <1>1, ConnectionStep, WatchedStep DEF BridgeConnInv
  <1>2. CASE UNCHANGED bridgeVars
    <2>1. UNCHANGED vars /\ UNCHANGED connVars /\ UNCHANGED <<pinging, awaiting>>
      BY <1>2 DEF bridgeVars, keepalive, vars
    <2>2. ~destroyed => ConnInv'
      BY <2>1, ConnNext DEF BridgeConnInv
    <2>3. destroyed => StoppedInv'
      <3>1. UNCHANGED <<sock, ws, started, connecting, waits, reconnectTimer, challengeTimer,
                        connectSent, connects, connected, destroyed>>
        BY <2>1 DEF connVars
      <3> QED BY <3>1, StoppedIgnores DEF BridgeConnInv, StoppedInv, ConnTypeOK, Flags
    <2>4. Watched'
      BY <2>1 DEF connVars, BridgeConnInv, Watched
    <2> QED BY <2>1, <2>2, <2>3, <2>4 DEF connVars, BridgeConnInv
  <1> QED BY <1>1, <1>2

-----------------------------------------------------------------------------
(* The turns *)

(* Where a turn is settled after stop. *)
LateStep ==
  \/ \E t \in Range(sent) : \E f \in Frames(t) : LateFrame(t, f)
  \/ \E c \in calls : LateProviderEnds(c)

(* What a step of the bridge is to the turns: one of the client's, a late one, an
   accepted connect, or nothing that could make the gateway usable. *)
LEMMA StepOfTurns ==
  ASSUME BridgeConnInv, BridgeNext
  PROVE  \/ UNCHANGED turnVars /\ (CanSendGateway' => CanSendGateway)
         \/ TurnNext
         \/ \E s \in Sockets, shape \in Shapes : ConnectAccepted(s, shape)
         \/ LateStep
  <1>1. CASE destroyed
    <2>1. ~CanSendGateway'
      BY <1>1, StoppedStep DEF BridgeConnInv, StoppedInv, CanSendGateway, IsOpen
    <2>2. CASE \/ Start \/ ConnectWaitFails \/ ConnectWaitEndsDestroyed \/ OpenGatewayFails
               \/ ReconnectTimer \/ GatewayChallengeTimeout \/ KeepalivePing \/ PongTimeout
               \/ Stop
      BY <2>1, <2>2
      DEF Start, EnsureConnected, ConnectWaitFails, WaitFails, ConnectWaitEndsDestroyed,
          WaitEndsDestroyed, OpenGatewayFails, OpenSocketFails, ReconnectTimer, ReconnectFires,
          GatewayChallengeTimeout, ChallengeTimeout, KeepalivePing, PongTimeout, Stop, vars
    <2>3. ASSUME NEW s \in Sockets,
                 \/ OpenGateway(s) \/ GatewayOpens(s) \/ GatewayCloses(s)
                 \/ GatewayChallenge(s) \/ GatewayChallengeNoNonce(s) \/ Pong(s)
          PROVE  UNCHANGED turnVars
      BY <2>3
      DEF OpenGateway, OpenSocket, GatewayOpens, SocketOpens, GatewayCloses, SocketCloses,
          GatewayChallenge, ChallengeArrives, GatewayChallengeNoNonce, ChallengeWithoutNonce,
          Pong, vars
    <2>4. ASSUME NEW s \in Sockets, NEW shape \in Shapes,
                 \/ GatewayDenies(s, shape) \/ GatewayRejects(s, shape)
                 \/ GatewayAsksForDevice(s, shape)
          PROVE  UNCHANGED turnVars
      BY <2>4 DEF GatewayDenies, ConnectRefused, GatewayRejects, GatewayAsksForDevice,
         ConnectChallenged
    <2>5. ASSUME NEW s \in Sockets, NEW shape \in Shapes, GatewayAccepts(s, shape)
          PROVE  ConnectAccepted(s, shape)
      BY <2>5 DEF GatewayAccepts
    <2>6. PhoneMessage => TurnNext
      BY DEF PhoneMessage, TurnNext
    <2>7. ASSUME NEW t \in Range(sent), NEW f \in Frames(t),
                 \/ AgentResponse(t, f) \/ AgentRefuses(t, f) \/ AgentFrame(t, f)
                 \/ LateFrame(t, f)
          PROVE  TurnNext \/ LateStep
      BY <2>7 DEF AgentResponse, AgentRefuses, AgentFrame, LateStep, TurnNext
    <2>8. ASSUME NEW t \in armed, AgentTimeout(t)
          PROVE  TurnNext
      BY <2>8 DEF AgentTimeout, TurnNext
    <2>9. ASSUME NEW c \in calls, ProviderEnds(c) \/ LateProviderEnds(c)
          PROVE  TurnNext \/ LateStep
      BY <2>9 DEF ProviderEnds, LateStep, TurnNext
    <2> QED BY <2>1, <2>2, <2>3, <2>4, <2>5, <2>6, <2>7, <2>8, <2>9 DEF BridgeNext
  <1>2. CASE ~destroyed /\ OwnStep
    <2>1. UNCHANGED turnVars
      BY <1>2 DEF OwnStep, PongTimeout, Stop, GatewayRejects
    <2>2. CASE Stop
      BY <2>1, <2>2 DEF Stop, CanSendGateway
    <2>3. CASE ~Stop
      <3>1. UNCHANGED <<ws, connected>> /\ (CloseSocket \/ UNCHANGED sock)
        BY <1>2, <2>3 DEF OwnStep, PongTimeout, GatewayRejects
      <3>2. sock \in [Sockets -> {"none", "connecting", "open", "closing"}] /\ ws \in Sockets \cup {None}
        BY <1>2 DEF BridgeConnInv, ConnInv, ConnTypeOK
      <3> QED BY <2>1, <3>1, <3>2 DEF CanSendGateway, IsOpen, CloseSocket
    <2> QED BY <2>2, <2>3
  <1>3. CASE ~destroyed /\ ~OwnStep
    <2>1. [Next /\ ~Destroy]_vars /\ ConnInv
      BY <1>3, ActsAsClient DEF BridgeConnInv
    <2>2. CASE UNCHANGED vars
      <3>1. UNCHANGED turnVars /\ UNCHANGED connVars
        BY <2>2 DEF vars
      <3> QED BY <3>1 DEF connVars, CanSendGateway, IsOpen
    <2>3. CASE ConnectionNext /\ ~Destroy
      BY <2>1, <2>3, UsableOnlyByConnect
    <2> QED BY <2>1, <2>2, <2>3 DEF Next
  <1> QED BY <1>1, <1>2, <1>3

LEMMA LateStepKeeps ==
  ASSUME TurnInv, LateStep
  PROVE  TurnInv'
  <1>1. ASSUME NEW t \in Range(sent), NEW f \in Frames(t), LateFrame(t, f)
        PROVE  TurnInv'
    <2> DEFINE keys == After(f, seen)
    <2>1. CASE IsTurnResponse(t, f)
      <3>1. t \in InProgress
        BY <2>1 DEF IsTurnResponse, TurnInv, AtMostOne, InProgress
      <3>2. Settle(t, keys) /\ UNCHANGED <<connVars, enqueued>> /\ UNCHANGED acked
        BY <1>1, <2>1 DEF LateFrame
      <3> HIDE DEF keys
      <3> QED BY <3>1, <3>2, SettleStep
    <2>2. CASE ~IsTurnResponse(t, f)
      <3>1. UNCHANGED <<connVars, enqueued, queue, inFlight, pending, armed, calls, sent, acked>>
        BY <1>1, <2>2 DEF LateFrame, KeepQueue
      <3>2. (CanSendGateway' => CanSendGateway) /\ UNCHANGED setup
        BY <3>1 DEF connVars, CanSendGateway, IsOpen
      <3> QED BY <3>1, <3>2, TurnsLeftAlone
    <2> QED BY <2>1, <2>2
  <1>2. ASSUME NEW c \in calls, LateProviderEnds(c)
        PROVE  TurnInv'
    <2> DEFINE t == c.turn
    <2>1. t \in InProgress
      BY DEF InProgress
    <2>2. PICK keys : Settle(t, keys)
      BY <1>2 DEF LateProviderEnds
    <2>3. UNCHANGED <<connVars, enqueued>> /\ UNCHANGED acked
      BY <1>2 DEF LateProviderEnds
    <2> HIDE DEF t
    <2> QED BY <2>1, <2>2, <2>3, SettleStep
  <1> QED BY <1>1, <1>2 DEF LateStep

LEMMA LateStepMaps ==
  ASSUME TurnInv, LateStep
  PROVE  Abstract!Next \/ UNCHANGED Abstract!vars
  <1>1. ASSUME NEW t \in Range(sent), NEW f \in Frames(t), LateFrame(t, f)
        PROVE  Abstract!Next \/ UNCHANGED Abstract!vars
    <2>1. CASE IsTurnResponse(t, f)
      <3>1. t \in InProgress
        BY <2>1 DEF IsTurnResponse, TurnInv, AtMostOne, InProgress
      <3>2. Settle(t, After(f, seen)) /\ UNCHANGED enqueued
        BY <1>1, <2>1 DEF LateFrame
      <3> QED BY <3>1, <3>2, SettleMaps DEF Abstract!Next
    <2>2. CASE ~IsTurnResponse(t, f)
      BY <1>1, <2>2 DEF LateFrame, KeepQueue, Abstract!vars, InProgress
    <2> QED BY <2>1, <2>2
  <1>2. ASSUME NEW c \in calls, LateProviderEnds(c)
        PROVE  Abstract!Next
    <2>1. c.turn \in InProgress
      BY DEF InProgress
    <2>2. PICK keys : Settle(c.turn, keys)
      BY <1>2 DEF LateProviderEnds
    <2>3. UNCHANGED enqueued
      BY <1>2 DEF LateProviderEnds
    <2> QED BY <2>1, <2>2, <2>3, SettleMaps DEF Abstract!Next
  <1> QED BY <1>1, <1>2 DEF LateStep

LEMMA LateStepTypes ==
  ASSUME TurnInv, ReplyTypeOK, LateStep
  PROVE  ReplyTypeOK'
  <1> DEFINE K == {"run"} \X Turns
  <1>1. seen \in Seq(K) /\ delivered \in [Turns -> Nat]
    BY DEF ReplyTypeOK
  <1>2. ASSUME NEW t \in Range(sent), NEW f \in Frames(t), LateFrame(t, f)
        PROVE  ReplyTypeOK'
    <2>1. t \in Turns
      BY DEF TurnInv, TurnTypeOK, Range
    <2>2. PICK kind \in Kinds : f = FrameOf(kind, t, t)
      BY KindsAreKnown DEF Frames
    <2>3. After(f, seen) \in Seq(K)
      BY <1>1, <2>1, <2>2, SeenAfter
    <2>4. UNCHANGED delivered
      BY <1>2 DEF LateFrame
    <2>5. seen' \in Seq(K)
      BY <1>2, <2>3, DrainSeen DEF LateFrame, KeepQueue, Settle
    <2> QED BY <1>1, <2>4, <2>5 DEF ReplyTypeOK
  <1>3. ASSUME NEW c \in calls, LateProviderEnds(c)
        PROVE  ReplyTypeOK'
    <2>1. c.turn \in Turns /\ "error" \in Kinds
      BY DEF TurnInv, TurnTypeOK, CallTypes, Kinds
    <2> DEFINE keys == IF c.why = "rejected"
                       THEN After(FrameOf("error", c.turn, c.turn), seen) ELSE seen
    <2>2. keys \in Seq(K)
      BY <1>1, <2>1, SeenAfter
    <2>3. Settle(c.turn, keys) /\ UNCHANGED delivered
      BY <1>3 DEF LateProviderEnds
    <2> HIDE DEF keys
    <2>4. seen' \in Seq(K)
      BY <2>2, <2>3, DrainSeen DEF Settle
    <2> QED BY <1>1, <2>3, <2>4 DEF ReplyTypeOK
  <1> QED BY <1>2, <1>3 DEF LateStep

-----------------------------------------------------------------------------
BridgeIInv ==
  /\ BridgeConnInv
  /\ TurnInv
  /\ ReplyTypeOK

LEMMA BridgeStarts == BridgeInit => BridgeIInv
  <1> SUFFICES ASSUME BridgeInit PROVE BridgeIInv
    OBVIOUS
  <1>1. Init /\ ~destroyed
    BY DEF BridgeInit, Init
  <1>2. Watched
    BY DEF BridgeInit, Init, Watched
  <1>3. ReplyTypeOK
    BY <1>1 DEF Init, ReplyTypeOK
  <1> QED BY <1>1, <1>2, <1>3, ConnInit, TurnInit DEF BridgeIInv, BridgeConnInv

LEMMA BridgeStep == BridgeIInv /\ [BridgeNext]_bridgeVars => BridgeIInv'
  <1> SUFFICES ASSUME BridgeIInv, [BridgeNext]_bridgeVars PROVE BridgeIInv'
    OBVIOUS
  <1>1. BridgeConnInv /\ TurnInv /\ ReplyTypeOK /\ BridgeConnInv'
    BY BridgeConnNext DEF BridgeIInv
  <1>2. CASE UNCHANGED turnVars /\ (CanSendGateway' => CanSendGateway)
    <2>1. TurnInv'
      BY <1>1, <1>2, TurnsLeftAlone DEF turnVars
    <2>2. ReplyTypeOK'
      BY <1>1, <1>2 DEF turnVars, ReplyTypeOK
    <2> QED BY <1>1, <2>1, <2>2 DEF BridgeIInv
  <1>3. CASE TurnNext
    BY <1>1, <1>3, TurnStep, ReplyStep DEF BridgeIInv
  <1>4. ASSUME NEW s \in Sockets, NEW shape \in Shapes, ConnectAccepted(s, shape)
        PROVE  BridgeIInv'
    <2>1. ReplyTypeOK'
      BY <1>1, <1>4, DrainSeen DEF ConnectAccepted, ReplyTypeOK
    <2> QED BY <1>1, <1>4, <2>1, ConnectAcceptedDrains DEF BridgeIInv
  <1>5. CASE LateStep
    BY <1>1, <1>5, LateStepKeeps, LateStepTypes DEF BridgeIInv
  <1>6. CASE UNCHANGED bridgeVars
    <2>1. UNCHANGED turnVars /\ UNCHANGED connVars
      BY <1>6 DEF bridgeVars, vars
    <2> QED BY <1>2, <2>1 DEF connVars, CanSendGateway, IsOpen
  <1> QED BY <1>1, <1>2, <1>3, <1>4, <1>5, <1>6, StepOfTurns

(* BridgeIInv holds in every reachable state. *)
THEOREM BridgeInvariant == BridgeSpec => []BridgeIInv
  BY BridgeStarts, BridgeStep, PTL DEF BridgeSpec

(* One socket, never stranded, a handshake with a next step and a keepalive exactly
   while connected, although _connectGateway does not look at gatewayWs. *)
THEOREM BridgeIsSound == BridgeSpec => []BridgeInv
  <1>1. BridgeIInv => BridgeInv
    <2> SUFFICES ASSUME BridgeIInv PROVE BridgeInv
      OBVIOUS
    <2>1. ConnTypeOK /\ OneSocket
      BY DEF BridgeIInv, BridgeConnInv, StoppedInv, ConnInv
    <2>2. TypeOK
      BY <2>1 DEF ConnTypeOK, Flags, BridgeIInv, TurnInv, TurnTypeOK, ReplyTypeOK, TypeOK
    <2>3. NeverStrandedOffline
      BY DEF BridgeIInv, BridgeConnInv, ConnInv, NeverStrandedOffline
    <2>4. HandshakeHasNext
      BY DEF BridgeIInv, BridgeConnInv, StoppedInv, ConnInv, HandshakeState, HandshakeHasNext
    <2>5. (pinging <=> connected /\ ws # None) /\ (awaiting => pinging)
      BY DEF BridgeIInv, BridgeConnInv, Watched
    <2> QED BY <2>1, <2>2, <2>3, <2>4, <2>5 DEF BridgeInv
  <1> QED BY <1>1, BridgeInvariant, PTL

(* stop is final for the connection, whatever still comes in. *)
THEOREM QuietAfterStop == BridgeSpec => []StopIsQuiet
  <1>1. BridgeIInv => StopIsQuiet
    BY DEF BridgeIInv, BridgeConnInv, StoppedInv, Watched, StopIsQuiet
  <1> QED BY <1>1, BridgeInvariant, PTL

(* The bridge keeps the promise of the turn queue, after stop too. *)
THEOREM BridgeImplements == BridgeSpec => BridgeImplementsTurnQueue
  <1>1. BridgeInit => Abstract!Init
    BY AbstractInit DEF BridgeInit
  <1>2. BridgeIInv /\ [BridgeNext]_bridgeVars => [Abstract!Next]_Abstract!vars
    <2> SUFFICES ASSUME BridgeIInv, [BridgeNext]_bridgeVars
                 PROVE  Abstract!Next \/ UNCHANGED Abstract!vars
      BY DEF Abstract!vars
    <2>1. BridgeConnInv /\ TurnInv
      BY DEF BridgeIInv
    <2>2. CASE UNCHANGED turnVars
      BY <2>2 DEF turnVars, Abstract!vars, InProgress
    <2>3. CASE TurnNext
      BY <2>1, <2>3, TurnNextMaps
    <2>4. ASSUME NEW s \in Sockets, NEW shape \in Shapes, ConnectAccepted(s, shape)
          PROVE  Abstract!Next \/ UNCHANGED Abstract!vars
      BY <2>1, <2>4, ConnectAcceptedMaps DEF Abstract!Next
    <2>5. CASE LateStep
      BY <2>1, <2>5, LateStepMaps
    <2>6. CASE UNCHANGED bridgeVars
      BY <2>2, <2>6 DEF bridgeVars, vars
    <2> QED BY <2>1, <2>2, <2>3, <2>4, <2>5, <2>6, StepOfTurns
  <1> QED BY <1>1, <1>2, BridgeInvariant, PTL
          DEF BridgeSpec, BridgeImplementsTurnQueue, Abstract!Spec

(* After stop runs are still remembered, but shown to nobody. *)
LEMMA LateStepWindow ==
  ASSUME TurnInv, WindowInv, LateStep
  PROVE  WindowInv'
  <1>1. Window(sent, seen, delivered) /\ RejectedWereSent(sent, calls)
    BY DEF WindowInv
  <1>2. ASSUME NEW t \in Range(sent), NEW f \in Frames(t), LateFrame(t, f)
        PROVE  WindowInv'
    <2>1. PICK kind \in Kinds : f = FrameOf(kind, t, t)
      BY KindsAreKnown DEF Frames
    <2>2. UNCHANGED delivered
      BY <1>2 DEF LateFrame
    <2>3. Window(sent, After(f, seen), delivered')
      BY <2>1, <2>2, FrameKeepsWindow
    <2>4. CASE Settle(t, After(f, seen))
      BY <2>3, <2>4, SettleWindow
    <2>5. CASE KeepQueue(queue, inFlight, pending, armed, calls, After(f, seen))
      BY <1>1, <2>3, <2>5 DEF KeepQueue, WindowInv, Window, RejectedWereSent
    <2> QED BY <1>2, <2>4, <2>5 DEF LateFrame
  <1>3. ASSUME NEW c \in calls, LateProviderEnds(c)
        PROVE  WindowInv'
    <2> DEFINE f == FrameOf("error", c.turn, c.turn)
    <2>1. UNCHANGED delivered
      BY <1>3 DEF LateProviderEnds
    <2>2. CASE c.why = "rejected" /\ Settle(c.turn, After(f, seen))
      <3>1. c.turn \in Range(sent) /\ "error" \in Kinds
        BY <1>1, <2>2 DEF RejectedWereSent, Kinds
      <3>2. Window(sent, After(f, seen), delivered')
        BY <2>1, <3>1, FrameKeepsWindow
      <3> HIDE DEF f
      <3> QED BY <2>2, <3>2, SettleWindow
    <2>3. CASE Settle(c.turn, seen)
      <3>1. Window(sent, seen, delivered')
        BY <1>1, <2>1
      <3> QED BY <2>3, <3>1, SettleWindow
    <2> QED BY <1>3, <2>2, <2>3 DEF LateProviderEnds
  <1> QED BY <1>2, <1>3 DEF LateStep

LEMMA BridgeWindowNext == BridgeIInv /\ WindowInv /\ [BridgeNext]_bridgeVars => WindowInv'
  <1> SUFFICES ASSUME BridgeIInv, WindowInv, [BridgeNext]_bridgeVars PROVE WindowInv'
    OBVIOUS
  <1>1. BridgeConnInv /\ TurnInv
    BY DEF BridgeIInv
  <1>2. CASE UNCHANGED turnVars
    BY <1>2, WindowLeftAlone DEF turnVars
  <1>3. CASE TurnNext
    BY <1>1, <1>3, WindowStep
  <1>4. ASSUME NEW s \in Sockets, NEW shape \in Shapes, ConnectAccepted(s, shape)
        PROVE  WindowInv'
    BY <1>1, <1>4, ConnectAcceptedWindow
  <1>5. CASE LateStep
    BY <1>1, <1>5, LateStepWindow
  <1>6. UNCHANGED bridgeVars => UNCHANGED turnVars
    BY DEF bridgeVars, vars
  <1> QED BY <1>1, <1>2, <1>3, <1>4, <1>5, <1>6, StepOfTurns

(* The bridge's copy of the deduper gives the phone a run's reply at most once for
   each turn sent from its own on, over a stop and what comes in after it. *)
THEOREM BridgeShowsOncePerSend == BridgeSpec => []ShownOncePerSend
  <1>1. BridgeInit => WindowInv
    BY WindowInit DEF BridgeInit
  <1> QED BY <1>1, BridgeWindowNext, WindowShows, BridgeInvariant, PTL DEF BridgeSpec

(* maxEntries of the deduper holds, and its _seen and _order agree: no key is in the
   order twice, so that an eviction really forgets it. *)
DeduperBounded == Len(seen) <= MaxEntries /\ IsInjective(seen)

(* The deduper keeps to its bound in the client and in the bridge, whatever the
   gateway repeats. *)
THEOREM DeduperIsBounded == (Spec => []DeduperBounded) /\ (BridgeSpec => []DeduperBounded)
  <1>1. WindowInv => DeduperBounded
    BY DEF WindowInv, Window, DeduperBounded, IsInjective
  <1>2. BridgeInit => WindowInv
    BY WindowInit DEF BridgeInit
  <1>3. Spec => []WindowInv
    BY WindowInit, WindowNext, ConnectionInvariant, TurnInvariant, PTL DEF Spec
  <1>4. BridgeSpec => []WindowInv
    BY <1>2, BridgeWindowNext, BridgeInvariant, PTL DEF BridgeSpec
  <1> QED BY <1>1, <1>3, <1>4, PTL

-----------------------------------------------------------------------------
(* 4. After the end *)

(* What no step of a destroyed client does: come back, start another attempt, open a
   socket, send a turn or acknowledge one.  A reply may still be passed on. *)
EndIsFinal ==
  destroyed =>
    /\ destroyed'
    /\ waits' <= waits
    /\ \A s \in Sockets : sock'[s] \in {sock[s], "none"}
    /\ UNCHANGED <<sent, acked>>

(* destroy forgets the pending requests, and none is made after it. *)
NothingPendingAfterEnd == destroyed => pending = {}

(* Without a usable gateway _drainQueue sends nothing and adds no request. *)
LEMMA DrainOffline ==
  ASSUME NEW q, NEW busy, NEW pend, NEW arm, NEW fb, NEW keys, NEW can, ~can,
         Drain(q, busy, can, pend, arm, fb, keys)
  PROVE  sent' = sent /\ pending' = pend
  BY DEF Drain, KeepQueue, StartTurn

LEMMA EndInit == Init => NothingPendingAfterEnd
  BY DEF Init, NothingPendingAfterEnd

(* The turns of a client that cannot use the gateway any more. *)
LEMMA OfflineTurnStep ==
  ASSUME ~CanSendGateway, TurnNext
  PROVE  /\ UNCHANGED <<sent, connVars>>
         /\ pending' \subseteq pending
         /\ pending = {} => UNCHANGED acked
  <1>1. CASE EnqueueAgentTurn
    <2>1. UNCHANGED <<connVars, acked>>
      BY <1>1 DEF EnqueueAgentTurn
    <2>2. sent' = sent /\ pending' = pending
      BY <1>1, DrainOffline DEF EnqueueAgentTurn
    <2> QED BY <2>1, <2>2
  <1>2. ASSUME NEW t, NEW keys, Settle(t, keys)
        PROVE  sent' = sent /\ pending' \subseteq pending
    <2>1. sent' = sent /\ pending' = pending \ {t}
      BY <1>2 DEF Settle, Drain, KeepQueue, StartTurn
    <2> QED BY <2>1
  <1>3. ASSUME NEW t, NEW f, TurnResponse(t, f)
        PROVE  /\ UNCHANGED <<sent, connVars>>
               /\ pending' \subseteq pending
               /\ pending = {} => UNCHANGED acked
    <2>1. t \in pending /\ UNCHANGED connVars
      BY <1>3 DEF TurnResponse, IsTurnResponse
    <2> QED BY <1>2, <1>3, <2>1 DEF TurnResponse
  <1>4. ASSUME NEW t, NEW f, TurnRejected(t, f) \/ OtherFrame(t, f)
        PROVE  UNCHANGED <<sent, connVars, acked>> /\ pending' \subseteq pending
    BY <1>4 DEF TurnRejected, OtherFrame
  <1>5. ASSUME NEW t, TurnTimeout(t)
        PROVE  UNCHANGED <<sent, connVars, acked>> /\ pending' \subseteq pending
    BY <1>2, <1>5 DEF TurnTimeout
  <1>6. ASSUME NEW c, FallbackEnds(c)
        PROVE  UNCHANGED <<sent, connVars, acked>> /\ pending' \subseteq pending
    <2>1. UNCHANGED <<connVars, acked>>
      BY <1>6 DEF FallbackEnds
    <2>2. \E keys : Settle(c.turn, keys)
      BY <1>6 DEF FallbackEnds
    <2> QED BY <1>2, <2>1, <2>2
  <1> QED BY <1>1, <1>3, <1>4, <1>5, <1>6 DEF TurnNext

(* The connection of a destroyed client. *)
LEMMA EndedConnectionStep ==
  ASSUME ConnInv, destroyed, ConnectionNext
  PROVE  /\ destroyed' /\ waits' <= waits
         /\ \A s \in Sockets : sock'[s] \in {sock[s], "none"}
         /\ UNCHANGED <<sent, acked>> /\ pending' = pending
  <1>1. /\ waits \in Nat /\ ~IsOpen /\ ws = None
        /\ sock \in [Sockets -> {"none", "connecting", "open", "closing"}]
        /\ \A s \in Sockets : sock[s] \in {"none", "closing"}
    BY DEF ConnInv, ConnTypeOK, DestroyedIsQuiet, IsOpen
  <1>2. CloseSocket => UNCHANGED sock
    BY <1>1 DEF CloseSocket
  <1>3. CASE EnsureConnected \/ ReconnectFires
    <2>1. UNCHANGED <<destroyed, sock, sent, acked, pending>>
      BY <1>3 DEF EnsureConnected, ReconnectFires, turnVars
    <2>2. waits' = waits
      BY <1>3 DEF EnsureConnected, ReconnectFires, Connect
    <2> QED BY <1>1, <2>1, <2>2
  <1>4. CASE WaitFails \/ WaitEndsDestroyed
    <2>1. UNCHANGED <<destroyed, sock, sent, acked, pending>>
      BY <1>4 DEF WaitFails, WaitEndsDestroyed, turnVars
    <2>2. waits' = waits - 1
      BY <1>4 DEF WaitFails, WaitEndsDestroyed
    <2> QED BY <1>1, <2>1, <2>2
  <1>5. CASE ChallengeTimeout
    <2>1. UNCHANGED <<destroyed, waits, sock, sent, acked, pending>>
      BY <1>5 DEF ChallengeTimeout, turnVars
    <2> QED BY <1>1, <2>1
  <1>6. ~Destroy /\ ~OpenSocketFails /\ \A s \in Sockets : ~OpenSocket(s)
    BY DEF Destroy, OpenSocketFails, OpenSocket
  <1>7. \A s \in Sockets : ~SocketOpens(s)
    BY <1>1 DEF SocketOpens
  <1>8. ASSUME NEW s \in Sockets, SocketCloses(s)
        PROVE  /\ destroyed' /\ waits' = waits /\ UNCHANGED <<sent, acked, pending>>
               /\ \A r \in Sockets : sock'[r] \in {sock[r], "none"}
    BY <1>1, <1>8 DEF SocketCloses, turnVars
  <1>9. ASSUME NEW s \in Sockets, ChallengeArrives(s) \/ ChallengeWithoutNonce(s)
        PROVE  /\ destroyed' /\ waits' = waits /\ UNCHANGED <<sent, acked, pending, sock>>
    BY <1>2, <1>9 DEF ChallengeArrives, ChallengeWithoutNonce, turnVars
  <1>10. ASSUME NEW s \in Sockets, NEW shape \in Shapes,
                \/ ConnectRefused(s, shape) \/ ConnectChallenged(s, shape)
         PROVE  /\ destroyed' /\ waits' = waits /\ UNCHANGED <<sent, acked, pending, sock>>
    BY <1>2, <1>10 DEF ConnectRefused, ConnectChallenged, turnVars
  <1>11. ASSUME NEW s \in Sockets, NEW shape \in Shapes, ConnectAccepted(s, shape)
         PROVE  /\ destroyed' /\ waits' = waits /\ UNCHANGED <<sent, acked, pending, sock>>
    BY <1>1, <1>11, DrainOffline DEF ConnectAccepted
  <1> QED BY <1>1, <1>3, <1>4, <1>5, <1>6, <1>7, <1>8, <1>9, <1>10, <1>11 DEF ConnectionNext

LEMMA EndStep ==
  ConnInv /\ NothingPendingAfterEnd /\ [Next]_vars => NothingPendingAfterEnd' /\ EndIsFinal
  <1> SUFFICES ASSUME ConnInv, NothingPendingAfterEnd, [Next]_vars
               PROVE  NothingPendingAfterEnd' /\ EndIsFinal
    OBVIOUS
  <1>1. CASE UNCHANGED vars
    BY <1>1 DEF vars, connVars, turnVars, NothingPendingAfterEnd, EndIsFinal, ConnInv, ConnTypeOK
  <1>2. CASE ~destroyed /\ Next
    <2>1. Destroy \/ destroyed' = destroyed
      <3>1. CASE TurnNext
        BY <3>1 DEF TurnNext, EnqueueAgentTurn, TurnResponse, TurnRejected, OtherFrame,
           TurnTimeout, FallbackEnds, connVars
      <3>2. CASE ConnectionNext
        BY <3>2 DEF ConnectionNext, EnsureConnected, WaitFails, WaitEndsDestroyed,
           OpenSocketFails, ReconnectFires, ChallengeTimeout, OpenSocket, SocketOpens,
           SocketCloses, ChallengeArrives, ChallengeWithoutNonce, ConnectAccepted,
           ConnectRefused, ConnectChallenged
      <3> QED BY <1>2, <3>1, <3>2 DEF Next
    <2> QED BY <1>2, <2>1 DEF Destroy, NothingPendingAfterEnd, EndIsFinal
  <1>3. CASE destroyed /\ ConnectionNext
    BY <1>3, EndedConnectionStep DEF NothingPendingAfterEnd, EndIsFinal
  <1>4. CASE destroyed /\ TurnNext
    <2>1. ~CanSendGateway
      BY <1>4 DEF ConnInv, DestroyedIsQuiet, CanSendGateway
    <2>2. /\ UNCHANGED <<sent, connVars>>
          /\ pending' \subseteq pending
          /\ pending = {} => UNCHANGED acked
      BY <1>4, <2>1, OfflineTurnStep
    <2>3. waits' <= waits /\ destroyed' /\ sock' = sock
      BY <1>4, <2>2 DEF connVars, ConnInv, ConnTypeOK
    <2> QED BY <1>4, <2>2, <2>3 DEF NothingPendingAfterEnd, EndIsFinal
  <1> QED BY <1>1, <1>2, <1>3, <1>4 DEF Next

(* destroy leaves the socket to close by itself, the wait for the port running and
   _inFlight set; nothing comes of them: no turn is sent and none acknowledged. *)
THEOREM DestroyIsFinal == Spec => [][EndIsFinal]_vars
  BY EndInit, EndStep, ConnectionInvariant, PTL DEF Spec

(* A stopped bridge sends nothing to the gateway and nothing to the phone; what is
   still open closes and what is still waited for ends.  It may still take a message
   from the closing tunnel: that turn too is never sent. *)
StopEndsAll ==
  destroyed =>
    /\ destroyed'
    /\ waits' <= waits
    /\ \A s \in Sockets : sock'[s] \in {sock[s], "none"}
    /\ UNCHANGED <<sent, acked, delivered>>

LEMMA StoppedTurnStep ==
  ASSUME ~CanSendGateway, destroyed,
         \/ PhoneMessage
         \/ \E t \in Range(sent) : \E f \in Frames(t) :
              AgentResponse(t, f) \/ AgentRefuses(t, f) \/ AgentFrame(t, f) \/ LateFrame(t, f)
         \/ \E t \in armed : AgentTimeout(t)
         \/ \E c \in calls : ProviderEnds(c) \/ LateProviderEnds(c)
  PROVE  UNCHANGED <<connVars, sent, acked, delivered>>
  <1>1. ASSUME NEW t, NEW keys, Settle(t, keys)
        PROVE  sent' = sent
    BY <1>1 DEF Settle, Drain, KeepQueue, StartTurn
  <1>2. ASSUME NEW t, NEW f, AgentRefuses(t, f)
        PROVE  UNCHANGED <<connVars, sent, acked, delivered>>
    BY <1>2 DEF AgentRefuses, TurnRejected
  <1>3. ASSUME NEW t, NEW f, LateFrame(t, f)
        PROVE  UNCHANGED <<connVars, sent, acked, delivered>>
    <2>1. Settle(t, After(f, seen)) => sent' = sent
      BY <1>1
    <2>2. sent' = sent
      BY <1>3, <2>1 DEF LateFrame, KeepQueue
    <2> QED BY <1>3, <2>2 DEF LateFrame
  <1>4. ASSUME NEW t, AgentTimeout(t)
        PROVE  UNCHANGED <<connVars, sent, acked, delivered>>
    BY <1>1, <1>4 DEF AgentTimeout, TurnTimeout
  <1>5. ASSUME NEW c, LateProviderEnds(c)
        PROVE  UNCHANGED <<connVars, sent, acked, delivered>>
    BY <1>1, <1>5 DEF LateProviderEnds
  <1>6. ASSUME PhoneMessage
        PROVE  UNCHANGED <<connVars, sent, acked, delivered>>
    BY <1>6 DEF PhoneMessage, EnqueueAgentTurn, Drain, KeepQueue, StartTurn
  <1>7. \A t, f : ~AgentResponse(t, f) /\ ~AgentFrame(t, f)
    BY DEF AgentResponse, AgentFrame
  <1>8. \A c : ~ProviderEnds(c)
    BY DEF ProviderEnds
  <1> QED BY <1>2, <1>3, <1>4, <1>5, <1>6, <1>7, <1>8

(* What a closing socket and the timers left over still do. *)
LEMMA StoppedConnectionStep ==
  ASSUME StoppedInv, Watched, destroyed,
         \/ Start \/ ConnectWaitFails \/ ConnectWaitEndsDestroyed \/ OpenGatewayFails
         \/ ReconnectTimer \/ GatewayChallengeTimeout \/ KeepalivePing \/ PongTimeout
         \/ Stop
         \/ \E s \in Sockets :
              \/ OpenGateway(s) \/ GatewayOpens(s) \/ GatewayCloses(s)
              \/ GatewayChallenge(s) \/ GatewayChallengeNoNonce(s) \/ Pong(s)
              \/ \E shape \in Shapes :
                   \/ GatewayAccepts(s, shape) \/ GatewayDenies(s, shape)
                   \/ GatewayRejects(s, shape) \/ GatewayAsksForDevice(s, shape)
  PROVE  /\ waits' <= waits
         /\ \A s \in Sockets : sock'[s] \in {sock[s], "none"}
         /\ UNCHANGED <<sent, acked, delivered>>
  <1>1. /\ waits \in Nat /\ ~IsOpen /\ ws = None
        /\ sock \in [Sockets -> {"none", "connecting", "open", "closing"}]
        /\ \A s \in Sockets : sock[s] \in {"none", "closing"}
        /\ ~awaiting /\ ~reconnectTimer /\ ~challengeTimer
    BY DEF StoppedInv, ConnTypeOK, IsOpen, Watched
  <1>2. CloseSocket => UNCHANGED sock
    BY <1>1 DEF CloseSocket
  <1>3. CASE ConnectWaitFails \/ ConnectWaitEndsDestroyed
    <2>1. UNCHANGED <<sock, sent, acked, delivered>> /\ waits' = waits - 1
      BY <1>3 DEF ConnectWaitFails, WaitFails, ConnectWaitEndsDestroyed, WaitEndsDestroyed,
         turnVars
    <2> QED BY <1>1, <2>1
  <1>4. /\ ~Start /\ ~Stop /\ ~OpenGatewayFails /\ ~PongTimeout /\ ~ReconnectTimer
        /\ ~GatewayChallengeTimeout
        /\ \A s \in Sockets : ~OpenGateway(s) /\ ~GatewayOpens(s)
    BY <1>1 DEF Start, Stop, OpenGatewayFails, OpenSocketFails, PongTimeout, ReconnectTimer,
       ReconnectFires, GatewayChallengeTimeout, ChallengeTimeout, OpenGateway, OpenSocket,
       GatewayOpens, SocketOpens
  <1>5. ASSUME NEW s \in Sockets, GatewayCloses(s)
        PROVE  /\ waits' = waits /\ UNCHANGED <<sent, acked, delivered>>
               /\ \A r \in Sockets : sock'[r] \in {sock[r], "none"}
    BY <1>1, <1>5 DEF GatewayCloses, SocketCloses, turnVars
  <1>6. ASSUME NEW s, \/ KeepalivePing \/ Pong(s) \/ GatewayChallenge(s)
                      \/ GatewayChallengeNoNonce(s)
        PROVE  UNCHANGED <<waits, sock, sent, acked, delivered>>
    BY <1>2, <1>6 DEF KeepalivePing, Pong, GatewayChallenge, ChallengeArrives,
       GatewayChallengeNoNonce, ChallengeWithoutNonce, vars, connVars, turnVars
  <1>7. ASSUME NEW s, NEW shape, \/ GatewayDenies(s, shape) \/ GatewayRejects(s, shape)
                                 \/ GatewayAsksForDevice(s, shape)
        PROVE  UNCHANGED <<waits, sock, sent, acked, delivered>>
    BY <1>2, <1>7 DEF GatewayDenies, ConnectRefused, GatewayRejects, GatewayAsksForDevice,
       ConnectChallenged, turnVars
  <1>8. ASSUME NEW s, NEW shape, GatewayAccepts(s, shape)
        PROVE  UNCHANGED <<waits, sock, sent, acked, delivered>>
    BY <1>1, <1>8, DrainOffline DEF GatewayAccepts, ConnectAccepted
  <1> QED BY <1>1, <1>3, <1>4, <1>5, <1>6, <1>7, <1>8

LEMMA StopStep == BridgeIInv /\ [BridgeNext]_bridgeVars => StopEndsAll
  <1> SUFFICES ASSUME BridgeIInv, [BridgeNext]_bridgeVars, destroyed
               PROVE  /\ destroyed' /\ waits' <= waits
                      /\ \A s \in Sockets : sock'[s] \in {sock[s], "none"}
                      /\ UNCHANGED <<sent, acked, delivered>>
    BY DEF StopEndsAll
  <1>1. StoppedInv /\ Watched /\ waits \in Nat /\ ~CanSendGateway
    BY DEF BridgeIInv, BridgeConnInv, StoppedInv, ConnTypeOK, CanSendGateway, IsOpen
  <1>2. CASE UNCHANGED bridgeVars
    BY <1>1, <1>2 DEF bridgeVars, vars, connVars, turnVars
  <1>3. CASE BridgeNext
    <2>1. destroyed'
      BY <1>1, <1>3, StoppedStep
    <2>2. UNCHANGED <<connVars, sent, acked, delivered>>
          => /\ waits' <= waits /\ sock' = sock
             /\ UNCHANGED <<sent, acked, delivered>>
      BY <1>1 DEF connVars
    <2> QED BY <1>1, <1>3, <2>1, <2>2, StoppedTurnStep, StoppedConnectionStep DEF BridgeNext
  <1> QED BY <1>2, <1>3

(* stop ends the session and leaves _pending, _queue and _inFlight as they are: the
   turns are settled all the same (BridgeImplements), those that come in after stop
   too, but whatever the gateway or the provider still answer, the phone is told
   nothing and no turn, old or new, is sent. *)
THEOREM StopIsFinal == BridgeSpec => [][StopEndsAll]_bridgeVars
  BY StopStep, BridgeInvariant, PTL DEF BridgeSpec
=============================================================================
