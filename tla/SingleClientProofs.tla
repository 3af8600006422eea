-------------------------- MODULE SingleClientProofs --------------------------
(***************************************************************************)
(* The safety of single-client mode for any number of connections, gateway  *)
(* clients and requests.                                                    *)
(***************************************************************************)
EXTENDS SingleClient, TLAPS

(* A session that has become active belongs to a connection that was made: a phone
   that comes back is another one. *)
ClaimIsConnected == claim # None => phone[claim] # "none"

SessionsInv == DispatchInv /\ TakeoverSurvivesOldClose /\ ClaimIsConnected

-----------------------------------------------------------------------------
LEMMA InitSessions == Init => SessionsInv
  BY NoneIsNothing, MaxTurnsIsNat
     DEF Init, SessionsInv, DispatchInv, TypeOK, OneGateway, ActiveIsThere, FromPhone,
         Running, TakeoverSurvivesOldClose, ClaimIsConnected

(* gracefulShutdown lets go of the gateway client it destroys. *)
LEMMA ShutdownKeeps ==
  ASSUME SessionsInv, Shutdown
  PROVE  SessionsInv'
  <1>1. TypeOK'
    BY DEF SessionsInv, TypeOK, DispatchInv, FromPhone, Shutdown
  <1>2. OneGateway'
    BY NoneIsNothing DEF SessionsInv, TypeOK, OneGateway, DispatchInv, Running,
       Shutdown
  <1>3. ActiveIsThere'
    BY DEF SessionsInv, ActiveIsThere, Shutdown
  <1>4. TakeoverSurvivesOldClose'
    BY DEF SessionsInv, TakeoverSurvivesOldClose, Shutdown
  <1>5. ClaimIsConnected'
    BY DEF SessionsInv, ClaimIsConnected, Shutdown
  <1> QED BY <1>1, <1>2, <1>3, <1>4, <1>5 DEF SessionsInv, DispatchInv

(* A new connection takes nothing over yet. *)
LEMMA ConnectsKeeps ==
  ASSUME SessionsInv, NEW p \in Phones, Connects(p)
  PROVE  SessionsInv'
  <1>1. TypeOK'
    BY DEF SessionsInv, TypeOK, Connects, DispatchInv, FromPhone, dispatch, process
  <1>2. OneGateway'
    BY DEF SessionsInv, OneGateway, Connects, DispatchInv, Running, process
  <1>3. ActiveIsThere'
    BY DEF SessionsInv, ActiveIsThere, Connects, DispatchInv, FromPhone, dispatch
  <1>4. TakeoverSurvivesOldClose'
    BY DEF SessionsInv, TakeoverSurvivesOldClose, ClaimIsConnected, Connects,
       FromPhone, dispatch
  <1>5. ClaimIsConnected'
    BY DEF SessionsInv, ClaimIsConnected, Connects, dispatch
  <1> QED BY <1>1, <1>2, <1>3, <1>4, <1>5 DEF SessionsInv, DispatchInv

(* A registration takes over when the peer key is there, and only then. *)
LEMMA ChallengeAnsweredKeeps ==
  ASSUME SessionsInv, NEW p \in Phones, ChallengeAnswered(p)
  PROVE  SessionsInv'
  <1>1. TypeOK'
    BY DEF SessionsInv, TypeOK, ChallengeAnswered, Claim, DispatchInv, FromPhone,
       PeerNotReady, PeerReady, dispatch, process
  <1>2. OneGateway'
    BY DEF SessionsInv, OneGateway, ChallengeAnswered, DispatchInv, Running, process
  <1>3. ActiveIsThere'
    BY DEF SessionsInv, TypeOK, ActiveIsThere, ChallengeAnswered, Claim, DispatchInv,
       FromPhone, PeerNotReady, PeerReady, dispatch
  <1>4. TakeoverSurvivesOldClose'
    BY DEF SessionsInv, TakeoverSurvivesOldClose, ChallengeAnswered, Claim, FromPhone,
       PeerNotReady, PeerReady, dispatch
  <1>5. ClaimIsConnected'
    BY DEF SessionsInv, ClaimIsConnected, ChallengeAnswered, Claim, FromPhone,
       PeerNotReady, PeerReady, dispatch
  <1> QED BY <1>1, <1>2, <1>3, <1>4, <1>5 DEF SessionsInv, DispatchInv

(* A request takes over and makes the gateway client if there is none. *)
LEMMA RequestKeeps ==
  ASSUME SessionsInv, NEW p \in Phones, NEW g \in Gateways, Request(p, g)
  PROVE  SessionsInv'
  <1>1. TypeOK'
    BY MaxTurnsIsNat DEF SessionsInv, TypeOK, Claim, DispatchInv, EnsureShared,
       FromPhone, Request, sessions
  <1>2. OneGateway'
    BY NoneIsNothing DEF SessionsInv, TypeOK, OneGateway, DispatchInv, EnsureShared,
       Request, Running
  <1>3. ActiveIsThere'
    BY DEF SessionsInv, ActiveIsThere, Claim, FromPhone, Request, sessions
  <1>4. TakeoverSurvivesOldClose'
    BY DEF SessionsInv, TakeoverSurvivesOldClose, Claim, Request
  <1>5. ClaimIsConnected'
    BY DEF SessionsInv, ClaimIsConnected, Claim, FromPhone, Request, sessions
  <1> QED BY <1>1, <1>2, <1>3, <1>4, <1>5 DEF SessionsInv, DispatchInv

(* A close takes away the active session if it is its own. *)
LEMMA ClosesKeeps ==
  ASSUME SessionsInv, NEW p \in Phones, Closes(p)
  PROVE  SessionsInv'
  <1>1. TypeOK'
    BY DEF SessionsInv, TypeOK, Closes, DispatchInv, FromPhone, Unregister, process
  <1>2. OneGateway'
    BY DEF SessionsInv, OneGateway, Closes, DispatchInv, Running, process
  <1>3. ActiveIsThere'
    BY DEF SessionsInv, ActiveIsThere, Closes, DispatchInv, FromPhone, Unregister
  <1>4. TakeoverSurvivesOldClose'
    BY DEF SessionsInv, TypeOK, TakeoverSurvivesOldClose, Closes, DispatchInv,
       FromPhone, Unregister
  <1>5. ClaimIsConnected'
    BY DEF SessionsInv, ClaimIsConnected, Closes
  <1> QED BY <1>1, <1>2, <1>3, <1>4, <1>5 DEF SessionsInv, DispatchInv

LEMMA StartGatewayKeeps ==
  ASSUME SessionsInv, NEW g \in Gateways, StartGateway(g)
  PROVE  SessionsInv'
  <1>1. TypeOK'
    BY DEF SessionsInv, TypeOK, DispatchInv, EnsureShared, FromPhone, StartGateway,
       dispatch, sessions
  <1>2. OneGateway'
    BY NoneIsNothing DEF SessionsInv, TypeOK, OneGateway, DispatchInv, EnsureShared,
       Running, StartGateway
  <1>3. ActiveIsThere'
    BY DEF SessionsInv, ActiveIsThere, DispatchInv, FromPhone, StartGateway, dispatch,
       sessions
  <1>4. TakeoverSurvivesOldClose'
    BY DEF SessionsInv, TakeoverSurvivesOldClose, FromPhone, StartGateway, dispatch,
       sessions
  <1>5. ClaimIsConnected'
    BY DEF SessionsInv, ClaimIsConnected, StartGateway, dispatch, sessions
  <1> QED BY <1>1, <1>2, <1>3, <1>4, <1>5 DEF SessionsInv, DispatchInv

(* The other messages of a phone, and a close of its socket that has begun. *)
LEMMA HandshakeKeeps ==
  ASSUME SessionsInv, NEW p \in Phones, ChallengeIssued(p) \/ Rejected(p) \/ StartsClosing(p)
  PROVE  SessionsInv'
  <1>1. TypeOK'
    BY DEF SessionsInv, TypeOK, ChallengeIssued, DispatchInv, FromPhone, Rejected,
       StartsClosing, dispatch, process
  <1>2. OneGateway'
    BY DEF SessionsInv, OneGateway, ChallengeIssued, DispatchInv, Rejected, Running,
       StartsClosing, process
  <1>3. ActiveIsThere'
    BY DEF SessionsInv, TypeOK, ActiveIsThere, ChallengeIssued, DispatchInv,
       FromPhone, Rejected, StartsClosing, dispatch
  <1>4. TakeoverSurvivesOldClose'
    BY DEF SessionsInv, TypeOK, TakeoverSurvivesOldClose, ChallengeIssued,
       DispatchInv, FromPhone, Rejected, StartsClosing, dispatch
  <1>5. ClaimIsConnected'
    BY DEF SessionsInv, TypeOK, ClaimIsConnected, ChallengeIssued, DispatchInv,
       Rejected, StartsClosing, dispatch
  <1> QED BY <1>1, <1>2, <1>3, <1>4, <1>5 DEF SessionsInv, DispatchInv

LEMMA NextSessions == SessionsInv /\ [Next]_vars => SessionsInv'
  <1> SUFFICES ASSUME SessionsInv, [Next]_vars PROVE SessionsInv'
    OBVIOUS
  <1>1. CASE UNCHANGED vars
    BY <1>1 DEF vars, sessions, dispatch, process, SessionsInv, DispatchInv, TypeOK,
       OneGateway, ActiveIsThere, FromPhone, Running, TakeoverSurvivesOldClose,
       ClaimIsConnected
  <1> QED BY <1>1, ShutdownKeeps, ConnectsKeeps, ChallengeAnsweredKeeps, RequestKeeps,
             ClosesKeeps, StartGatewayKeeps, HandshakeKeeps DEF Next

(* Who is served, and by which gateway client, is sound in every reachable state. *)
THEOREM SessionsInvariant == Spec => []SessionsInv
  BY InitSessions, NextSessions, PTL DEF Spec

(* ensureSharedClient and registerSingleClientActiveSession: one gateway client for
   the process, and replies only go to a session that is there and has its keys. *)
THEOREM DispatchIsSound == Spec => []DispatchInv
  <1>1. SessionsInv => DispatchInv
    BY DEF SessionsInv
  <1> QED BY <1>1, SessionsInvariant, PTL

(* unregisterSingleClientActiveSession: the close of an old connection does not take
   the replies from the session that has taken over. *)
THEOREM TakeoverSurvives == Spec => []TakeoverSurvivesOldClose
  <1>1. SessionsInv => TakeoverSurvivesOldClose
    BY DEF SessionsInv
  <1> QED BY <1>1, SessionsInvariant, PTL
=============================================================================
