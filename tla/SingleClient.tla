---------------------------- MODULE SingleClient -----------------------------
(***************************************************************************)
(* OPENCLAW_SINGLE_CLIENT_MODE: phones connect to the relay itself, and one *)
(* gateway client of the process serves whichever phone is active           *)
(* (singleClientGateway.js, the single-client branches of                  *)
(* machineRelaySession.js, and the WebSocket server and shutdown of         *)
(* index.js).                                                              *)
(*                                                                         *)
(* A gateway client is taken to be there from the moment it is made until   *)
(* it is destroyed (GatewayClient models what it does); what it delivers    *)
(* goes to the active session and changes nothing here.  Signature checks   *)
(* are the verdict they give (ReplayGuard).                                 *)
(***************************************************************************)
EXTENDS Naturals, FiniteSets

CONSTANTS
  Phones,     \* connections of phones; a phone that reconnects is a new one
  Gateways,   \* GatewayAgentClient objects
  None,
  Strict,     \* OPENCLAW_STRICT_PAIRING_PROFILE
  MaxTurns    \* model bound: requests relayed

ASSUME NoneIsNothing == None \notin Phones \cup Gateways
ASSUME StrictIsBoolean == Strict \in BOOLEAN
ASSUME MaxTurnsIsNat == MaxTurns \in Nat

VARIABLES
  phone,      \* clientWs.readyState of each connection, "none" before it
  handshake,  \* _handshakeState of its session
  boxKeys,    \* chatroomBoxKeys: "none", "alone" (no peer key) or "peer"
  active,     \* activeSession
  gateway,    \* state of each gateway client: "none", "running" or "destroyed"
  shared,     \* sharedClient
  accepting,  \* acceptingNewConnections
  asked,      \* turns enqueued so far
  claim       \* history: the last session that became active, until a stop

sessions == <<phone, handshake, boxKeys>>
dispatch == <<active, claim>>
process == <<gateway, shared, accepting, asked>>
vars == <<sessions, dispatch, process>>

-----------------------------------------------------------------------------
(* A closing WebSocket delivers messages until its close event. *)
FromPhone(p) == phone[p] \in {"open", "closing"}

Running(g) == gateway[g] = "running"

(* registerSingleClientActiveSession *)
Claim(p) == active' = p /\ claim' = p

(* Mutant of Unregister: any session that closes clears the active one. *)
UnregisterAny(p) == None

(* unregisterSingleClientActiveSession: the active session afterwards. *)
Unregister(p) == IF active = p THEN None ELSE active

(* ensureSharedClient gives g, a new one if there is none. *)
EnsureShared(g) ==
  IF shared # None
  THEN g = shared /\ UNCHANGED <<gateway, shared>>
  ELSE /\ gateway[g] = "none"
       /\ gateway' = [gateway EXCEPT ![g] = "running"]
       /\ shared' = g

Init ==
  /\ phone = [p \in Phones |-> "none"]
  /\ handshake = [p \in Phones |-> "unregistered"]
  /\ boxKeys = [p \in Phones |-> "none"]
  /\ active = None
  /\ gateway = [g \in Gateways |-> "none"]
  /\ shared = None
  /\ accepting = TRUE
  /\ asked = 0
  /\ claim = None

-----------------------------------------------------------------------------
(* The process *)

(* wss 'listening': startSingleClientGateway. *)
StartGateway(g) ==
  /\ accepting
  /\ EnsureShared(g)
  /\ UNCHANGED <<sessions, dispatch, accepting, asked>>

(* gracefulShutdown, as far as it runs in one go. *)
Shutdown ==
  /\ accepting' = FALSE
  /\ gateway' = IF shared = None THEN gateway ELSE [gateway EXCEPT ![shared] = "destroyed"]
  /\ shared' = None
  /\ active' = None /\ claim' = None
  /\ phone' = [p \in Phones |-> IF phone[p] = "open" THEN "closing" ELSE phone[p]]
  /\ UNCHANGED <<handshake, boxKeys, asked>>

-----------------------------------------------------------------------------
(* A phone's connection *)

Connects(p) ==
  /\ accepting
  /\ phone[p] = "none"
  /\ phone' = [phone EXCEPT ![p] = "open"]
  /\ UNCHANGED <<handshake, boxKeys, dispatch, process>>

ChallengeIssued(p) ==
  /\ FromPhone(p)
  /\ handshake' = [handshake EXCEPT ![p] = "challenge_issued"]
  /\ UNCHANGED <<phone, boxKeys, dispatch, process>>

(* completeSingleClientRegister with a good box key. *)
PeerReady(p) ==
  /\ boxKeys' = [boxKeys EXCEPT ![p] = "peer"]
  /\ Claim(p)

(* It has no box key, or one that is not base64: the error is sent to the phone and
   the session is not made active.  The keys of the room are loaded before a bad
   key is found. *)
PeerNotReady(p) ==
  /\ \/ UNCHANGED boxKeys
     \/ \E stored \in {"alone", "peer"} : boxKeys' = [boxKeys EXCEPT ![p] = stored]
  /\ UNCHANGED dispatch

ChallengeAnswered(p) ==
  /\ FromPhone(p)
  /\ handshake[p] = "challenge_issued"
  /\ handshake' = [handshake EXCEPT ![p] = "ready_for_agent_req"]
  /\ PeerReady(p) \/ PeerNotReady(p)
  /\ UNCHANGED <<phone, process>>

(* A failed or unexpected answer, an encrypted frame that cannot be decrypted, a
   message of an unknown type: the strict profile closes the connection. *)
Rejected(p) ==
  /\ FromPhone(p)
  /\ handshake' \in {handshake, [handshake EXCEPT ![p] =
                       IF @ = "challenge_issued" THEN "rejected" ELSE @]}
  /\ phone' = IF Strict THEN [phone EXCEPT ![p] = "closing"] ELSE phone
  /\ UNCHANGED <<boxKeys, dispatch, process>>

(* relaySignedReqSingleClient, for a request that passes the guard. *)
Request(p, g) ==
  /\ FromPhone(p)
  /\ handshake[p] = "ready_for_agent_req"
  /\ boxKeys[p] = "peer"
  /\ asked < MaxTurns
  /\ EnsureShared(g)
  /\ Claim(p)
  /\ asked' = asked + 1
  /\ UNCHANGED <<sessions, accepting>>

StartsClosing(p) ==
  /\ phone[p] = "open"
  /\ phone' = [phone EXCEPT ![p] = "closing"]
  /\ UNCHANGED <<handshake, boxKeys, dispatch, process>>

(* Mutant of Closes: the session stays active. *)
ClosesActive(p) ==
  /\ FromPhone(p)
  /\ phone' = [phone EXCEPT ![p] = "closed"]
  /\ boxKeys' = [boxKeys EXCEPT ![p] = "none"]
  /\ UNCHANGED <<handshake, dispatch, process>>

(* 'close': the session is destroyed. *)
Closes(p) ==
  /\ FromPhone(p)
  /\ phone' = [phone EXCEPT ![p] = "closed"]
  /\ active' = Unregister(p)
  /\ boxKeys' = [boxKeys EXCEPT ![p] = "none"]
  /\ UNCHANGED <<handshake, claim, process>>

-----------------------------------------------------------------------------
Next ==
  \/ Shutdown
  \/ \E p \in Phones :
       \/ Connects(p)
       \/ ChallengeIssued(p)
       \/ ChallengeAnswered(p)
       \/ Rejected(p)
       \/ StartsClosing(p)
       \/ Closes(p)
       \/ \E g \in Gateways : Request(p, g)
  \/ \E g \in Gateways : StartGateway(g)

Spec == Init /\ [][Next]_vars

-----------------------------------------------------------------------------
(* Every variable has its type; only a session with a live connection has keys. *)
TypeOK ==
  /\ phone \in [Phones -> {"none", "open", "closing", "closed"}]
  /\ handshake \in [Phones -> {"unregistered", "challenge_issued", "ready_for_agent_req",
                               "rejected"}]
  /\ boxKeys \in [Phones -> {"none", "alone", "peer"}]
  /\ \A p \in Phones : boxKeys[p] # "none" => FromPhone(p)
  /\ active \in Phones \cup {None}
  /\ gateway \in [Gateways -> {"none", "running", "destroyed"}]
  /\ shared \in Gateways \cup {None}
  /\ accepting \in BOOLEAN
  /\ asked \in 0..MaxTurns
  /\ claim \in Phones \cup {None}

(* One gateway client for the process, whatever starts, requests and a shutdown
   between them ask for one: two would answer every turn of a reconnected phone
   twice. *)
OneGateway ==
  \A g \in Gateways : Running(g) <=> shared = g

(* The active session has not been destroyed and has the keys of its room. *)
ActiveIsThere == active # None => FromPhone(active) /\ boxKeys[active] # "none"

(* Dispatch is sound: types, one gateway client, and an active session that can be
   written to. *)
DispatchInv == TypeOK /\ OneGateway /\ ActiveIsThere

(* A phone that reconnects and registers takes over, and the close of its old
   connection, however late it comes, does not take the replies away from it. *)
TakeoverSurvivesOldClose ==
  claim # None /\ FromPhone(claim) => active = claim
=============================================================================
