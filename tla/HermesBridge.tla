---------------------------- MODULE HermesBridge -----------------------------
(***************************************************************************)
(* HermesAgentBridge (hermesAgentBridge.js): the bridge from the phone to   *)
(* the HTTP API of a Hermes agent.  Messages of the phone become turns that *)
(* are asked one at a time; in the chat completions mode the bridge keeps   *)
(* the conversation itself and sends all of it with each turn; a health     *)
(* probe and the outcome of each turn both write _apiConnected.             *)
(*                                                                         *)
(* One action is one macrotask.  The relay session below is RelaySession    *)
(* with bridgeMode: here only whether it can reach the phone.  A turn is    *)
(* its number and stands for its text.                                     *)
(***************************************************************************)
EXTENDS Naturals, Sequences, SequencesExt

CONSTANTS
  Setups,    \* [key, chat]: an API key is set; the chat completions mode
  Probes,    \* model bound: health probes under way at once
  MaxTurns   \* model bound: messages of the phone

ASSUME SetupsAreFlags == Setups \subseteq [key : BOOLEAN, chat : BOOLEAN]
ASSUME MaxTurnsIsNat == MaxTurns \in Nat
ASSUME ProbesAreNoTurns == Probes \cap (0..MaxTurns) = {}

VARIABLES
  setup,       \* the configuration, fixed by the constructor
  api,         \* the Hermes server answers
  link,        \* the session's way to the phone: "none", "good", or "bad" when the
               \* phone's box key has the wrong length and encrypt throws
  stopped,     \* _destroyed
  connected,   \* _apiConnected
  accepted,    \* messages taken in
  queue,       \* _queue
  turn,        \* the turn whose request runs (_inFlight), 0 when none does
  probing,     \* health probes under way
  hopeful,     \* of the requests under way, those the server was there for
  transcript,  \* _chatMessages
  failed       \* history: turns whose request failed

outside == <<setup, api, link>>
turns == <<accepted, queue, turn, transcript, failed>>
vars == <<outside, stopped, connected, turns, probing, hopeful>>

Turns == 1..MaxTurns
Message(role, t) == [role |-> role, turn |-> t]
Asking == probing \cup {turn}

Init ==
  /\ setup \in Setups
  /\ api \in BOOLEAN
  /\ link = "none"
  /\ stopped = FALSE
  /\ connected = FALSE
  /\ accepted = 0
  /\ queue = <<>>
  /\ turn = 0
  /\ \E i \in Probes : probing = IF setup.key THEN {i} ELSE {}
  /\ hopeful = IF api THEN probing ELSE {}
  /\ transcript = <<>>
  /\ failed = {}

-----------------------------------------------------------------------------
(* The server comes and goes; a request it was there for may yet succeed. *)
ApiChanges ==
  /\ api' = ~api
  /\ hopeful' = IF api' THEN Asking \ {0} ELSE hopeful
  /\ UNCHANGED <<setup, link, stopped, connected, turns, probing>>

(* The session finds the phone, with a key that can be used or not, or loses it. *)
LinkChanges ==
  /\ link' \in {"none", "good", "bad"} \ {link}
  /\ UNCHANGED <<setup, api, stopped, connected, turns, probing, hopeful>>

-----------------------------------------------------------------------------
(* Mutant of DrainQueue: the newest message is asked first. *)
DrainNewest(q, busy, talk, others) ==
  IF busy # 0 \/ q = <<>>
  THEN queue' = q /\ turn' = busy /\ transcript' = talk /\ hopeful' = others
  ELSE /\ queue' = Front(q)
       /\ turn' = Last(q)
       /\ transcript' = IF setup.chat THEN Append(talk, Message("user", Last(q))) ELSE talk
       /\ hopeful' = IF api THEN others \cup {Last(q)} ELSE others

(* _drainQueue up to its await, with the conversation as its caller leaves it and
   the requests under way besides. *)
DrainQueue(q, busy, talk, others) ==
  IF busy # 0 \/ q = <<>>
  THEN queue' = q /\ turn' = busy /\ transcript' = talk /\ hopeful' = others
  ELSE /\ queue' = Tail(q)
       /\ turn' = Head(q)
       /\ transcript' = IF setup.chat THEN Append(talk, Message("user", Head(q))) ELSE talk
       /\ hopeful' = IF api THEN others \cup {Head(q)} ELSE others

(* _onPhonePlaintext, for a message with text.  Without an API key the turn is over
   as soon as it is taken up, and so the queue never fills.  _destroyed is not looked
   at: the closing tunnel of a stopped bridge can still hand over a message. *)
PhoneMessage ==
  /\ link = "good"
  /\ accepted < MaxTurns
  /\ accepted' = accepted + 1
  /\ IF setup.key
     THEN DrainQueue(Append(queue, accepted + 1), turn, transcript, hopeful)
     ELSE UNCHANGED <<queue, turn, transcript, hopeful>>
  /\ UNCHANGED <<outside, stopped, connected, probing, failed>>

(* A response with text.  It is kept, and sent when there is a session; a throw of
   the send is taken for a failed request, and the pop that should drop the
   question drops the answer. *)
TurnAnswered ==
  LET throws == ~stopped /\ link = "bad"
  IN
  /\ turn # 0 /\ turn \in hopeful
  /\ connected' = ~throws
  /\ DrainQueue(queue, 0,
       IF setup.chat /\ ~throws THEN Append(transcript, Message("assistant", turn))
       ELSE transcript,
       hopeful \ {turn})
  /\ UNCHANGED <<outside, stopped, accepted, probing, failed>>

(* A response without text: also one whose body breaks off, or takes longer than
   the timeout. *)
TurnSilent ==
  /\ turn # 0 /\ turn \in hopeful
  /\ connected' = TRUE
  /\ DrainQueue(queue, 0, transcript, hopeful \ {turn})
  /\ UNCHANGED <<outside, stopped, accepted, probing, failed>>

(* Mutants of TurnFails: the question stays in the conversation; the next turn is
   not taken up. *)
TurnFailsKept ==
  /\ turn # 0
  /\ connected' = FALSE
  /\ failed' = failed \cup {turn}
  /\ DrainQueue(queue, 0, transcript, hopeful \ {turn})
  /\ UNCHANGED <<outside, stopped, accepted, probing>>

TurnFailsLast ==
  /\ turn # 0
  /\ connected' = FALSE
  /\ failed' = failed \cup {turn}
  /\ turn' = 0
  /\ transcript' = IF setup.chat THEN Front(transcript) ELSE transcript
  /\ hopeful' = hopeful \ {turn}
  /\ UNCHANGED <<outside, stopped, accepted, queue, probing>>

(* An HTTP error, a network error or the request timeout. *)
TurnFails ==
  /\ turn # 0
  /\ connected' = FALSE
  /\ failed' = failed \cup {turn}
  /\ DrainQueue(queue, 0, IF setup.chat THEN Front(transcript) ELSE transcript,
                hopeful \ {turn})
  /\ UNCHANGED <<outside, stopped, accepted, probing>>

-----------------------------------------------------------------------------
(* The interval calls _probeApiHealth. *)
HealthTimer(i) ==
  /\ ~stopped
  /\ IF setup.key
     THEN /\ i \notin probing
          /\ probing' = probing \cup {i}
          /\ hopeful' = IF api THEN hopeful \cup {i} ELSE hopeful
          /\ UNCHANGED connected
     ELSE connected' = FALSE /\ UNCHANGED <<probing, hopeful>>
  /\ UNCHANGED <<outside, stopped, turns>>

(* Mutant of ProbeEnds: a failed probe is only logged. *)
ProbeEndsLogged(i, ok) ==
  /\ i \in probing
  /\ ok => i \in hopeful
  /\ probing' = probing \ {i}
  /\ hopeful' = hopeful \ {i}
  /\ connected' = (ok \/ connected)
  /\ UNCHANGED <<outside, stopped, turns>>

(* The probe is answered, or none of the URLs answers in time; stop is not looked
   at. *)
ProbeEnds(i, ok) ==
  /\ i \in probing
  /\ ok => i \in hopeful
  /\ probing' = probing \ {i}
  /\ hopeful' = hopeful \ {i}
  /\ connected' = ok
  /\ UNCHANGED <<outside, stopped, turns>>

(* stopHermesAgentBridge, on shutdown: the queue and the request are left running. *)
Stop ==
  /\ ~stopped
  /\ stopped' = TRUE
  /\ connected' = FALSE
  /\ UNCHANGED <<outside, turns, probing, hopeful>>

-----------------------------------------------------------------------------
Next ==
  \/ ApiChanges
  \/ LinkChanges
  \/ PhoneMessage
  \/ TurnAnswered
  \/ TurnSilent
  \/ TurnFails
  \/ \E i \in Probes : HealthTimer(i) \/ \E ok \in BOOLEAN : ProbeEnds(i, ok)
  \/ Stop

Spec == Init /\ [][Next]_vars

(* The health interval fires, and both kinds of request have a timeout. *)
Fairness ==
  /\ WF_vars(TurnAnswered \/ TurnSilent \/ TurnFails)
  /\ WF_vars(\E i \in Probes : HealthTimer(i))
  /\ \A i \in Probes : WF_vars(\E ok \in BOOLEAN : ProbeEnds(i, ok))

FairSpec == Spec /\ Fairness

-----------------------------------------------------------------------------
(* Every variable has its type. *)
TypeOK ==
  /\ setup \in Setups
  /\ api \in BOOLEAN /\ stopped \in BOOLEAN /\ connected \in BOOLEAN
  /\ link \in {"none", "good", "bad"}
  /\ accepted \in 0..MaxTurns
  /\ queue \in Seq(Turns)
  /\ turn \in 0..MaxTurns
  /\ probing \subseteq Probes
  /\ hopeful \subseteq Asking \ {0}
  /\ transcript \in Seq([role : {"user", "assistant"}, turn : Turns])
  /\ failed \subseteq Turns

(* The conversation that is sent with each turn is one: the turns come in order, an
   answer directly follows its own question, the question being asked is the last
   message, and a turn whose request failed has left nothing, whatever turns were
   queued meanwhile. *)
TranscriptIsConversation ==
  /\ TypeOK
  /\ \A i \in DOMAIN transcript :
       /\ transcript[i].turn \notin failed
       /\ transcript[i].role = "assistant" =>
            i > 1 /\ transcript[i - 1] = Message("user", transcript[i].turn)
       /\ transcript[i].role = "user" /\ i > 1 =>
            transcript[i - 1].turn < transcript[i].turn
  /\ setup.chat /\ turn # 0 =>
       transcript # <<>> /\ Last(transcript) = Message("user", turn)

(* With an API key the bridge keeps the promise of TurnQueue. *)
Abstract == INSTANCE TurnQueue WITH
  accepted <- IF setup.key THEN accepted ELSE 0,
  line <- queue,
  working <- IF turn = 0 THEN {} ELSE {turn}

ImplementsTurnQueue == Abstract!Spec

(* Every message that waits is asked, also after a failure or while shutting down. *)
QueueDrains == queue # <<>> ~> queue = <<>> /\ turn = 0

(* getHermesBridgeConnected *)
BridgeConnected == ~stopped /\ connected

(* A server that is gone for good is noticed: answers that arrive late, of probes
   or of a turn, do not hide it. *)
OutageNoticed == <>[]~api => <>[]~BridgeConnected
=============================================================================
