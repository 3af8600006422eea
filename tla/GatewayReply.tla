---------------------------- MODULE GatewayReply -----------------------------
(***************************************************************************)
(* What the relay makes of a frame the OpenClaw gateway sends about a run:  *)
(* evaluateGatewayAssistantDelivery and GatewayReplyDeduper                *)
(* (gatewayAssistantDispatch.js) over isGatewayAcceptedAck and             *)
(* extractAssistantTextFromGateway (gatewayResponseText.js).               *)
(*                                                                         *)
(* A frame keeps what those functions branch on: its type, the event name,  *)
(* the stage (payload state, phase or status), ok, the run it names, the    *)
(* request id of a response, and the text found in its payload.            *)
(***************************************************************************)
EXTENDS Naturals, Sequences, Functions

CONSTANTS
  NoRun,       \* the frame names no run
  NoText,      \* no text in the frame
  ErrorText,   \* "[error] ...", what ok:false is turned into
  MaxEntries   \* maxEntries of GatewayReplyDeduper, 256 in the code

ASSUME MaxEntriesIsNat == MaxEntries \in Nat
ASSUME ErrorIsText == ErrorText # NoText

-----------------------------------------------------------------------------
(* The frames of a run; t is the request id, which is also the idempotency key
   and the run the gateway reports it under. *)
Res(t, ok, stage, text) ==
  [type |-> "res", event |-> "none", stage |-> stage, ok |-> ok,
   run |-> NoRun, id |-> t, text |-> text]

Event(t, event, stage, text) ==
  [type |-> "event", event |-> event, stage |-> stage, ok |-> TRUE,
   run |-> t, id |-> NoRun, text |-> text]

FrameOf(kind, t, text) ==
  CASE kind = "accepted"  -> Res(t, TRUE, "accepted", NoText)
    [] kind = "final"     -> Res(t, TRUE, "done", text)
    [] kind = "empty"     -> Res(t, TRUE, "done", NoText)
    [] kind = "error"     -> Res(t, FALSE, "done", NoText)
    [] kind = "chatDelta" -> Event(t, "chat", "delta", text)
    [] kind = "chatFinal" -> Event(t, "chat", "final", text)
    [] kind = "agentEnd"  -> Event(t, "agent", "end", text)

Kinds == {"accepted", "final", "empty", "error", "chatDelta", "chatFinal", "agentEnd"}

-----------------------------------------------------------------------------
(* A bare receipt: status accepted and nothing to show. *)
IsGatewayAcceptedAck(f) == f.stage = "accepted" /\ f.text = NoText

ExtractAssistantText(f) ==
  IF f.type = "res" /\ ~f.ok THEN ErrorText
  ELSE IF IsGatewayAcceptedAck(f) THEN NoText
  ELSE f.text

(* Mutant of ExtractGatewayRunId: a response does not fall back on its id. *)
RunIdInFrame(f) == f.run

ExtractGatewayRunId(f) ==
  IF f.run # NoRun THEN f.run
  ELSE IF f.type = "res" THEN f.id
  ELSE NoRun

IsChatFinalEvent(f) == f.type = "event" /\ f.event = "chat" /\ f.stage = "final"

IsAgentLifecycleEndEvent(f) == f.type = "event" /\ f.event = "agent" /\ f.stage = "end"

(* evaluateGatewayAssistantDelivery: does the frame carry a reply at all? *)
CarriesReply(f) ==
  /\ \/ IsChatFinalEvent(f)
     \/ IsAgentLifecycleEndEvent(f)
     \/ f.type = "res" /\ ~IsGatewayAcceptedAck(f)
  /\ ExtractAssistantText(f) # NoText

-----------------------------------------------------------------------------
(* GatewayReplyDeduper: a run is remembered by its id, a reply that names no run
   by its text. *)
DedupKey(f) ==
  LET run == ExtractGatewayRunId(f)
  IN IF run # NoRun THEN <<"run", run>> ELSE <<"text", ExtractAssistantText(f)>>

(* The while loop of shouldDeliver; one key was added, so one is dropped. *)
Evict(order) ==
  IF Len(order) > MaxEntries THEN Tail(order) ELSE order

(* assistantTextForConsumer, given the keys seen since the last reset. *)
Delivers(f, order) == CarriesReply(f) /\ DedupKey(f) \notin Range(order)

After(f, order) ==
  IF Delivers(f, order) THEN Evict(Append(order, DedupKey(f))) ELSE order
=============================================================================
