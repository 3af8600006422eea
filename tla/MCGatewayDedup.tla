--------------------------- MODULE MCGatewayDedup ----------------------------
(* The gateway client with a well-behaved gateway: each run is accepted, then
   reported once by a chat final and once by the end of the agent lifecycle, in
   that order, as BOT-READY.md describes it. *)
EXTENDS GatewayClient

VARIABLE reported   \* per turn, how many of its frames the gateway has sent

MCSetups == {[mode |-> "challenge", fallback |-> FALSE]}

RunFrames == <<"accepted", "chatFinal", "agentEnd">>

OnceInit == Init /\ reported = [t \in Turns |-> 0]

GatewayReports(t) ==
  /\ reported[t] < Len(RunFrames)
  /\ LET f == FrameOf(RunFrames[reported[t] + 1], t, t)
     IN TurnResponse(t, f) \/ OtherFrame(t, f)
  /\ reported' = [reported EXCEPT ![t] = @ + 1]

OnceNext ==
  \/ ConnectionNext /\ UNCHANGED reported
  \/ EnqueueAgentTurn /\ UNCHANGED reported
  \/ \E t \in Range(sent) : GatewayReports(t)
  \/ \E t \in armed : TurnTimeout(t) /\ UNCHANGED reported

OnceSpec == OnceInit /\ [][OnceNext]_<<vars, reported>>
=============================================================================
