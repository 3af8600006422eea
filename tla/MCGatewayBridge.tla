--------------------------- MODULE MCGatewayBridge ---------------------------
(* The gateway bridge on small instances: two sockets, so that a second could be
   opened beside the first, and three turns, so that some wait behind the other when
   the bridge is stopped; with a device and without fallback, and without a device
   and with the fallback. *)
EXTENDS GatewayBridge

MCSetups == {[mode |-> "challenge", fallback |-> FALSE],
             [mode |-> "insecure", fallback |-> TRUE]}
=============================================================================
