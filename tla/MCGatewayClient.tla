--------------------------- MODULE MCGatewayClient ---------------------------
(* The gateway client on small instances: two WebSocket objects, so that a new
   one could be opened beside a closing one, and three turns, so that one can wait
   behind one that waits for one in flight.  It is configured for a current
   gateway or for a legacy one, the latter with the provider fallback. *)
EXTENDS GatewayClient

MCSetups ==
  {[mode |-> "challenge", fallback |-> FALSE], [mode |-> "blind", fallback |-> TRUE]}
=============================================================================
