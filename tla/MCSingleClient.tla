---------------------------- MODULE MCSingleClient ---------------------------
(* Single-client mode on small instances: three connections, so that a phone can
   come back while its old connection lives and a third one is there, and two
   gateway clients, so that a second one could be made. *)
EXTENDS SingleClient, TLC

Symmetry == Permutations(Phones) \cup Permutations(Gateways)
=============================================================================
