--------------------------- MODULE MCHermesBridge ----------------------------
(* The Hermes bridge on small instances: three messages, so that one waits behind
   another while a third comes in, and two probes beside the turn; each API mode,
   and a bridge without a key. *)
EXTENDS HermesBridge

MCSetups == [key : {TRUE}, chat : BOOLEAN] \cup {[key |-> FALSE, chat |-> TRUE]}
=============================================================================
