--------------------------- MODULE MCRelaySession ----------------------------
(* The relay session on small instances: two tunnel objects, so that a second one
   could be opened beside the first, three registrations, and two conversations where
   the session moves between them. *)
EXTENDS RelaySession
=============================================================================
