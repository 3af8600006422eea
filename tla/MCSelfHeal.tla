------------------------------ MODULE MCSelfHeal -----------------------------
(* The self-heal on small instances: one change beside those of the first state,
   where files may differ and trouble may be there, so that it comes while the heal
   after them is under way; two faults, two bodies of a heal and two runs of the
   watchdog, so that each could overlap with itself. *)
EXTENDS SelfHeal

MCSetups == [restart : BOOLEAN, overridden : BOOLEAN]
=============================================================================
