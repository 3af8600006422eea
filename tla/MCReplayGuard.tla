---------------------------- MODULE MCReplayGuard ----------------------------
(* The replay guard with two nonces and two keys, the window and the nonce
   lifetime at their default ratio (NonceTtl = 2 * MaxAge, the boundary). *)
EXTENDS ReplayGuard, TLC

Symmetry == Permutations(Nonces)
=============================================================================
