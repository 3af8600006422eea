---------------------------- MODULE MCComposeLock ----------------------------
(* The compose tool on small instances: two or three runs of different kinds, so
   that one can come between two calls of another, and at most one edit of the
   fragments. *)
EXTENDS ComposeLock
=============================================================================
