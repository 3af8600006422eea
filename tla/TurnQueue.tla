------------------------------ MODULE TurnQueue ------------------------------
(***************************************************************************)
(* What the relay promises for agent turns, whatever becomes of the         *)
(* gateway connection: turns are numbered as they come in, are worked on    *)
(* one at a time and in that order, and none is skipped; only shutting      *)
(* down discards those that wait.  GatewayClient implements it.             *)
(***************************************************************************)
EXTENDS Naturals, Sequences

CONSTANT MaxTurns   \* model bound

VARIABLES
  accepted,   \* turns taken in so far
  line,       \* turns waiting, oldest first
  working     \* the turn being worked on, if any, as a set

vars == <<accepted, line, working>>

Init == accepted = 0 /\ line = <<>> /\ working = {}

(* A turn joins the line, or is taken at once when nothing is going on. *)
Accept ==
  /\ accepted < MaxTurns
  /\ accepted' = accepted + 1
  /\ \/ line' = Append(line, accepted + 1) /\ UNCHANGED working
     \/ /\ working = {} /\ line = <<>>
        /\ working' = {accepted + 1}
        /\ UNCHANGED line

Start ==
  /\ working = {} /\ line # <<>>
  /\ working' = {Head(line)}
  /\ line' = Tail(line)
  /\ UNCHANGED accepted

(* The turn worked on is over; the next one may follow at once. *)
Finish ==
  /\ working # {}
  /\ \/ working' = {} /\ UNCHANGED line
     \/ line # <<>> /\ working' = {Head(line)} /\ line' = Tail(line)
  /\ UNCHANGED accepted

Discard ==
  /\ line' = <<>>
  /\ UNCHANGED <<accepted, working>>

Next == Accept \/ Start \/ Finish \/ Discard

Spec == Init /\ [][Next]_vars
=============================================================================
