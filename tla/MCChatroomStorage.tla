-------------------------- MODULE MCChatroomStorage --------------------------
(* Key files on a small instance: two rooms, so that the rotation can stop between
   them, the first with two phones and perhaps a legacy file, the second with a phone
   that does not register again, and one crash or failed write.  Five pairs suffice: at
   most four are in a room's file, its phones' memory and the writes under way. *)
EXTENDS ChatroomStorage

MCPhones == {<<"r1", "main">>, <<"r1", "ios">>}
MCPairs == 1..5
=============================================================================
