------------------------------ MODULE MCSender ------------------------------
(***************************************************************************)
(* Sender with an answer, a change of the chunk size and five kinds of     *)
(* media message: a long one without the player's stream id, one with it   *)
(* and an extended time, one that is unsafe, one with a chunk stream id of *)
(* two bytes, and an empty one.                                            *)
(***************************************************************************)
EXTENDS Sender

MCPackets ==
  {[cid |-> 3, time |-> 0, sid |-> 0, len |-> 2, size |-> 0],
   [cid |-> 2, time |-> 0, sid |-> 0, len |-> 1, size |-> 2]}

MCMedia ==
  {[cid |-> 6, time |-> 4, sid |-> 0, len |-> 5, size |-> 0],
   [cid |-> 6, time |-> 15, sid |-> 1, len |-> 2, size |-> 0],
   [cid |-> 6, time |-> 7, sid |-> 0, len |-> 2, size |-> 0],
   [cid |-> 64, time |-> 0, sid |-> 0, len |-> 1, size |-> 0],
   [cid |-> 4, time |-> 0, sid |-> 1, len |-> 0, size |-> 0]}
=============================================================================
