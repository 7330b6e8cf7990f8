----------------------------- MODULE MCPackets ------------------------------
(***************************************************************************)
(* Packets over two numbers and three strings: an empty one, one whose     *)
(* first byte is the end-of-object marker and one of two bytes.            *)
(***************************************************************************)
EXTENDS Packets

MCNumbers == {One, <<20, 9, 0, 0, 0, 0, 0, 9>>}
MCTexts   == {<<>>, <<9>>, <<0, 9>>}
=============================================================================
