------------------------------- MODULE MCDvr --------------------------------
(***************************************************************************)
(* Sources that are alike: which of them does what does not matter to the  *)
(* properties, which are all of safety.                                    *)
(***************************************************************************)
EXTENDS Dvr, TLC

Alike == Permutations(Sources)
=============================================================================
