---------------------------- MODULE MCDecoder ----------------------------
(* The memory editor and the decoder for TLC: a memory of seven words.     *)
EXTENDS Decoder

MCWeight == (0 :> 8) @@ (1 :> 1)
MCStick == {-1, 1}
(* One result below the memory, one in it, one that a char does not reach. *)
MCFound == {0, 14, 26}
MCGarbage == {3, 12}
MCTogether ==
  {{"browse"}, {"move", "log"}, {"log", "viewer"}, {"move", "marks", "digits"}, {"move", "results"}}
=============================================================================
