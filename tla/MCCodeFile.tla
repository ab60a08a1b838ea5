---------------------------- MODULE MCCodeFile ----------------------------
(* Code files for TLC: words of 256 values, addresses of four digits of    *)
(* base 4.                                                                 *)
EXTENDS CodeFile

MCWeight == (0 :> 64) @@ (1 :> 16) @@ (2 :> 4) @@ (3 :> 1)
MCHolds == ("byte" :> 4) @@ ("word" :> 16) @@ ("dword" :> 256)
(* Of each kind, from both ends of its range and next to it.               *)
MCTyped == {0, 11, 36, 47, 64, 65, 130, 191, 192, 240, 250, 251, 255}
MCValues == {0, 5, 17, 255}
MCNamesInFile == UNION {[1 .. n -> {"a", "!", ";"}] : n \in 0 .. 4}
=============================================================================
