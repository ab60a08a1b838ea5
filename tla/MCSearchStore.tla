--------------------------- MODULE MCSearchStore ---------------------------
(* SearchStore as TLC checks it: every constant is given by the .cfg.      *)
EXTENDS SearchStore

(* Ascending is the community modules' sorting, as a function the proofs   *)
(* can look into.                                                          *)
ASSUME AscendingAssumption ==
  \A S \in SUBSET (0 .. 5) : Ascending(S) = SetToSortSeq(S, <)
=============================================================================
