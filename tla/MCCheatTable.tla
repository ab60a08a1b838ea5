---------------------------- MODULE MCCheatTable ----------------------------
(* Instances of CheatTable for TLC.                                        *)
EXTENDS CheatTable

\* What lies before cheat[] in the zeroed data section.
MCBefore == [block |-> 0, len |-> 0]
=============================================================================
