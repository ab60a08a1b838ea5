---------------------------- MODULE SessionStack ----------------------------
(***************************************************************************)
(* What the searches promise (the Searcher tab of src/objects/crt0_prx.c,  *)
(* without files, types and counters): the listings of a session are a     *)
(* stack.  A search puts its listing on it, undoing takes the newest off,  *)
(* ending the session clears it, and what is shown is always the newest    *)
(* listing; only without any the text search may show what it found.       *)
(***************************************************************************)
EXTENDS Sequences

CONSTANT Nothing    \* the listing shown when there is none

VARIABLES
  stack,        \* the listings, the newest last
  shown         \* the listing that is shown

vars == <<stack, shown>>

Top(s) == IF s = <<>> THEN Nothing ELSE s[Len(s)]

Init == stack = <<>> /\ shown = Nothing

Search == stack' = Append(stack, shown')
Undo ==
  /\ stack # <<>>
  /\ stack = Append(stack', Top(stack))
  /\ shown' = Top(stack')
Clear == stack' = <<>> /\ shown' = Nothing
TextSearch == stack = <<>> /\ UNCHANGED stack

Next == Search \/ Undo \/ Clear \/ TextSearch

Spec == Init /\ [][Next]_vars
=============================================================================
