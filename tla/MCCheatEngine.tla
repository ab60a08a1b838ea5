--------------------------- MODULE MCCheatEngine ---------------------------
(* Instances of CheatEngine for TLC: the tables the runs use.              *)
EXTENDS CheatLayout

(* The theorems' conditions hold of these tables: of every one those that  *)
(* concern its lines, and, by what the instance uses, those under which    *)
(* values stay at home or backups are the game's.                          *)
ASSUME LayoutAssumption ==
  /\ Laid /\ JokersLead /\ FrozenReached /\ OnePointer
  /\ Orderly => WordsApart
  /\ "move" \notin Uses => Calm /\ AlwaysApart /\ BelowTop

\* Two cheats of plain lines, one line freezing its word.
MCPlainFirst == [c \in 0 .. 1 |-> IF c = 0 THEN 0 ELSE 2]
MCPlainLength == [c \in 0 .. 1 |-> IF c = 0 THEN 2 ELSE 1]
MCPlainKind == [n \in 0 .. 2 |-> "plain"]
MCPlainAddress == [n \in 0 .. 2 |-> n + 1]

\* A cheat of a plain line and one that freezes its word, and a cheat that
\* goes through a pointer to the words 2 and 3.
MCMixedFirst == [c \in 0 .. 1 |-> IF c = 0 THEN 0 ELSE 2]
MCMixedLength == [c \in 0 .. 1 |-> 2]
MCMixedKind == [n \in 0 .. 3 |-> IF n = 2 THEN "pointer" ELSE "plain"]
MCMixedAddress == [n \in 0 .. 3 |-> CASE n = 0 -> 4 [] n = 1 -> 5 [] OTHER -> n - 2]

\* A plain cheat and one that goes through a pointer.
MCPointerFirst == [c \in 0 .. 1 |-> IF c = 0 THEN 0 ELSE 1]
MCPointerLength == [c \in 0 .. 1 |-> IF c = 0 THEN 1 ELSE 2]
MCPointerKind == [n \in 0 .. 2 |-> IF n = 1 THEN "pointer" ELSE "plain"]
MCPointerAddress == [n \in 0 .. 2 |-> IF n = 0 THEN 4 ELSE n - 1]

\* A jokered cheat and a plain one.
MCJokerKind == [n \in 0 .. 2 |-> IF n = 0 THEN "joker" ELSE "plain"]
=============================================================================
