---------------------------- MODULE CheatLayout ----------------------------
(* What the theorems about CheatEngine ask of a table and of an instance.  *)
(* The comments say what the code does where a condition fails, or that    *)
(* only the proof needs it.  MCCheatEngine has TLC evaluate them on the    *)
(* tables of its runs.                                                     *)
EXTENDS CheatEngine

(* Lines that write to the game.                                           *)
Written(n) == Kind[n] \in {"plain", "cwc"}

(* A line belongs to one cheat, and no cheat starts in the middle of       *)
(* another one, where the trigger's walk would take the base back to 0.    *)
OneCheat == \A c, d \in Cheat : c # d => LinesOf(c) \cap LinesOf(d) = {}
Laid == OneCheat /\ \A c, d \in Cheat : Start[d] \notin Start[c] + 1 .. End[c] - 1

(* A joker has a line behind it: as the last line it would take the first  *)
(* line of the next cheat with it.                                         *)
JokersLead == \A c \in Cheat : \A n \in LinesOf(c) : Kind[n] = "joker" => n + 1 \in LinesOf(c)

(* The call that switches a cheat on reaches its frozen lines, or no later *)
(* pass does: no joker stands before one in its cheat (while its button is *)
(* released the call takes back, and a later pass writes the filler); a    *)
(* pointer may, the only one before it, if it stays where it leads (a base *)
(* that is none holds the line back now, and one that returns lets it go)  *)
(* and every base leads to words of the memory, whatever the line is       *)
(* edited to (a word beyond is not captured, and the edit brings it back). *)
(* An old code is never backed up.                                         *)
FrozenReached ==
  \A c \in Cheat : \A n \in LinesOf(c) \cap Freeze :
    /\ Kind[n] = "plain"
    /\ \A m \in Start[c] .. n : Kind[m] # "joker"
    /\ \A p, q \in LinesOf(c) \cap Pointers : p < n /\ q < n => p = q
    /\ PointersOf(c, n) # {} => "move" \notin Uses
    /\ \A b \in OwnBases(c, n), w \in EditWords \cup {Address[n]} : b + w <= Top

(* A cheat has one pointer line at most: a second one, whose base is       *)
(* recorded, does not lift the NULLPOINTER the first one's bad base left.  *)
OnePointer == \A c \in Cheat : \A n, m \in LinesOf(c) \cap Pointers : n = m
NoPointers == Pointers = {}

(* The words of a line: any it reaches through a valid base of its         *)
(* pointer, or the one it names.  Two lines that write have none in        *)
(* common: the second would back up what the first wrote.                  *)
OwnAt(c, n, a) == \E b \in OwnBases(c, n) : a = b + Address[n]
WordsApart ==
  \A c, d \in Cheat : \A n \in LinesOf(c), m \in LinesOf(d) : \A a \in Word :
    Written(n) /\ Written(m) /\ OwnAt(c, n, a) /\ OwnAt(d, m, a) => n = m

(* The same for one choice p of where the pointers lead and one choice A   *)
(* of the addresses: the word of a line is then one and the same.          *)
BaseBy(p, c, n) ==
  IF PointersOf(c, n) = {} THEN 0 ELSE p[CHOOSE m \in PointersOf(c, n) : TRUE]
ReachedBy(p, c, n) == PointersOf(c, n) = {} \/ IsBase(BaseBy(p, c, n))
WordBy(p, A, c, n) == BaseBy(p, c, n) + A[n]
ApartBy(p, A) ==
  \A c, d \in Cheat : \A n \in LinesOf(c), m \in LinesOf(d) :
    /\ Written(n) /\ Written(m) /\ ReachedBy(p, c, n) /\ ReachedBy(p, d, m)
    /\ WordBy(p, A, c, n) = WordBy(p, A, d, m)
    => n = m
AlwaysApart == \A p \in [Pointers -> Bases] : ApartBy(p, Address)

(* No plain line's word is the one at Top, which cheatEnable writes and    *)
(* cheatDisable does not take back.                                        *)
BelowTop ==
  \A p \in [Pointers -> Bases], c \in Cheat : \A n \in LinesOf(c) \cap Plain :
    ReachedBy(p, c, n) => WordBy(p, Address, c, n) # Top

(* Instances whose trigger waits for the end of the pass: in the middle of *)
(* one it leaves the pass another cheat's base, and a cheat that is off    *)
(* half written.                                                           *)
Waits == "race" \notin Uses

(* And whose lines are not edited: behind a pointer an edit goes through   *)
(* the base in force.                                                      *)
Orderly == Waits /\ "edit" \notin Uses

(* Instances where the game leaves its pointers alone.  The trigger in the *)
(* middle of a pass and the edits use the base in force, whose cheat may   *)
(* be another one, and are safe only where there are no pointers; an edit  *)
(* takes back neither an old code nor the value a freezing line keeps, and *)
(* restores only between the ends of the memory.                           *)
Calm ==
  /\ "move" \notin Uses
  /\ "race" \in Uses => NoPointers
  /\ "edit" \in Uses =>
       /\ NoPointers /\ Freeze = {} /\ \A n \in Slot : Kind[n] # "cwc"
       /\ Slot = UNION {LinesOf(c) : c \in Cheat}
       /\ \A n \in Plain : Address[n] \in 1 .. Top - 1
       /\ EditWords \subseteq 1 .. Top - 1
=============================================================================
