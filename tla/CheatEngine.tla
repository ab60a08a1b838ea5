---------------------------- MODULE CheatEngine ----------------------------
(***************************************************************************)
(* The engine of MKIJIRO (src/objects/crt0_prx.c): how the lines of the    *)
(* cheat table are written to the running game and taken back.  Three      *)
(* actors share the game's memory, the flags of the cheats, the backups    *)
(* (stdVal) and the global cheatDMA:                                       *)
(*   - mainThread, which while no menu is open walks the table over and    *)
(*     over (cheatApply(-1)), one line of a cheat per step here;           *)
(*   - buttonCallback, run by the controller driver between any two of     *)
(*     those steps, never itself interrupted by mainThread;                *)
(*   - the game, which writes its words, moves the structures its          *)
(*     pointers lead to, and whose player holds and releases buttons.      *)
(* In the menu, which mainThread runs, the user toggles cheats and edits   *)
(* lines.                                                                  *)
(*                                                                         *)
(* Memory is a row of words 0 .. Top, 0 standing for 0x08800000 and Top    *)
(* for 0x0A000000, the first word past the game's memory.  A value says    *)
(* where it comes from: the game's own value of a word, the value a line   *)
(* writes, the base a pointer line saw.  The table does not change: how    *)
(* it changes is the subject of CheatTable.                                *)
(***************************************************************************)
EXTENDS Integers, FiniteSets

CONSTANTS
  N,            \* the cheats are 0 .. N - 1
  First, Length,\* first line and number of lines of every cheat
  Kind,         \* what every line is: "plain", "cwc", "pointer" or "joker"
  Freeze,       \* the lines with FLAG_FREEZE (a value starting with '_')
  Address,      \* the word, or the offset from the base, a line is loaded with
  Preselected,  \* the cheats the file selects ('!')
  Top,          \* the word at 0x0A000000
  Bases,        \* where the game's pointers may lead; 0 is not a valid base
  Low,          \* the smallest base the trigger's walk records (0x4000)
  CheatHz,      \* is the interval of the passes other than 0?
  EditWords,    \* the words the user may edit a line to
  Uses          \* what this instance contains (see below)

(* "race": the trigger may be pressed in the middle of a pass; "move": the *)
(* game moves the structure its pointer leads to; "write": the game writes *)
(* its words; "hold": jokers are held and released; "early": cheats are    *)
(* toggled before the backups are made; "edit": lines are edited.          *)
AllUses == {"race", "move", "write", "hold", "early", "edit"}

Cheat == 0 .. N - 1
Slot == DOMAIN Kind
Word == 0 .. Top
Pointers == {n \in Slot : Kind[n] = "pointer"}
Jokers == {n \in Slot : Kind[n] = "joker"}

ASSUME TableAssumption ==
  /\ N \in Nat
  /\ First \in [Cheat -> Nat] /\ Length \in [Cheat -> Nat]
  /\ IsFiniteSet(Slot) /\ Slot = 0 .. Cardinality(Slot) - 1
  /\ \A c \in Cheat : First[c] .. First[c] + Length[c] - 1 \subseteq Slot
  /\ Kind \in [Slot -> {"plain", "cwc", "pointer", "joker"}]
  /\ Freeze \subseteq Slot /\ Preselected \subseteq Cheat
ASSUME MemoryAssumption ==
  /\ Top \in Nat /\ Low \in Nat
  /\ Address \in [Slot -> Word] /\ EditWords \subseteq Word
  /\ Bases \subseteq Nat /\ Bases # {}
  /\ CheatHz \in BOOLEAN
  /\ Uses \subseteq AllUses

Game(a) == [is |-> "game", of |-> a]
Hack(n) == [is |-> "hack", of |-> n]
Base(b) == [is |-> "base", of |-> b]
Unset == [is |-> "unset", of |-> 0]
Value == {Game(a) : a \in Word} \cup {Hack(n) : n \in Slot}
           \cup {Base(b) : b \in Bases} \cup {Unset}

VARIABLES
  mem,          \* the game's memory
  pointer,      \* where the word a pointer line names leads, from 0x08800000
  held,         \* the joker lines whose test holds at the moment
  stdVal,       \* the backup of every line
  hakVal,       \* the value every line writes
  address,      \* the word or offset of every line
  selected,     \* FLAG_SELECTED
  constant,     \* FLAG_CONSTANT
  fresh,        \* FLAG_FRESH
  cheatStatus,  \* did the trigger switch the selected cheats on?
  cheatSaved,   \* has the trigger made the backups?
  cheatFlash,   \* passes still due whatever cheatHz
  cheatDMA,     \* the base in force, shared by all actors
  menuDrawn,    \* menu asked for, or open
  pc,           \* what mainThread does
  passOn,       \* cheatStatus as the pass found it
  cur,          \* the cheat the pass has come to
  run           \* the locals of its cheatEnable

lines == <<stdVal, hakVal, address>>
flags == <<selected, constant, fresh>>
status == <<cheatStatus, cheatSaved, cheatFlash>>
main == <<pc, passOn, cur, run>>
game == <<pointer, held>>
vars == <<mem, game, lines, flags, status, cheatDMA, menuDrawn, main>>

Start == [c \in Cheat |-> First[c]]
End == [c \in Cheat |-> First[c] + Length[c]]
NoRun == [at |-> 0, resetDMA |-> FALSE, NULLPOINTER |-> FALSE, joker |-> FALSE]

-----------------------------------------------------------------------------
(* What cheatEnable and cheatDisable work on: the shared memory, backups   *)
(* and base, and the locals of the call.                                   *)
Machine == [mem |-> mem, std |-> stdVal, hak |-> hakVal, dma |-> cheatDMA]
Enter(s, c) ==
  [mem |-> s.mem, std |-> s.std, hak |-> s.hak, dma |-> 0, at |-> Start[c],
   resetDMA |-> FALSE, NULLPOINTER |-> FALSE, joker |-> FALSE]

IsBase(b) == b > 0 /\ b < Top

(* A pointer line.  A base other than the one last seen is recorded and    *)
(* holds back every restore through it; a base that is none switches the   *)
(* lines off until a new one is seen.                                      *)
\* Fault for the checks: the base is used even where it is none.
FollowBlindly(s, n) == [s EXCEPT !.dma = pointer[n], !.resetDMA = FALSE]
FollowPointer(s, n) ==
  LET b == pointer[n]
      t == [s EXCEPT !.dma = b]
  IN IF ~IsBase(b) THEN [t EXCEPT !.NULLPOINTER = TRUE]
     ELSE IF s.std[n] = Base(b) THEN [t EXCEPT !.resetDMA = FALSE]
     ELSE [t EXCEPT !.resetDMA = TRUE, !.NULLPOINTER = FALSE, !.std[n] = Base(b)]

(* Taking a line back, up to the word last: old codes ("cwc") keep what    *)
(* they wrote.                                                             *)
Restore(s, n, last) ==
  LET a == s.dma + address[n]
  IN IF /\ Kind[n] = "plain" /\ a <= last
        /\ ~s.resetDMA /\ ~s.NULLPOINTER
       THEN [s EXCEPT !.mem[a] = s.std[n]]
       ELSE s

(* Writing a line, after its backup where the base is new or where a line  *)
(* that freezes its word is just being switched on.                        *)
\* Faults for the checks: every line under a pointer is backed up every
\* time; a frozen line keeps the value it was loaded with.
WriteBackedUp(s, n, isFresh) ==
  LET a == s.dma + address[n]
  IN IF Kind[n] \in {"plain", "cwc"} /\ a <= Top /\ ~s.NULLPOINTER
       THEN [s EXCEPT !.std[n] = IF s.dma # 0 THEN s.mem[a] ELSE @, !.mem[a] = s.hak[n]]
       ELSE s
WriteUnfrozen(s, n, isFresh) ==
  LET a == s.dma + address[n]
  IN IF Kind[n] \in {"plain", "cwc"} /\ a <= Top /\ ~s.NULLPOINTER
       THEN [s EXCEPT !.std[n] = IF isFresh THEN s.mem[a] ELSE @, !.mem[a] = s.hak[n]]
       ELSE s
Write(s, n, isFresh) ==
  LET a == s.dma + address[n]
      backup == /\ Kind[n] = "plain"
                /\ (s.dma # 0 /\ s.resetDMA) \/ (isFresh /\ n \in Freeze)
      std == IF backup THEN [s.std EXCEPT ![n] = s.mem[a]] ELSE s.std
      hak == IF backup /\ n \in Freeze THEN [s.hak EXCEPT ![n] = s.mem[a]]
             ELSE s.hak
  IN IF Kind[n] \in {"plain", "cwc"} /\ a <= Top /\ ~s.NULLPOINTER
       THEN [s EXCEPT !.std = std, !.hak = hak, !.mem[a] = hak[n]]
       ELSE s

(* One round of cheatEnable's loop.  A joker line is tested and stepped    *)
(* over, to the next line whether or not the cheat has one; as long as its *)
(* button is not held the lines after it are taken back instead.           *)
\* Fault for the checks: with the joker released the lines are passed over.
EnableLineSkipped(s, isFresh) ==
  LET isJoker == Kind[s.at] = "joker"
      n == IF isJoker THEN s.at + 1 ELSE s.at
      t == [s EXCEPT !.at = n + 1,
                     !.joker = @ \/ (isJoker /\ s.at \notin held)]
  IN IF n \notin Slot THEN t
     ELSE IF Kind[n] = "pointer" THEN FollowPointer(t, n)
     ELSE IF t.joker THEN t
     ELSE Write(t, n, isFresh)
EnableLine(s, isFresh) ==
  LET isJoker == Kind[s.at] = "joker"
      n == IF isJoker THEN s.at + 1 ELSE s.at
      t == [s EXCEPT !.at = n + 1,
                     !.joker = @ \/ (isJoker /\ s.at \notin held)]
  IN IF n \notin Slot THEN t
     ELSE IF Kind[n] = "pointer" THEN FollowPointer(t, n)
     ELSE IF t.joker THEN Restore(t, n, Top)
     ELSE Write(t, n, isFresh)

DisableLine(s) ==
  LET t == [s EXCEPT !.at = @ + 1]
  IN IF Kind[s.at] = "pointer" THEN FollowPointer(t, s.at)
     ELSE Restore(t, s.at, Top - 1)

(* A whole call, as the callback and the menu make it: round by round, and *)
(* without its locals in the end.                                          *)
EnableRound(t, c, isFresh) == IF t.at < End[c] THEN EnableLine(t, isFresh) ELSE t
DisableRound(t, c) == IF t.at < End[c] THEN DisableLine(t) ELSE t
Leave(t) == [mem |-> t.mem, std |-> t.std, hak |-> t.hak, dma |-> t.dma]

cheatEnable(s, c, isFresh) ==
  LET round[i \in 0 .. Length[c]] ==
        IF i = 0 THEN Enter(s, c) ELSE EnableRound(round[i - 1], c, isFresh)
  IN Leave(round[Length[c]])
cheatDisable(s, c) ==
  LET round[i \in 0 .. Length[c]] ==
        IF i = 0 THEN Enter(s, c) ELSE DisableRound(round[i - 1], c)
  IN Leave(round[Length[c]])

Becomes(s) ==
  mem' = s.mem /\ stdVal' = s.std /\ hakVal' = s.hak /\ cheatDMA' = s.dma

\* Fault for the checks: FLAG_CONSTANT is not looked at.
OnSelected(c, isOn) == isOn /\ c \in selected
On(c, isOn) == c \in constant \/ (isOn /\ c \in selected)

-----------------------------------------------------------------------------
Init ==
  /\ mem = [a \in Word |-> Game(a)]
  /\ pointer \in [Pointers -> Bases]
  /\ held = {}
  /\ stdVal = [n \in Slot |-> Unset] /\ hakVal = [n \in Slot |-> Hack(n)]
  /\ address = Address
  /\ selected = Preselected /\ constant = {} /\ fresh = {}
  /\ cheatStatus = FALSE /\ cheatSaved = FALSE /\ cheatFlash = 0
  /\ cheatDMA = 0
  /\ menuDrawn = FALSE
  /\ pc = "loop" /\ passOn = FALSE /\ cur = 0 /\ run = NoRun

-----------------------------------------------------------------------------
(* mainThread's loop: the menu if one is asked for, else a pass, which     *)
(* does nothing before the backups are made.                               *)
EnterMenu ==
  /\ pc = "loop" /\ menuDrawn
  /\ pc' = "menu"
  /\ UNCHANGED <<mem, game, lines, flags, status, cheatDMA, menuDrawn,
                 passOn, cur, run>>

\* Fault for the checks: the count goes on below 0.
AfterPassUnguarded == cheatFlash - 1
AfterPass == IF cheatFlash > 0 THEN cheatFlash - 1 ELSE 0

StartPass ==
  /\ pc = "loop" /\ ~menuDrawn
  /\ CheatHz \/ cheatFlash > 0
  /\ IF cheatSaved
       THEN pc' = "pass" /\ passOn' = cheatStatus /\ cur' = 0 /\ UNCHANGED cheatFlash
       ELSE cheatFlash' = AfterPass /\ UNCHANGED <<pc, passOn, cur>>
  /\ UNCHANGED <<mem, game, lines, flags, cheatStatus, cheatSaved, cheatDMA,
                 menuDrawn, run>>

(* The next cheat: its flags are read now, cheatStatus is not.             *)
\* Fault for the checks: a cheat that is off is not stepped over.
PassCheatStuck ==
  /\ pc = "pass" /\ cur < N /\ On(cur, passOn)
  /\ pc' = "enable" /\ cheatDMA' = 0
  /\ run' = [NoRun EXCEPT !.at = Start[cur]]
  /\ UNCHANGED <<mem, game, lines, flags, status, menuDrawn, passOn, cur>>
PassCheat ==
  /\ pc = "pass" /\ cur < N
  /\ IF On(cur, passOn)
       THEN /\ pc' = "enable" /\ cheatDMA' = 0
            /\ run' = [NoRun EXCEPT !.at = Start[cur]]
            /\ UNCHANGED cur
       ELSE cur' = cur + 1 /\ UNCHANGED <<pc, cheatDMA, run>>
  /\ UNCHANGED <<mem, game, lines, flags, status, menuDrawn, passOn>>

PassLine ==
  /\ pc = "enable" /\ run.at < End[cur]
  /\ LET s == EnableLine([mem |-> mem, std |-> stdVal, hak |-> hakVal,
                          dma |-> cheatDMA, at |-> run.at,
                          resetDMA |-> run.resetDMA,
                          NULLPOINTER |-> run.NULLPOINTER,
                          joker |-> run.joker], cur \in fresh)
     IN /\ Becomes(s)
        /\ run' = [at |-> s.at, resetDMA |-> s.resetDMA,
                   NULLPOINTER |-> s.NULLPOINTER, joker |-> s.joker]
  /\ UNCHANGED <<game, address, flags, status, menuDrawn, pc, passOn, cur>>

PassCheatEnd ==
  /\ pc = "enable" /\ run.at >= End[cur]
  /\ fresh' = fresh \ {cur}
  /\ cur' = cur + 1 /\ pc' = "pass" /\ run' = NoRun
  /\ UNCHANGED <<mem, game, lines, selected, constant, status, cheatDMA,
                 menuDrawn, passOn>>

EndPass ==
  /\ pc = "pass" /\ cur = N
  /\ pc' = "loop" /\ cur' = 0 /\ passOn' = FALSE
  /\ cheatFlash' = AfterPass
  /\ UNCHANGED <<mem, game, lines, flags, cheatStatus, cheatSaved, cheatDMA,
                 menuDrawn, run>>

MainStep == EnterMenu \/ StartPass \/ PassCheat \/ PassLine \/ PassCheatEnd \/ EndPass

-----------------------------------------------------------------------------
(* buttonCallback.  A key for the menu only asks for it.                   *)
PressMenu ==
  /\ ~menuDrawn
  /\ menuDrawn' = TRUE
  /\ UNCHANGED <<mem, game, lines, flags, status, cheatDMA, main>>

(* The first trigger backs every line up, through the pointer before it in *)
(* its cheat, in force even where it is no base.                           *)
BackUpLine(s, n) ==
  LET t == IF \E c \in Cheat : Start[c] = n THEN [s EXCEPT !.dma = 0] ELSE s
      a == t.dma + address[n]
  IN IF Kind[n] = "pointer"
       THEN [t EXCEPT !.dma = pointer[n],
                      !.std[n] = IF Low <= pointer[n] /\ pointer[n] < Top
                                   THEN Base(pointer[n]) ELSE @]
       ELSE IF Kind[n] # "joker" /\ a < Top THEN [t EXCEPT !.std[n] = s.mem[a]]
       ELSE t
BackUp(s) ==
  LET line[i \in 0 .. Cardinality(Slot)] ==
        IF i = 0 THEN s ELSE BackUpLine(line[i - 1], i - 1)
  IN line[Cardinality(Slot)]

(* Then every trigger flips cheatStatus and switches the selected cheats;  *)
(* the constant ones are switched on by the first.                         *)
\* Fault for the checks: cheatStatus is read before it is flipped.
PressCheatEarly(s, c, isOn) ==
  IF c \in selected
    THEN IF cheatStatus THEN cheatEnable(s, c, TRUE) ELSE cheatDisable(s, c)
    ELSE s
PressCheat(s, c, isOn) ==
  LET t == IF c \in constant /\ ~cheatSaved THEN cheatEnable(s, c, TRUE) ELSE s
  IN IF c \in selected
       THEN IF isOn THEN cheatEnable(t, c, TRUE) ELSE cheatDisable(t, c)
       ELSE t

\* Fault for the checks: the constant cheats stay marked.
StillFreshConstant == fresh \ selected
StillFresh == fresh \ (selected \cup (IF cheatSaved THEN {} ELSE constant))

Pressed ==
  LET done[i \in 0 .. N] ==
        IF i = 0 THEN IF cheatSaved THEN Machine ELSE BackUp(Machine)
        ELSE PressCheat(done[i - 1], i - 1, ~cheatStatus)
  IN done[N]

PressTrigger ==
  /\ ~menuDrawn
  /\ "race" \in Uses \/ pc = "loop"
  /\ cheatStatus' = ~cheatStatus
  /\ Becomes(Pressed)
  /\ fresh' = StillFresh
  /\ cheatSaved' = TRUE
  /\ UNCHANGED <<game, address, selected, constant, cheatFlash, menuDrawn, main>>

-----------------------------------------------------------------------------
(* The menu.  A toggle marks its cheat fresh, and cheatApply(0) switches   *)
(* every fresh cheat; before the backups are made it does nothing.         *)
ApplyFresh(s, c, sel, con, fr) ==
  IF c \notin fr THEN s
  ELSE IF c \in con \/ (cheatStatus /\ c \in sel) THEN cheatEnable(s, c, TRUE)
  ELSE cheatDisable(s, c)

Applied(sel, con, fr) ==
  LET done[i \in 0 .. N] ==
        IF i = 0 THEN Machine ELSE ApplyFresh(done[i - 1], i - 1, sel, con, fr)
  IN done[N]

Toggle(sel, con, c) ==
  LET fr == fresh \cup {c}
  IN /\ selected' = sel /\ constant' = con
     /\ IF cheatSaved
          THEN /\ Becomes(Applied(sel, con, fr))
               /\ fresh' = {} /\ cheatFlash' = 2
          ELSE fresh' = fr /\ UNCHANGED <<mem, stdVal, hakVal, cheatDMA, cheatFlash>>
     /\ UNCHANGED <<game, address, cheatStatus, cheatSaved, menuDrawn, main>>

Flip(S, c) == IF c \in S THEN S \ {c} ELSE S \cup {c}

ToggleSelected(c) ==
  /\ pc = "menu"
  /\ cheatSaved \/ "early" \in Uses
  /\ Toggle(Flip(selected, c), constant \ {c}, c)

ToggleConstant(c) ==
  /\ pc = "menu"
  /\ cheatSaved \/ "early" \in Uses
  /\ Toggle(selected \ {c}, Flip(constant, c), c)

(* Editing a line first takes back what it wrote and, for a new address,   *)
(* backs up the word it now names, each through whatever base is in force. *)
Restorable(n, a) == cheatSaved /\ Kind[n] = "plain" /\ 0 < a /\ a < Top

\* What restore(0) leaves in memory.  Fault for the checks: nothing is taken back.
NotTakenBack(n) == mem
TakenBack(n) ==
  LET a == cheatDMA + address[n]
  IN IF Restorable(n, a) THEN [mem EXCEPT ![a] = stdVal[n]] ELSE mem

\* What restore(1) makes of the backups.  Fault for the checks: nothing.
NoBackup(n, a) == stdVal
NewBackup(n, a) == IF Restorable(n, a) THEN [stdVal EXCEPT ![n] = mem'[a]] ELSE stdVal

EditValue(n) ==
  /\ pc = "menu" /\ "edit" \in Uses
  /\ mem' = TakenBack(n)
  /\ UNCHANGED <<game, lines, flags, status, cheatDMA, menuDrawn, main>>

(* Two lines for one word are not modelled.                                *)
EditAddress(n, w) ==
  /\ pc = "menu" /\ "edit" \in Uses
  /\ Kind[n] \in {"plain", "cwc"}
  /\ \A m \in Slot : address[m] # w
  /\ address' = [address EXCEPT ![n] = w]
  /\ mem' = TakenBack(n)
  /\ stdVal' = NewBackup(n, cheatDMA + w)
  /\ UNCHANGED <<game, hakVal, flags, status, cheatDMA, menuDrawn, main>>

LeaveMenu ==
  /\ pc = "menu"
  /\ pc' = "loop" /\ menuDrawn' = FALSE
  /\ UNCHANGED <<mem, game, lines, flags, status, cheatDMA, passOn, cur, run>>

Menu ==
  \/ \E c \in Cheat : ToggleSelected(c) \/ ToggleConstant(c)
  \/ \E n \in Slot : EditValue(n) \/ \E w \in EditWords : EditAddress(n, w)
  \/ LeaveMenu

-----------------------------------------------------------------------------
(* The game: not modelled from code under src/, only what the engine meets.*)
GameWrite ==
  /\ "write" \in Uses
  /\ \E a \in Word : mem[a] # Game(a) /\ mem' = [mem EXCEPT ![a] = Game(a)]
  /\ UNCHANGED <<game, lines, flags, status, cheatDMA, menuDrawn, main>>

GameMove ==
  /\ "move" \in Uses
  /\ \E n \in Pointers, b \in Bases : b # pointer[n] /\ pointer' = [pointer EXCEPT ![n] = b]
  /\ UNCHANGED <<mem, held, lines, flags, status, cheatDMA, menuDrawn, main>>

HoldOrRelease ==
  /\ "hold" \in Uses
  /\ \E n \in Jokers : held' = Flip(held, n)
  /\ UNCHANGED <<mem, pointer, lines, flags, status, cheatDMA, menuDrawn, main>>

GameStep == GameWrite \/ GameMove \/ HoldOrRelease

Next == MainStep \/ PressMenu \/ PressTrigger \/ Menu \/ GameStep

Spec == Init /\ [][Next]_vars

(* mainThread is never blocked for good outside the menu: it waits a fixed *)
(* time between passes.  Nothing obliges the user or the game.             *)
FairSpec == Spec /\ WF_vars(MainStep)

-----------------------------------------------------------------------------
LinesOf(c) == Start[c] .. End[c] - 1
Plain == {n \in Slot : Kind[n] = "plain"}

(* The pointer line in force at a line of its cheat, if there is one.      *)
PointersOf(c, n) ==
  {m \in LinesOf(c) \cap Pointers : m < n /\ m + 1 .. n - 1 \cap Pointers = {}}
OwnBases(c, n) == IF PointersOf(c, n) = {} THEN {0} ELSE {b \in Bases : IsBase(b)}
OwnBase(c, n) ==
  IF PointersOf(c, n) = {} THEN 0 ELSE pointer[CHOOSE m \in PointersOf(c, n) : TRUE]

TypeOK ==
  /\ mem \in [Word -> Value]
  /\ pointer \in [Pointers -> Bases] /\ held \subseteq Jokers
  /\ stdVal \in [Slot -> Value] /\ hakVal \in [Slot -> Value]
  /\ address \in [Slot -> Word]
  /\ selected \subseteq Cheat /\ constant \subseteq Cheat /\ fresh \subseteq Cheat
  /\ cheatStatus \in BOOLEAN /\ cheatSaved \in BOOLEAN /\ cheatFlash \in 0 .. 2
  /\ cheatDMA \in Bases \cup {0}
  /\ menuDrawn \in BOOLEAN
  /\ pc \in {"loop", "menu", "pass", "enable"}
  /\ passOn \in BOOLEAN /\ cur \in 0 .. N
  /\ run \in [at : Nat, resetDMA : BOOLEAN, NULLPOINTER : BOOLEAN, joker : BOOLEAN]

(* "If selected, will be disabled/enabled by music button": between passes *)
(* no word of the game holds the value of a line whose cheat is off,       *)
(* however the trigger, the toggles, the passes and the edits followed one *)
(* another ("cwc" lines excepted, which are never taken back).             *)
SwitchedOff ==
  pc \in {"loop", "menu"} =>
    \A c \in Cheat \ fresh : ~On(c, cheatStatus) =>
      \A n \in LinesOf(c) \cap Plain, a \in Word : mem[a] # Hack(n)

(* A line's value only ever reaches the line's own word: through a valid   *)
(* base its pointer line can have seen, or, without one, the word named.   *)
(* Code under a base that is none is not executed, and a line that is      *)
(* given another address leaves nothing at the old one.                    *)
HacksAtOwnWords ==
  \A c \in Cheat : \A n \in LinesOf(c) \cap Plain, a \in Word :
    mem[a] = Hack(n) => \E b \in OwnBases(c, n) : a = b + address[n]

(* Once the backups are made, what every plain line puts back is the       *)
(* game's value of the line's own word: never a value the engine wrote,    *)
(* never another word's.                                                   *)
BackupIsGames ==
  cheatSaved =>
    \A c \in Cheat : \A n \in LinesOf(c) \cap Plain :
      LET b == OwnBase(c, n)
      IN (b = 0 \/ IsBase(b)) /\ b + address[n] < Top
           => stdVal[n] = Game(b + address[n])

(* A line that freezes its word never writes the filler value it was       *)
(* loaded with.                                                            *)
FreezeNeverInvents == \A n \in Freeze, a \in Word : mem[a] # Hack(n)

(* Once the backups are made no cheat that is marked to be on waits for    *)
(* cheatApply(0): the pass never runs a cheat that should still be backed  *)
(* up.                                                                     *)
FreshHandled == cheatSaved => fresh \cap (selected \cup constant) = {}

(* With passes running, a constant cheat's plain lines are written again   *)
(* and again, whatever the game and the trigger do.                        *)
Simple(c) == \A n \in LinesOf(c) : Kind[n] = "plain"
Undisturbed == <>[]~menuDrawn
ConstantHeld ==
  \A c \in Cheat : Simple(c) =>
    \A n \in LinesOf(c) :
      (<>[](c \in constant /\ cheatSaved) /\ Undisturbed)
        => []<>(mem[address[n]] = hakVal[n])

(* A jokered cheat that stays on with its button released leaves the words *)
(* of its lines with the game's own values for good.                       *)
JokerReleased ==
  \A c \in Cheat : (Length[c] > 0 /\ Start[c] \in Jokers) =>
    \A n \in LinesOf(c) \cap Plain :
      (<>[](On(c, cheatStatus) /\ cheatSaved /\ Start[c] \notin held) /\ Undisturbed)
        => <>[](mem[address[n]] = Game(address[n]))

(* A menu asked for in the middle of a pass opens.                         *)
MenuOpens == menuDrawn ~> pc = "menu"
=============================================================================
