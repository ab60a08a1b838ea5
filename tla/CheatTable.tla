----------------------------- MODULE CheatTable -----------------------------
(***************************************************************************)
(* The cheat table of MKIJIRO (src/objects/crt0_prx.c): the array cheat[]  *)
(* of entries, each naming a run of lines of the array block[], and the    *)
(* two totals.  Modelled here: which lines belong to which cheat, under    *)
(* every operation that moves them (loading the code file, refreshing it,  *)
(* adding a cheat from the options, from a search result or from a range   *)
(* of the decoder, copying a cheat, swapping two cheats, the editor's      *)
(* cursor), and for which address each line's backup (stdVal) was read by  *)
(* the trigger button's callback.                                          *)
(*                                                                         *)
(* The arrays are 0-based as in the code.  What a line writes and when is  *)
(* the subject of CheatEngine, not of this module; a line is here a        *)
(* pointer line (FLAG_DMA) or a plain one, with the word it concerns.      *)
(***************************************************************************)
EXTENDS Integers, FiniteSets

CONSTANTS
  NAME_MAX,     \* entries of cheat[]
  BLOCK_MAX,    \* entries of block[]
  MaxLength,    \* bound: the largest length asked of "Add new cheat" or of a decoder range
  Page,         \* lines the editor's L and R buttons jump (27 in the code)
  Addr,         \* the words of game memory a line may name
  None,         \* no address
  Before,       \* what the memory just before cheat[] reads as, taken as an entry
  Uses          \* the optional operations this instance contains (see below)

(* "swap": the user reorders cheats; "refresh": the user reloads the code  *)
(* file; "empty": cheats without any line exist (a heading alone in the    *)
(* file, "Add new cheat #0", a decoder range of one word).                 *)
AllUses == {"swap", "refresh", "empty"}

ASSUME BoundsAssumption ==
  /\ NAME_MAX \in Nat \ {0}
  /\ BLOCK_MAX \in Nat \ {0}
  /\ MaxLength \in Nat \ {0}
  /\ Page \in Nat \ {0}
ASSUME ValueAssumption == None \notin Addr /\ Uses \subseteq AllUses
ASSUME BeforeAssumption == Before \in [block : Nat, len : Nat]

VARIABLES
  cheat,        \* cheat[]: first line and number of lines of every entry
  cheatTotal,   \* entries in use
  block,        \* block[], and the words after it a long cheatNew reaches
  blockTotal,   \* lines in use
  cheatSelected,\* the entry under the cursor of the Cheater tab
  cheatLength,  \* the length the options offer for a new cheat
  cheatSaved,   \* has the trigger button made the backups?
  nameMode,     \* cheatLoad: inside a cheat's name
  commentMode,  \* cheatLoad: after a ';'
  extSelected,  \* the line under the editor's cursor
  screen        \* what the plugin is doing

vars == <<cheat, cheatTotal, block, blockTotal, cheatSelected, cheatLength,
          cheatSaved, nameMode, commentMode, extSelected, screen>>
loader == <<nameMode, commentMode>>
table == <<cheat, cheatTotal, block, blockTotal>>

Index == 0 .. NAME_MAX - 1
Slot == 0 .. BLOCK_MAX + MaxLength - 2

(* The value of cheatSelected after it wrapped below 0 on an empty table:  *)
(* 65535, an index outside cheat[].  Every such index is this one value.   *)
NoEntry == NAME_MAX

(* A line, and the origin of its backup: None, or the pointer in force     *)
(* (None without one) and the word itself.                                 *)
Origin == {None} \cup [base : Addr \cup {None}, addr : Addr]
Line == [dma : BOOLEAN, addr : Addr, std : Origin]
Entry == [block : Nat, len : Nat]

Start(c) == cheat[c].block
End(c) == cheat[c].block + cheat[c].len
Listed == 0 .. cheatTotal - 1
Lines(c) == Start(c) .. End(c) - 1
LastEntry == IF cheatTotal = 0 THEN Before ELSE cheat[cheatTotal - 1]
\* Faults for the checks: an end one too far, and an end that forgets the length.
LastEndPlusOne == LastEntry.block + LastEntry.len + 1
LastEndNoLength == LastEntry.block
LastEnd == LastEntry.block + LastEntry.len
LastIndex == IF cheatTotal = 0 THEN NoEntry ELSE cheatTotal - 1

AllowEmpty == "empty" \in Uses
LastHasLines == cheatTotal > 0 => cheat[cheatTotal - 1].len > 0

Loading == screen \in {"boot", "reboot", "refresh"}

-----------------------------------------------------------------------------
(* The memory as the module finds it: zeroed totals and entries, lines of  *)
(* any content that nothing lists yet.                                     *)
Init ==
  /\ cheat = [c \in Index |-> [block |-> 0, len |-> 0]]
  /\ cheatTotal = 0 /\ blockTotal = 0
  /\ \E a \in Addr :
       block = [n \in Slot |-> [dma |-> FALSE, addr |-> a, std |-> None]]
  /\ cheatSelected = 0 /\ cheatLength = 0 /\ cheatSaved = FALSE
  /\ nameMode = FALSE /\ commentMode = FALSE
  /\ extSelected = 0
  /\ screen = "boot"

(* cheatLoad reads one character of the file.  A line end closes a name.   *)
LoadEol ==
  /\ Loading
  /\ commentMode' = FALSE
  /\ nameMode' = FALSE
  /\ cheatTotal' = IF nameMode THEN cheatTotal + 1 ELSE cheatTotal
  /\ UNCHANGED <<cheat, block, blockTotal, cheatSelected, cheatLength,
                 cheatSaved, extSelected, screen>>

(* ';' opens a comment and closes a name.                                  *)
LoadSemicolon ==
  /\ Loading
  /\ commentMode' = TRUE
  /\ nameMode' = FALSE
  /\ cheatTotal' = IF nameMode THEN cheatTotal + 1 ELSE cheatTotal
  /\ UNCHANGED <<cheat, block, blockTotal, cheatSelected, cheatLength,
                 cheatSaved, extSelected, screen>>

(* The file is over, or the loader gave up.  At boot an empty table makes  *)
(* mainThread write a file with one cheat and load that.                   *)
LoadStop(total) ==
  /\ cheatTotal' = IF screen = "boot" /\ total = 0 THEN 0 ELSE total
  /\ blockTotal' = IF screen = "boot" /\ total = 0 THEN 0 ELSE blockTotal
  /\ screen' = CASE screen = "boot" -> IF total = 0 THEN "reboot" ELSE "game"
                 [] screen = "reboot" -> "game"
                 [] screen = "refresh" -> "other"
  /\ nameMode' = FALSE /\ commentMode' = FALSE
  /\ UNCHANGED <<cheat, block, cheatSelected, cheatLength, cheatSaved,
                 extSelected>>

LoadEof ==
  /\ Loading
  /\ AllowEmpty \/ LastHasLines
  /\ LoadStop(cheatTotal)

(* '#' starts a cheat, in a comment too; a full table ends the load.       *)
LoadHash ==
  /\ Loading
  /\ AllowEmpty \/ LastHasLines
  /\ IF cheatTotal >= NAME_MAX
       THEN LoadStop(cheatTotal)
       ELSE /\ cheat' = [cheat EXCEPT ![cheatTotal] =
                           [block |-> blockTotal, len |-> 0]]
            /\ nameMode' = TRUE
            /\ UNCHANGED <<cheatTotal, block, blockTotal, cheatSelected,
                 cheatLength, cheatSaved, commentMode, extSelected, screen>>

(* Any other character outside names and comments is the start of a code   *)
(* line.  When no line is left the cheat being read is dropped.  A pointer *)
(* line's stdVal is set, a plain line's is left as the slot has it.        *)
LoadCode ==
  /\ Loading /\ ~nameMode /\ ~commentMode
  /\ IF blockTotal # BLOCK_MAX
       THEN /\ \E d \in BOOLEAN, a \in Addr :
                 block' = [block EXCEPT ![blockTotal] =
                   [dma |-> d, addr |-> a,
                    std |-> IF d THEN None ELSE block[blockTotal].std]]
            /\ blockTotal' = blockTotal + 1
            /\ cheat' = IF cheatTotal = 0 THEN cheat
                        ELSE [cheat EXCEPT ![cheatTotal - 1].len = @ + 1]
            /\ UNCHANGED <<cheatTotal, cheatSelected, cheatLength, cheatSaved,
                           loader, extSelected, screen>>
       ELSE cheatTotal # 0 /\ LoadStop(cheatTotal - 1)

Load == LoadEol \/ LoadSemicolon \/ LoadEof \/ LoadHash \/ LoadCode

-----------------------------------------------------------------------------
(* buttonCallback, menu keys.  The tab last used is not kept: from the     *)
(* game either kind of tab may come back.                                  *)
OpenMenu ==
  /\ screen = "game"
  /\ \/ /\ screen' = "cheater"
        /\ cheatSelected' = IF cheatSelected >= cheatTotal THEN 0
                            ELSE cheatSelected
     \/ screen' = "other" /\ cheatSelected' = 0
  /\ UNCHANGED <<table, cheatLength, cheatSaved, loader, extSelected>>

LeaveMenu ==
  /\ screen \in {"cheater", "other"}
  /\ screen' = "game"
  /\ UNCHANGED <<table, cheatSelected, cheatLength, cheatSaved, loader,
                 extSelected>>

(* L and R: the other tabs use cheatSelected as a row of their own, of     *)
(* which only the return to 0 is kept.                                     *)
SwitchTab ==
  /\ \/ screen = "cheater" /\ screen' = "other"
     \/ screen = "other" /\ screen' = "cheater"
  /\ cheatSelected' = 0 /\ extSelected' = 0
  /\ UNCHANGED <<table, cheatLength, cheatSaved, loader>>

(* Up and down on the Cheater tab; with L held ("code swapper") the entry  *)
(* moves with the cursor.  On an empty table 0 - 1 wraps.                  *)
Swapped(c, d) == [cheat EXCEPT ![c] = cheat[d], ![d] = cheat[c]]

MoveUp ==
  /\ screen = "cheater" /\ cheatSelected # NoEntry
  /\ IF cheatSelected > 0
       THEN /\ cheatSelected' = cheatSelected - 1
            /\ \/ UNCHANGED cheat
               \/ "swap" \in Uses /\ cheat' = Swapped(cheatSelected - 1, cheatSelected)
       ELSE cheatSelected' = LastIndex /\ UNCHANGED cheat
  /\ UNCHANGED <<cheatTotal, block, blockTotal, cheatLength, cheatSaved,
                 loader, extSelected, screen>>

MoveDown ==
  /\ screen = "cheater" /\ cheatSelected < cheatTotal
  /\ IF cheatSelected < cheatTotal - 1
       THEN /\ cheatSelected' = cheatSelected + 1
            /\ \/ UNCHANGED cheat
               \/ "swap" \in Uses /\ cheat' = Swapped(cheatSelected + 1, cheatSelected)
       ELSE cheatSelected' = 0 /\ UNCHANGED cheat
  /\ UNCHANGED <<cheatTotal, block, blockTotal, cheatLength, cheatSaved,
                 loader, extSelected, screen>>

(* SELECT: "copy cheat to new".  The new entry starts where the entry at   *)
(* the end of the list stops, not where the lines in use stop.  With the   *)
(* cursor on NoEntry the code goes on with what lies far behind cheat[],   *)
(* here as in the editor, the name and the marks: that is not modelled.    *)
\* Fault for the checks: source and destination exchanged.
CopiedBack(from, to, len) ==
  [n \in Slot |-> IF n \in from .. from + len - 1 THEN block[to + (n - from)]
                  ELSE block[n]]
Copied(from, to, len) ==
  [n \in Slot |-> IF n \in to .. to + len - 1 THEN block[from + (n - to)]
                  ELSE block[n]]

CopyCheat ==
  /\ screen = "cheater" /\ cheatSelected # NoEntry
  /\ AllowEmpty \/ cheatTotal > 0
  /\ cheatTotal < NAME_MAX
  /\ LET source == cheat[cheatSelected]
     IN /\ blockTotal + source.len < BLOCK_MAX
        /\ cheat' = [cheat EXCEPT ![cheatTotal] =
                       [block |-> LastEnd, len |-> source.len]]
        /\ block' = Copied(source.block, LastEnd, source.len)
        /\ blockTotal' = blockTotal + source.len
  /\ cheatTotal' = cheatTotal + 1
  /\ UNCHANGED <<cheatSelected, cheatLength, cheatSaved, loader, extSelected,
                 screen>>

(* TRIANGLE opens the editor at the selected cheat's first line.           *)
EditCheat ==
  /\ screen = "cheater" /\ cheatSelected # NoEntry
  /\ extSelected' = cheat[cheatSelected].block
  /\ screen' = "editor"
  /\ UNCHANGED <<table, cheatSelected, cheatLength, cheatSaved, loader>>

-----------------------------------------------------------------------------
(* cheatNew(size, address, value, length) and decToCheat, the latter       *)
(* cutting its length to what block[] still holds.  Each line is a plain   *)
(* one; once the backups are made it is backed up on the spot.             *)
\* Fault for the checks: only the entries are counted.
HasRoomForName == cheatTotal < NAME_MAX
HasRoom == cheatTotal < NAME_MAX /\ blockTotal < BLOCK_MAX

NewLine(old, a) ==
  [dma |-> FALSE, addr |-> a,
   std |-> IF cheatSaved THEN [base |-> None, addr |-> a] ELSE old.std]

cheatNew(len, address) ==
  /\ cheat' = [cheat EXCEPT ![cheatTotal] =
                 [block |-> blockTotal, len |-> len]]
  /\ block' = [n \in Slot |->
                IF n \in blockTotal .. blockTotal + len - 1
                  THEN NewLine(block[n], address) ELSE block[n]]
  /\ blockTotal' = blockTotal + len
  /\ cheatTotal' = cheatTotal + 1

decToCheatLength(len) ==
  IF blockTotal + len + 1 > BLOCK_MAX THEN BLOCK_MAX - blockTotal ELSE len

(* The editor opened on the entry just added, from another tab.            *)
EditFrom(line, index) ==
  /\ extSelected' = line
  /\ cheatSelected' = index
  /\ screen' = "neweditor"

SetLength ==
  /\ screen = "other"
  /\ \/ cheatLength > 1 /\ cheatLength' = cheatLength - 1
     \/ cheatLength < MaxLength /\ cheatLength' = cheatLength + 1
  /\ UNCHANGED <<table, cheatSelected, cheatSaved, loader, extSelected,
                 screen>>

(* A search result becomes a cheat of one line, the options add one of     *)
(* cheatLength lines.                                                      *)
AddCheat ==
  /\ screen = "other" /\ HasRoom
  /\ \E len \in {1, cheatLength}, a \in Addr :
       /\ AllowEmpty \/ len > 0
       /\ cheatNew(len, a)
       /\ EditFrom(blockTotal, cheatTotal)
  /\ UNCHANGED <<cheatLength, cheatSaved, loader>>

(* The decoder's range, every word of it at its own address.  Without room *)
(* the editor opens all the same, on the entry that is last.               *)
AddRange ==
  /\ screen = "other"
  /\ IF HasRoom
       THEN \E len \in 0 .. MaxLength, a \in Addr :
              /\ AllowEmpty \/ len > 0
              /\ cheatNew(decToCheatLength(len), a)
              /\ EditFrom(blockTotal, cheatTotal)
       ELSE EditFrom(LastEntry.block, LastIndex) /\ UNCHANGED table
  /\ UNCHANGED <<cheatLength, cheatSaved, loader>>

(* "Refresh": the totals drop to 0 (of the entries only the first is       *)
(* cleared) and the file is loaded again; the backups stay made.           *)
RefreshCheats ==
  /\ "refresh" \in Uses
  /\ screen = "other"
  /\ cheat' = IF cheatTotal > 0
                THEN [cheat EXCEPT ![0] = [block |-> 0, len |-> 0]] ELSE cheat
  /\ cheatTotal' = 0 /\ blockTotal' = 0 /\ cheatSelected' = 0
  /\ screen' = "refresh"
  /\ UNCHANGED <<block, cheatLength, cheatSaved, loader, extSelected>>

-----------------------------------------------------------------------------
(* The editor's cursor.                                                    *)
Editing == screen \in {"editor", "neweditor"} /\ cheatSelected # NoEntry

MoveCursor(line) ==
  /\ extSelected' = line
  /\ UNCHANGED <<table, cheatSelected, cheatLength, cheatSaved, loader, screen>>

CursorUp ==
  /\ Editing
  /\ \/ extSelected > Start(cheatSelected) /\ MoveCursor(extSelected - 1)
     \/ extSelected = Start(cheatSelected) /\ MoveCursor(End(cheatSelected) - 1)

\* Fault for the checks: the wrap comes one line late.
CursorDownLate ==
  /\ Editing
  /\ \/ extSelected < End(cheatSelected) /\ MoveCursor(extSelected + 1)
     \/ extSelected = End(cheatSelected) /\ MoveCursor(Start(cheatSelected))

CursorDown ==
  /\ Editing
  /\ \/ extSelected < End(cheatSelected) - 1 /\ MoveCursor(extSelected + 1)
     \/ extSelected = End(cheatSelected) - 1 /\ MoveCursor(Start(cheatSelected))

CursorPageUp ==
  /\ Editing
  /\ MoveCursor(IF extSelected > Start(cheatSelected) + Page - 1
                  THEN extSelected - Page ELSE Start(cheatSelected))

CursorPageDown ==
  /\ Editing
  /\ MoveCursor(IF extSelected + Page - 1 < End(cheatSelected) - 1
                  THEN extSelected + Page ELSE End(cheatSelected) - 1)

LeaveEditor ==
  /\ screen \in {"editor", "neweditor"}
  /\ extSelected' = 0
  /\ screen' = IF screen = "editor" THEN "cheater" ELSE "other"
  /\ cheatSelected' = IF screen = "editor" THEN cheatSelected ELSE 0
  /\ UNCHANGED <<table, cheatLength, cheatSaved, loader>>

-----------------------------------------------------------------------------
(* buttonCallback, trigger key: on its first press every line in use is    *)
(* backed up, the pointer being reset where the walk meets the start of    *)
(* the next entry.  The entries are awaited in the order of the list, so   *)
(* only those of the list's strictly increasing beginning are ever met.    *)
(* A pointer line whose value is 0xFFFFFFFF sets the base to 0 again; the  *)
(* lines here have none, each names a word.                                *)
Met(c) == \A d \in 1 .. c : Start(d - 1) < Start(d)
\* Fault for the checks: the pointer is only reset at the first entry.
ResetAtFirst(n) == Start(0) = n
ResetAt(n) == \E c \in Index : Start(c) = n /\ Met(c)

IsPointerOf(m, n) ==
  /\ block[m].dma
  /\ \A k \in m + 1 .. n : ~block[k].dma /\ ~ResetAt(k)
WalkBase(n) ==
  IF \E m \in 0 .. n : IsPointerOf(m, n)
    THEN block[CHOOSE m \in 0 .. n : IsPointerOf(m, n)].addr
    ELSE None

BackedUp ==
  [n \in Slot |->
     IF n < blockTotal /\ ~block[n].dma
       THEN [block[n] EXCEPT !.std = [base |-> WalkBase(n), addr |-> block[n].addr]]
       ELSE block[n]]

PressTrigger ==
  /\ screen = "game" /\ ~cheatSaved
  /\ block' = BackedUp
  /\ cheatSaved' = TRUE
  /\ UNCHANGED <<cheat, cheatTotal, blockTotal, cheatSelected, cheatLength,
                 loader, extSelected, screen>>

-----------------------------------------------------------------------------
Browse == OpenMenu \/ LeaveMenu \/ SwitchTab \/ SetLength \/ EditCheat
Cursor == CursorUp \/ CursorDown \/ CursorPageUp \/ CursorPageDown \/ LeaveEditor
Change == MoveUp \/ MoveDown \/ CopyCheat \/ AddCheat \/ AddRange \/ RefreshCheats

Next == Load \/ Browse \/ Cursor \/ Change \/ PressTrigger

Spec == Init /\ [][Next]_vars

-----------------------------------------------------------------------------
(* Everything stays within its type; the entries never overrun NAME_MAX    *)
(* (cheatLoad's '#', cheatNew, decToCheat and the copy all test it), and   *)
(* the lines exceed BLOCK_MAX by less than the longest new cheat, because  *)
(* cheatNew only tests that one line is free.                              *)
TypeOK ==
  /\ cheat \in [Index -> Entry]
  /\ cheatTotal \in 0 .. NAME_MAX
  /\ block \in [Slot -> Line]
  /\ blockTotal \in 0 .. BLOCK_MAX + MaxLength - 1
  /\ cheatSelected \in Index \cup {NoEntry}
  /\ cheatLength \in 0 .. MaxLength
  /\ cheatSaved \in BOOLEAN /\ nameMode \in BOOLEAN /\ commentMode \in BOOLEAN
  /\ extSelected \in Int
  /\ screen \in {"boot", "reboot", "refresh", "game", "cheater", "other",
                 "editor", "neweditor"}

(* No listed cheat reaches past the lines in use, whatever was loaded,     *)
(* dropped, copied or swapped: the loops of cheatEnable and cheatDisable   *)
(* read only lines some operation wrote.                                   *)
RangesInTable == \A c \in Listed : End(c) <= blockTotal

(* No line belongs to two cheats: switching or editing one cheat cannot    *)
(* touch another's lines.  It holds of tables nobody reordered.            *)
CheatsDisjoint ==
  \A c, d \in Listed : c # d => Lines(c) \cap Lines(d) = {}

(* "copy cheat to new" and every other addition leaves the lines of the    *)
(* cheats already listed as they were.                                     *)
SameCode(l, m) == l.dma = m.dma /\ l.addr = m.addr
LinesKept ==
  [][\A c \in 0 .. cheatTotal' - 1 :
        (c \in Listed /\ cheat'[c] = cheat[c])
          => \A n \in Lines(c) : SameCode(block'[n], block[n])]_vars

(* Once the backups are made, what a plain line of a listed cheat would    *)
(* put back was read at that line's own word, through the pointer line     *)
(* before it in the same cheat if there is one ("Reset DNA on every new    *)
(* cheat").                                                                *)
OwnPointer(c, m, n) == block[m].dma /\ \A k \in m + 1 .. n : ~block[k].dma
OwnBase(c, n) ==
  IF \E m \in Start(c) .. n : OwnPointer(c, m, n)
    THEN block[CHOOSE m \in Start(c) .. n : OwnPointer(c, m, n)].addr
    ELSE None
BackupIsOwn ==
  cheatSaved =>
    \A c \in Listed : \A n \in Lines(c) :
      ~block[n].dma => block[n].std = [base |-> OwnBase(c, n), addr |-> block[n].addr]

(* The editor works on a line of the cheat it was opened for, as long as   *)
(* that cheat has a line.                                                  *)
CursorInCheat ==
  (Editing /\ cheatSelected < cheatTotal /\ cheat[cheatSelected].len > 0)
    => extSelected \in Lines(cheatSelected)

-----------------------------------------------------------------------------
(* The inductive invariant behind TypeOK and RangesInTable: the loader     *)
(* never starts beyond BLOCK_MAX (its test is an inequality, not a bound), *)
(* a name being read has its entry ready at the lines' end, even the       *)
(* entries not listed stay inside what block[] can reach, and the cursor   *)
(* is on a listed entry, at the top, or wrapped off an empty table.        *)
LoaderInv ==
  /\ Loading => blockTotal <= BLOCK_MAX
  /\ nameMode => /\ Loading
                 /\ cheatTotal < NAME_MAX
                 /\ cheat[cheatTotal] = [block |-> blockTotal, len |-> 0]
EntriesBounded == \A c \in Index : End(c) <= BLOCK_MAX + MaxLength - 1
SelectedInv ==
  /\ cheatSelected \in Listed \cup {0, NoEntry}
  /\ Loading => cheatSelected = 0
TableInv == TypeOK /\ LoaderInv /\ EntriesBounded /\ SelectedInv /\ RangesInTable

(* What makes the cheats of a table nobody reordered disjoint: they lie in *)
(* the order of the list.                                                  *)
CheatsOrdered == \A c, d \in Listed : c < d => End(c) <= Start(d)

=============================================================================
