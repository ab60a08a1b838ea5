-------------------------- MODULE CheatTableProofs --------------------------
(***************************************************************************)
(* Proofs about CheatTable, for every size of the two arrays, every bound  *)
(* on a cheat's length and every choice of optional operations.            *)
(*                                                                         *)
(* TypeOK and RangesInTable are not inductive by themselves.  TableInv     *)
(* adds the loader's own facts and the bound on the entries that are not   *)
(* listed; every action preserves it (one lemma per group of actions).     *)
(* The disjointness of the cheats rests on their order, CheatsOrdered,     *)
(* which every action but the code swapper keeps.                          *)
(***************************************************************************)
EXTENDS CheatTable, TLAPS

(* The word before cheat[] reads as zero: the copy on an empty table takes *)
(* its place from there (crt0_prx.c, line 5846).                           *)
BeforeIsZero == Before = [block |-> 0, len |-> 0]

USE BoundsAssumption, ValueAssumption DEF AllUses

-----------------------------------------------------------------------------
(* Facts about the operators the actions are made of.                      *)

LEMMA InitInv == Init => TableInv
<1> SUFFICES ASSUME Init PROVE TableInv
  OBVIOUS
<1>1. TypeOK
  <2>1. cheat \in [Index -> Entry]
    BY DEF Init, Entry
  <2>2. block \in [Slot -> Line]
    <3>1. PICK a \in Addr :
            block = [n \in Slot |-> [dma |-> FALSE, addr |-> a, std |-> None]]
      BY DEF Init
    <3>2. [dma |-> FALSE, addr |-> a, std |-> None] \in Line
      BY DEF Line, Origin
    <3> QED  BY <3>1, <3>2
  <2>3. /\ cheatSelected \in Index \cup {NoEntry}
        /\ cheatTotal \in 0 .. NAME_MAX
        /\ blockTotal \in 0 .. BLOCK_MAX + MaxLength - 1
        /\ cheatLength \in 0 .. MaxLength
        /\ extSelected \in Int
    BY DEF Init, Index, NoEntry
  <2>4. /\ cheatSaved \in BOOLEAN /\ nameMode \in BOOLEAN
        /\ commentMode \in BOOLEAN
        /\ screen = "boot"
    BY DEF Init
  <2> QED  BY <2>1, <2>2, <2>3, <2>4 DEF TypeOK
<1>2. LoaderInv
  BY DEF Init, LoaderInv
<1>3. EntriesBounded
  <2>1. \A c \in Index : End(c) = 0
    BY DEF Init, End
  <2> QED  BY <2>1 DEF EntriesBounded
<1>4. RangesInTable
  <2>1. Listed = {}
    BY DEF Init, Listed
  <2> QED  BY <2>1 DEF RangesInTable
<1>5. SelectedInv
  BY DEF Init, SelectedInv
<1> QED  BY <1>1, <1>2, <1>3, <1>4, <1>5 DEF TableInv

(* A step that leaves the table and the loader alone, within the types.    *)
Quiet ==
  /\ UNCHANGED <<cheat, cheatTotal, block, blockTotal, cheatSaved, nameMode,
                 commentMode>>
  /\ Loading' = Loading
  /\ cheatSelected' \in Listed \cup {0, NoEntry}
  /\ Loading => cheatSelected' = 0
  /\ cheatLength' \in 0 .. MaxLength
  /\ extSelected' \in Int
  /\ screen' \in {"boot", "reboot", "refresh", "game", "cheater", "other",
                  "editor", "neweditor"}

LEMMA QuietStep == TableInv /\ Quiet => TableInv'
<1> SUFFICES ASSUME TableInv, Quiet PROVE TableInv'
  OBVIOUS
<1>1. TypeOK'
  BY DEF TableInv, Quiet, TypeOK, Listed, Index
<1>2. LoaderInv' /\ SelectedInv'
  BY DEF TableInv, Quiet, LoaderInv, SelectedInv, Listed
<1>3. EntriesBounded' /\ RangesInTable'
  BY DEF TableInv, Quiet, EntriesBounded, RangesInTable, Listed, End
<1> QED  BY <1>1, <1>2, <1>3 DEF TableInv

LEMMA BrowseInv == TableInv /\ Browse => TableInv'
<1> SUFFICES ASSUME TableInv, Browse PROVE Quiet
  BY QuietStep
<1> USE DEF Quiet, TableInv, TypeOK, SelectedInv, Listed, Index, NoEntry, Loading,
        table, loader
<1>1. CASE OpenMenu
  BY <1>1 DEF OpenMenu
<1>2. CASE LeaveMenu
  BY <1>2 DEF LeaveMenu
<1>3. CASE SwitchTab
  BY <1>3 DEF SwitchTab
<1>4. CASE SetLength
  BY <1>4 DEF SetLength
<1>5. CASE EditCheat
  BY <1>5 DEF EditCheat, Entry
<1> QED  BY <1>1, <1>2, <1>3, <1>4, <1>5 DEF Browse

LEMMA CursorInv == TableInv /\ Cursor => TableInv'
<1> SUFFICES ASSUME TableInv, Cursor PROVE Quiet
  BY QuietStep
<1> USE DEF Quiet, TableInv, TypeOK, SelectedInv
<1>1. ASSUME NEW line \in Int, MoveCursor(line) PROVE Quiet
  BY <1>1 DEF MoveCursor, table, loader, Loading
<1>2. ASSUME Editing PROVE Start(cheatSelected) \in Int /\ End(cheatSelected) \in Int
  BY <1>2 DEF Editing, Start, End, Entry
<1>3. CASE CursorUp
  BY <1>1, <1>2, <1>3 DEF CursorUp
<1>4. CASE CursorDown
  BY <1>1, <1>2, <1>4 DEF CursorDown
<1>5. CASE CursorPageUp
  BY <1>1, <1>2, <1>5 DEF CursorPageUp
<1>6. CASE CursorPageDown
  BY <1>1, <1>2, <1>6 DEF CursorPageDown
<1>7. CASE LeaveEditor
  BY <1>7 DEF LeaveEditor, table, loader, Loading, Index
<1> QED  BY <1>3, <1>4, <1>5, <1>6, <1>7 DEF Cursor

-----------------------------------------------------------------------------
(* The loader.                                                             *)

(* Listing one entry more than before is safe if that entry ends within    *)
(* the lines in use; the other entries and the lines stay as they were.    *)
LEMMA ListNext ==
  ASSUME RangesInTable, UNCHANGED <<cheat, blockTotal>>,
         cheatTotal \in Nat, cheatTotal' = cheatTotal + 1,
         End(cheatTotal) <= blockTotal
  PROVE  RangesInTable'
BY DEF RangesInTable, Listed, End

LEMMA NameClosed ==
  ASSUME TableInv, Loading,
         cheatTotal' = (IF nameMode THEN cheatTotal + 1 ELSE cheatTotal),
         nameMode' = FALSE, commentMode' \in BOOLEAN,
         UNCHANGED <<cheat, block, blockTotal, cheatSelected, cheatLength,
                     cheatSaved, extSelected, screen>>
  PROVE  TableInv'
<1>1. TypeOK'
  <2>1. nameMode => cheatTotal < NAME_MAX
    BY DEF TableInv, LoaderInv
  <2>2. cheatTotal' \in 0 .. NAME_MAX
    BY <2>1 DEF TableInv, TypeOK
  <2> QED  BY <2>2 DEF TableInv, TypeOK
<1>2. LoaderInv' /\ EntriesBounded' /\ SelectedInv'
  BY DEF TableInv, LoaderInv, Loading, EntriesBounded, SelectedInv, End, Index
<1>3. RangesInTable'
  <2>1. CASE nameMode
    <3>1. End(cheatTotal) <= blockTotal
      BY <2>1 DEF TableInv, TypeOK, LoaderInv, End
    <3> QED  BY <2>1, <3>1, ListNext DEF TableInv, TypeOK
  <2>2. CASE ~nameMode
    BY <2>2 DEF TableInv, RangesInTable, Listed, End
  <2> QED  BY <2>1, <2>2
<1> QED  BY <1>1, <1>2, <1>3 DEF TableInv

LEMMA StopInv ==
  ASSUME TableInv, Loading, NEW total \in 0 .. cheatTotal, LoadStop(total)
  PROVE  TableInv'
<1> USE DEF TableInv, LoadStop, Loading
<1>1. /\ cheatTotal' \in 0 .. cheatTotal /\ blockTotal' \in 0 .. blockTotal
      /\ cheatTotal' = 0 \/ blockTotal' = blockTotal
  BY DEF TypeOK
<1>2. TypeOK'
  <2>1. screen' \in {"game", "reboot", "other"}
    BY DEF TypeOK
  <2>2. cheatTotal' \in 0 .. NAME_MAX /\ blockTotal' \in 0 .. BLOCK_MAX + MaxLength - 1
    BY <1>1 DEF TypeOK
  <2>3. nameMode' \in BOOLEAN /\ commentMode' \in BOOLEAN
    OBVIOUS
  <2> QED  BY <2>1, <2>2, <2>3 DEF TypeOK
<1>3. LoaderInv' /\ SelectedInv'
  BY <1>1 DEF LoaderInv, SelectedInv, TypeOK
<1>4. EntriesBounded'
  BY DEF EntriesBounded, End
<1>5. RangesInTable'
  BY <1>1 DEF RangesInTable, Listed, End, TypeOK
<1> QED  BY <1>2, <1>3, <1>4, <1>5

LEMMA HashInv == TableInv /\ LoadHash => TableInv'
<1> SUFFICES ASSUME TableInv, LoadHash PROVE TableInv'
  OBVIOUS
<1> USE DEF TableInv, LoadHash, Loading
<1>1. CASE cheatTotal >= NAME_MAX
  BY <1>1, StopInv DEF TypeOK
<1>2. CASE ~(cheatTotal >= NAME_MAX)
  <2>1. /\ cheatTotal \in Index /\ blockTotal \in Nat
        /\ blockTotal <= BLOCK_MAX
        /\ cheat' = [cheat EXCEPT ![cheatTotal] = [block |-> blockTotal, len |-> 0]]
    BY <1>2 DEF TypeOK, LoaderInv, Index
  <2>2. cheat' \in [Index -> Entry]
    BY <2>1 DEF TypeOK, Entry
  <2>3. /\ cheat'[cheatTotal] = [block |-> blockTotal, len |-> 0]
        /\ \A c \in Index \ {cheatTotal} : cheat'[c] = cheat[c]
    BY <2>1 DEF TypeOK
  <2>4. TypeOK'
    BY <1>2, <2>2 DEF TypeOK
  <2>5. LoaderInv' /\ SelectedInv'
    BY <1>2, <2>1, <2>3 DEF LoaderInv, SelectedInv, TypeOK, Index
  <2>6. EntriesBounded'
    BY <2>1, <2>3 DEF EntriesBounded, End
  <2>7. RangesInTable'
    BY <1>2, <2>1, <2>3 DEF RangesInTable, Listed, End, TypeOK, Index
  <2> QED  BY <2>4, <2>5, <2>6, <2>7
<1> QED  BY <1>1, <1>2

LEMMA CodeInv == TableInv /\ LoadCode => TableInv'
<1> SUFFICES ASSUME TableInv, LoadCode PROVE TableInv'
  OBVIOUS
<1> USE DEF TableInv
<1>1. CASE blockTotal = BLOCK_MAX
  <2>1. Loading /\ LoadStop(cheatTotal - 1) /\ cheatTotal - 1 \in 0 .. cheatTotal
    BY <1>1 DEF LoadCode, TypeOK
  <2> QED  BY <2>1, StopInv
<1>2. CASE blockTotal # BLOCK_MAX
  <2>1. blockTotal \in 0 .. BLOCK_MAX - 1 /\ blockTotal \in Slot
    BY <1>2 DEF LoadCode, LoaderInv, TypeOK, Slot
  <2>2. /\ ~nameMode /\ Loading
        /\ blockTotal' = blockTotal + 1
        /\ cheat' = IF cheatTotal = 0 THEN cheat
                    ELSE [cheat EXCEPT ![cheatTotal - 1].len = @ + 1]
        /\ UNCHANGED <<cheatTotal, cheatSelected, cheatLength, cheatSaved,
                       nameMode, commentMode, extSelected, screen>>
    BY <1>2 DEF LoadCode, loader
  <2>3. block' \in [Slot -> Line]
    <3>1. PICK d \in BOOLEAN, a \in Addr :
            block' = [block EXCEPT ![blockTotal] =
              [dma |-> d, addr |-> a,
               std |-> IF d THEN None ELSE block[blockTotal].std]]
      BY <1>2 DEF LoadCode
    <3>2. block[blockTotal] \in Line
      BY <2>1 DEF TypeOK
    <3>3. [dma |-> d, addr |-> a,
           std |-> IF d THEN None ELSE block[blockTotal].std] \in Line
      BY <3>2 DEF Line, Origin
    <3> QED  BY <3>1, <3>3 DEF TypeOK
  <2>4. /\ cheat' \in [Index -> Entry]
        /\ \A c \in Index : /\ cheat'[c].block = cheat[c].block
                            /\ cheat'[c].len = cheat[c].len \/
                               (c \in Listed /\ cheat'[c].len = cheat[c].len + 1)
    <3>1. CASE cheatTotal = 0
      BY <2>2, <3>1 DEF TypeOK
    <3>2. CASE cheatTotal # 0
      <4>1. cheatTotal - 1 \in Index /\ cheatTotal - 1 \in Listed
        BY <3>2 DEF TypeOK, Index, Listed
      <4>2. cheat[cheatTotal - 1] \in Entry
        BY <4>1 DEF TypeOK
      <4>3. cheat' = [cheat EXCEPT ![cheatTotal - 1] =
                       [cheat[cheatTotal - 1] EXCEPT !.len = @ + 1]]
        BY <2>2, <3>2
      <4>4. [cheat[cheatTotal - 1] EXCEPT !.len = @ + 1] \in Entry
        BY <4>2 DEF Entry
      <4> QED  BY <4>1, <4>2, <4>3, <4>4 DEF TypeOK, Entry
    <3> QED  BY <3>1, <3>2
  <2>5. TypeOK'
    BY <2>1, <2>2, <2>3, <2>4 DEF TypeOK
  <2>6. LoaderInv' /\ SelectedInv'
    BY <2>1, <2>2 DEF LoaderInv, SelectedInv, Loading, TypeOK
  <2>7. \A c \in Listed : c \in Index /\ End(c) <= blockTotal /\ End(c)' <= blockTotal + 1
    <3> TAKE c \in Listed
    <3>1. c \in Index /\ End(c) <= blockTotal
      BY DEF RangesInTable, Listed, Index, TypeOK
    <3>2. cheat[c].block \in Nat /\ cheat[c].len \in Nat
      BY <3>1 DEF TypeOK, Entry
    <3> QED  BY <2>1, <2>4, <3>1, <3>2 DEF End
  <2>8. EntriesBounded'
    BY <2>1, <2>4, <2>7 DEF EntriesBounded, End, TypeOK, Entry
  <2>9. RangesInTable'
    BY <2>2, <2>7 DEF RangesInTable, Listed
  <2> QED  BY <2>5, <2>6, <2>8, <2>9
<1> QED  BY <1>1, <1>2

LEMMA LoadInv == TableInv /\ Load => TableInv'
<1> SUFFICES ASSUME TableInv, Load PROVE TableInv'
  OBVIOUS
<1>1. CASE LoadEol
  BY <1>1, NameClosed DEF LoadEol
<1>2. CASE LoadSemicolon
  BY <1>2, NameClosed DEF LoadSemicolon
<1>3. CASE LoadEof
  BY <1>3, StopInv DEF LoadEof, TableInv, TypeOK
<1>4. CASE LoadHash
  BY <1>4, HashInv
<1>5. CASE LoadCode
  BY <1>5, CodeInv
<1> QED  BY <1>1, <1>2, <1>3, <1>4, <1>5 DEF Load

-----------------------------------------------------------------------------
(* The operations of the menu.                                             *)

(* Exchanging two listed entries keeps every bound on the entries.         *)
LEMMA SwapInv ==
  ASSUME TableInv, ~Loading,
         NEW c \in Listed, NEW d \in Listed, cheat' = Swapped(c, d),
         cheatSelected' \in Listed,
         UNCHANGED <<cheatTotal, block, blockTotal, cheatLength, cheatSaved,
                     nameMode, commentMode, extSelected, screen>>
  PROVE  TableInv'
<1> USE DEF TableInv
<1>1. c \in Index /\ d \in Index
  BY DEF Listed, Index, TypeOK
<1>2. /\ cheat' \in [Index -> Entry]
      /\ \A e \in Index : \/ cheat'[e] = cheat[e]
                          \/ e = c /\ cheat'[e] = cheat[d]
                          \/ e = d /\ cheat'[e] = cheat[c]
  BY <1>1 DEF Swapped, TypeOK
<1>3. TypeOK'
  BY <1>2 DEF TypeOK, Listed, Index
<1>4. LoaderInv' /\ SelectedInv'
  BY DEF LoaderInv, SelectedInv, Loading, Listed
<1>5. EntriesBounded'
  BY <1>1, <1>2 DEF EntriesBounded, End
<1>6. RangesInTable'
  BY <1>1, <1>2 DEF RangesInTable, Listed, Index, TypeOK, End
<1> QED  BY <1>3, <1>4, <1>5, <1>6

LEMMA MoveInv == TableInv /\ (MoveUp \/ MoveDown) => TableInv'
<1> SUFFICES ASSUME TableInv, MoveUp \/ MoveDown PROVE TableInv'
  OBVIOUS
<1> USE DEF TableInv
<1>1. /\ ~Loading /\ cheatSelected \in Index
      /\ UNCHANGED <<cheatTotal, block, blockTotal, cheatLength, cheatSaved,
                     nameMode, commentMode, extSelected, screen>>
  BY DEF MoveUp, MoveDown, Loading, TypeOK, loader, Index, NoEntry
<1>2. CASE UNCHANGED cheat
  <2>1. cheatSelected' \in Listed \cup {0, NoEntry}
    <3>1. CASE MoveUp
      BY <1>1, <3>1 DEF MoveUp, TypeOK, SelectedInv, Index, Listed, LastIndex
    <3>2. CASE MoveDown
      BY <1>1, <3>2 DEF MoveDown, TypeOK, Index, Listed
    <3> QED  BY <3>1, <3>2
  <2>2. Quiet
    BY <1>1, <1>2, <2>1 DEF Quiet, Loading, TypeOK
  <2> QED  BY <2>2, QuietStep
<1>3. CASE ~UNCHANGED cheat
  <2>1. CASE MoveUp
    <3>1. /\ cheatSelected - 1 \in Listed /\ cheatSelected \in Listed
          /\ cheat' = Swapped(cheatSelected - 1, cheatSelected)
          /\ cheatSelected' \in Listed
      BY <1>1, <1>3, <2>1 DEF MoveUp, Listed, SelectedInv, TypeOK
    <3> QED  BY <1>1, <3>1, SwapInv
  <2>2. CASE MoveDown
    <3>1. /\ cheatSelected + 1 \in Listed /\ cheatSelected \in Listed
          /\ cheat' = Swapped(cheatSelected + 1, cheatSelected)
          /\ cheatSelected' \in Listed
      BY <1>1, <1>3, <2>2 DEF MoveDown, Listed, Index, TypeOK
    <3> QED  BY <1>1, <3>1, SwapInv
  <2> QED  BY <2>1, <2>2
<1> QED  BY <1>2, <1>3

(* A new entry at the end of the list, for lines that end where the lines  *)
(* in use then end.                                                        *)
LEMMA AppendInv ==
  ASSUME TableInv, ~Loading, cheatTotal \in Index,
         NEW b \in Nat, NEW l \in Nat,
         cheat' = [cheat EXCEPT ![cheatTotal] = [block |-> b, len |-> l]],
         cheatTotal' = cheatTotal + 1,
         blockTotal' \in blockTotal .. BLOCK_MAX + MaxLength - 1,
         b + l <= blockTotal',
         block' \in [Slot -> Line],
         UNCHANGED <<cheatLength, cheatSaved, nameMode, commentMode>>,
         cheatSelected' \in 0 .. cheatTotal \cup {NoEntry},
         extSelected' \in Int,
         screen' \in {"cheater", "neweditor"}
  PROVE  TableInv'
<1> USE DEF TableInv
<1>1. /\ cheat' \in [Index -> Entry]
      /\ cheat'[cheatTotal] = [block |-> b, len |-> l]
      /\ \A c \in Index \ {cheatTotal} : cheat'[c] = cheat[c]
  BY DEF TypeOK, Entry
<1>2. TypeOK'
  BY <1>1 DEF TypeOK, Index
<1>3. LoaderInv' /\ SelectedInv'
  BY DEF LoaderInv, SelectedInv, Loading, Listed, Index
<1>4. EntriesBounded'
  BY <1>1 DEF EntriesBounded, End, TypeOK
<1>5. RangesInTable'
  <2> SUFFICES ASSUME NEW c \in 0 .. cheatTotal PROVE End(c)' <= blockTotal'
    BY DEF RangesInTable, Listed, Index
  <2>1. CASE c = cheatTotal
    BY <1>1, <2>1 DEF End
  <2>2. CASE c # cheatTotal
    <3>1. c \in Listed /\ c \in Index /\ cheat'[c] = cheat[c]
      BY <1>1, <2>2 DEF Listed, Index
    <3>2. End(c) <= blockTotal /\ End(c)' = End(c) /\ End(c) \in Nat
      BY <3>1 DEF RangesInTable, End, TypeOK, Entry
    <3> QED  BY <3>2 DEF TypeOK
  <2> QED  BY <2>1, <2>2
<1> QED  BY <1>2, <1>3, <1>4, <1>5

LEMMA CopyInv == BeforeIsZero /\ TableInv /\ CopyCheat => TableInv'
<1> SUFFICES ASSUME BeforeIsZero, TableInv, CopyCheat PROVE TableInv'
  OBVIOUS
<1> DEFINE source == cheat[cheatSelected]
<1> USE DEF TableInv
<1>1. /\ ~Loading /\ cheatTotal \in Index /\ cheatSelected \in Index
      /\ source \in Entry
  BY DEF CopyCheat, Loading, TypeOK, Index, NoEntry
<1>2. source.block \in Nat /\ source.len \in Nat
      /\ source.block + source.len <= BLOCK_MAX + MaxLength - 1
  BY <1>1 DEF Entry, EntriesBounded, End
<1>3. LastEnd \in Nat /\ LastEnd <= blockTotal
  <2>1. CASE cheatTotal = 0
    BY <2>1 DEF BeforeIsZero, LastEnd, LastEntry, TypeOK
  <2>2. CASE cheatTotal # 0
    <3>1. cheatTotal - 1 \in Listed /\ cheatTotal - 1 \in Index
      BY <2>2 DEF Listed, Index, TypeOK
    <3>2. End(cheatTotal - 1) <= blockTotal
      BY <3>1 DEF RangesInTable
    <3> QED  BY <2>2, <3>1, <3>2 DEF End, LastEnd, LastEntry, TypeOK, Entry
  <2> QED  BY <2>1, <2>2
<1>4. /\ blockTotal' = blockTotal + source.len /\ blockTotal' < BLOCK_MAX
      /\ cheat' = [cheat EXCEPT ![cheatTotal] = [block |-> LastEnd, len |-> source.len]]
      /\ block' = Copied(source.block, LastEnd, source.len)
  BY DEF CopyCheat
<1>5. block' \in [Slot -> Line]
  <2>1. ASSUME NEW n \in Slot, n \in LastEnd .. LastEnd + source.len - 1
        PROVE  block[source.block + (n - LastEnd)] \in Line
    <3>1. source.block + (n - LastEnd) \in Slot
      BY <1>2, <1>3, <2>1 DEF Slot
    <3> QED  BY <3>1 DEF TypeOK
  <2> QED  BY <1>4, <2>1 DEF Copied, TypeOK
<1>6. /\ cheatTotal' = cheatTotal + 1 /\ screen' = "cheater"
      /\ cheatSelected' \in 0 .. cheatTotal \cup {NoEntry} /\ extSelected' \in Int
      /\ UNCHANGED <<cheatLength, cheatSaved, nameMode, commentMode>>
  BY DEF CopyCheat, TypeOK, SelectedInv, Listed, loader
<1>7. /\ blockTotal' \in blockTotal .. BLOCK_MAX + MaxLength - 1
      /\ LastEnd + source.len <= blockTotal'
  BY <1>2, <1>3, <1>4 DEF TypeOK
<1> QED  BY <1>1, <1>2, <1>3, <1>4, <1>5, <1>6, <1>7, AppendInv

LEMMA NewInv ==
  ASSUME TableInv, screen = "other", HasRoom,
         NEW len \in Nat, blockTotal + len <= BLOCK_MAX + MaxLength - 1,
         NEW a \in Addr, cheatNew(len, a),
         EditFrom(blockTotal, cheatTotal),
         UNCHANGED <<cheatLength, cheatSaved, nameMode, commentMode>>
  PROVE  TableInv'
<1> USE DEF TableInv
<1>1. cheatTotal \in Index /\ blockTotal \in Nat /\ ~Loading
  BY DEF HasRoom, TypeOK, Index, Loading
<1>2. block' \in [Slot -> Line]
  <2>1. \A n \in Slot : NewLine(block[n], a) \in Line
    BY DEF NewLine, TypeOK, Line, Origin
  <2> QED  BY <2>1 DEF cheatNew, TypeOK
<1>3. /\ cheat' = [cheat EXCEPT ![cheatTotal] = [block |-> blockTotal, len |-> len]]
      /\ cheatTotal' = cheatTotal + 1 /\ blockTotal' = blockTotal + len
      /\ blockTotal' \in blockTotal .. BLOCK_MAX + MaxLength - 1
      /\ blockTotal + len <= blockTotal'
  BY <1>1 DEF cheatNew
<1>4. /\ cheatSelected' \in 0 .. cheatTotal \cup {NoEntry} /\ extSelected' \in Int
      /\ screen' \in {"cheater", "neweditor"}
  BY <1>1 DEF EditFrom, Index
<1> QED  BY <1>1, <1>2, <1>3, <1>4, AppendInv

LEMMA AddInv == TableInv /\ AddCheat => TableInv'
<1> SUFFICES ASSUME TableInv, AddCheat PROVE TableInv'
  OBVIOUS
<1>1. PICK len \in {1, cheatLength}, a \in Addr :
        cheatNew(len, a) /\ EditFrom(blockTotal, cheatTotal)
  BY DEF AddCheat
<1>2. len \in Nat /\ blockTotal + len <= BLOCK_MAX + MaxLength - 1
  BY DEF AddCheat, HasRoom, TableInv, TypeOK
<1> QED  BY <1>1, <1>2, NewInv DEF AddCheat, loader

LEMMA AddRangeInv == BeforeIsZero /\ TableInv /\ AddRange => TableInv'
<1> SUFFICES ASSUME BeforeIsZero, TableInv, AddRange PROVE TableInv'
  OBVIOUS
<1>1. CASE HasRoom
  <2>1. PICK len \in 0 .. MaxLength, a \in Addr :
          /\ cheatNew(decToCheatLength(len), a)
          /\ EditFrom(blockTotal, cheatTotal)
    BY <1>1 DEF AddRange
  <2>2. /\ decToCheatLength(len) \in Nat
        /\ blockTotal + decToCheatLength(len) <= BLOCK_MAX + MaxLength - 1
    BY <1>1 DEF decToCheatLength, HasRoom, TableInv, TypeOK
  <2> QED  BY <1>1, <2>1, <2>2, NewInv DEF AddRange, loader
<1>2. CASE ~HasRoom
  <2>1. LastEntry.block \in Int /\ LastIndex \in Listed \cup {0, NoEntry}
    BY DEF BeforeIsZero, LastEntry, LastIndex, TableInv, TypeOK, Entry, Index, Listed
  <2>2. Quiet
    BY <1>2, <2>1 DEF AddRange, EditFrom, Quiet, table, loader, Loading,
       TableInv, TypeOK
  <2> QED  BY <2>2, QuietStep
<1> QED  BY <1>1, <1>2

LEMMA RefreshInv == TableInv /\ RefreshCheats => TableInv'
<1> SUFFICES ASSUME TableInv, RefreshCheats PROVE TableInv'
  OBVIOUS
<1> USE DEF TableInv
<1>1. /\ cheat' \in [Index -> Entry]
      /\ \A c \in Index : \/ cheat'[c] = cheat[c]
                          \/ cheat'[c] = [block |-> 0, len |-> 0]
  BY DEF RefreshCheats, TypeOK, Entry
<1>2. /\ cheatTotal' = 0 /\ blockTotal' = 0 /\ cheatSelected' = 0
      /\ screen' = "refresh" /\ ~nameMode'
      /\ UNCHANGED <<block, cheatLength, cheatSaved, nameMode, commentMode, extSelected>>
  BY DEF RefreshCheats, LoaderInv, Loading, loader
<1>3. TypeOK'
  BY <1>1, <1>2 DEF TypeOK, Index, NoEntry
<1>4. LoaderInv' /\ SelectedInv'
  BY <1>2 DEF LoaderInv, SelectedInv
<1>5. EntriesBounded'
  BY <1>1 DEF EntriesBounded, End
<1>6. RangesInTable'
  <2>1. Listed' = {}
    BY <1>2 DEF Listed
  <2> QED  BY <2>1 DEF RangesInTable
<1> QED  BY <1>3, <1>4, <1>5, <1>6

-----------------------------------------------------------------------------
(* The trigger changes backups only.                                       *)
LEMMA TriggerBlocks ==
  ASSUME TypeOK, PressTrigger
  PROVE  /\ block' \in [Slot -> Line]
         /\ \A n \in Slot : SameCode(block'[n], block[n])
<1>1. ASSUME NEW n \in Slot
      PROVE  WalkBase(n) \in Addr \cup {None}
  <2>1. CASE \E m \in 0 .. n : IsPointerOf(m, n)
    <3> DEFINE m == CHOOSE m \in 0 .. n : IsPointerOf(m, n)
    <3>1. m \in 0 .. n
      BY <2>1
    <3>2. m \in Slot
      BY <3>1 DEF Slot
    <3>3. block[m].addr \in Addr
      BY <3>2 DEF TypeOK, Line
    <3> QED  BY <2>1, <3>3 DEF WalkBase
  <2>2. CASE ~\E m \in 0 .. n : IsPointerOf(m, n)
    BY <2>2 DEF WalkBase
  <2> QED  BY <2>1, <2>2
<1>2. ASSUME NEW n \in Slot
      PROVE  BackedUp[n] \in Line /\ SameCode(BackedUp[n], block[n])
  <2>1. block[n] \in Line
    BY DEF TypeOK
  <2>2. [block[n] EXCEPT !.std = [base |-> WalkBase(n), addr |-> block[n].addr]] \in Line
    BY <1>1, <2>1 DEF Line, Origin
  <2> QED  BY <2>1, <2>2 DEF BackedUp, SameCode, Line
<1>3. block' = BackedUp
  BY DEF PressTrigger
<1> QED  BY <1>2, <1>3 DEF BackedUp

LEMMA TriggerInv == TableInv /\ PressTrigger => TableInv'
<1> SUFFICES ASSUME TableInv, PressTrigger PROVE TableInv'
  OBVIOUS
<1> USE DEF TableInv
<1>1. block' \in [Slot -> Line]
  BY TriggerBlocks
<1>2. cheatSaved' \in BOOLEAN /\ ~Loading /\ Loading' = Loading
      /\ UNCHANGED <<cheat, cheatTotal, blockTotal, cheatSelected, cheatLength,
                     nameMode, commentMode, extSelected, screen>>
  BY DEF PressTrigger, Loading, loader
<1>3. TypeOK'
  BY <1>1, <1>2 DEF TypeOK
<1>4. LoaderInv' /\ SelectedInv' /\ EntriesBounded' /\ RangesInTable'
  BY <1>2 DEF LoaderInv, SelectedInv, EntriesBounded, RangesInTable, Listed, End
<1> QED  BY <1>3, <1>4

-----------------------------------------------------------------------------
LEMMA NextInv == BeforeIsZero /\ TableInv /\ [Next]_vars => TableInv'
<1> SUFFICES ASSUME BeforeIsZero, TableInv, [Next]_vars PROVE TableInv'
  OBVIOUS
<1>1. CASE Load
  BY <1>1, LoadInv
<1>2. CASE Browse
  BY <1>2, BrowseInv
<1>3. CASE Cursor
  BY <1>3, CursorInv
<1>4. CASE Change
  BY <1>4, MoveInv, CopyInv, AddInv, AddRangeInv, RefreshInv DEF Change
<1>5. CASE PressTrigger
  BY <1>5, TriggerInv
<1>6. CASE UNCHANGED vars
  <2>1. Quiet
    BY <1>6 DEF vars, Quiet, Loading, TableInv, TypeOK, SelectedInv
  <2> QED  BY <2>1, QuietStep
<1> QED  BY <1>1, <1>2, <1>3, <1>4, <1>5, <1>6 DEF Next

LEMMA TableInvariant == ASSUME BeforeIsZero PROVE Spec => []TableInv
<1>1. Init => TableInv
  BY InitInv
<1>2. TableInv /\ [Next]_vars => TableInv'
  BY NextInv
<1> QED  BY <1>1, <1>2, PTL DEF Spec

(* Every variable keeps its type whatever the sizes and the operations     *)
(* used: entries within cheat[], lines within block[] up to one over-long  *)
(* addition.                                                               *)
THEOREM TypeCorrect == ASSUME BeforeIsZero PROVE Spec => []TypeOK
<1>1. TableInv => TypeOK
  BY DEF TableInv
<1> QED  BY <1>1, TableInvariant, PTL

(* The listed cheats never reach past the lines in use.                    *)
THEOREM RangesCorrect == ASSUME BeforeIsZero PROVE Spec => []RangesInTable
<1>1. TableInv => RangesInTable
  BY DEF TableInv
<1> QED  BY <1>1, TableInvariant, PTL

-----------------------------------------------------------------------------
(* The editor's cursor: the table does not change under it.                *)
LEMMA EditorOpened ==
  ASSUME TableInv, TableInv', CursorInCheat, Change \/ Load \/ PressTrigger
  PROVE  CursorInCheat'
<1> USE DEF TableInv, TypeOK
<1>1. CASE MoveUp \/ MoveDown \/ RefreshCheats \/ CopyCheat \/ PressTrigger
  <2>1. screen' \notin {"editor", "neweditor"}
    BY <1>1 DEF MoveUp, MoveDown, RefreshCheats, CopyCheat, PressTrigger
  <2> QED  BY <2>1 DEF CursorInCheat, Editing
<1>2. CASE Load
  <2>1. screen' \notin {"editor", "neweditor"}
    BY <1>2 DEF Load, LoadEol, LoadSemicolon, LoadEof, LoadHash, LoadCode, LoadStop, Loading
  <2> QED  BY <2>1 DEF CursorInCheat, Editing
<1>3. ASSUME NEW len, NEW a, cheatNew(len, a), cheatTotal < NAME_MAX,
             EditFrom(blockTotal, cheatTotal)
      PROVE  CursorInCheat'
  <2>1. cheat'[cheatTotal] = [block |-> blockTotal, len |-> len]
    BY <1>3 DEF cheatNew, Index
  <2>2. cheatSelected' = cheatTotal /\ extSelected' = blockTotal
    BY <1>3 DEF EditFrom
  <2>3. cheat'[cheatTotal] \in Entry
    BY <1>3 DEF Index
  <2> QED  BY <2>1, <2>2, <2>3 DEF CursorInCheat, Lines, Start, End, Entry
<1>4. CASE AddCheat
  BY <1>3, <1>4 DEF AddCheat, HasRoom
<1>5. CASE AddRange
  <2>1. CASE HasRoom
    BY <1>3, <1>5, <2>1 DEF AddRange, HasRoom
  <2>2. CASE ~HasRoom
    <3>1. cheat' = cheat /\ cheatTotal' = cheatTotal /\ extSelected' = LastEntry.block
          /\ cheatSelected' = LastIndex
      BY <1>5, <2>2 DEF AddRange, EditFrom, table
    <3>2. CASE cheatTotal = 0
      BY <3>1, <3>2 DEF CursorInCheat, LastIndex, NoEntry
    <3>3. CASE cheatTotal > 0
      <4>1. cheatSelected' = cheatTotal - 1 /\ extSelected' = cheat[cheatTotal - 1].block
            /\ cheat[cheatTotal - 1] \in Entry
        BY <3>1, <3>3 DEF LastIndex, LastEntry, Index
      <4> QED  BY <3>1, <4>1 DEF CursorInCheat, Lines, Start, End, Entry
    <3> QED  BY <3>2, <3>3
  <2> QED  BY <2>1, <2>2
<1> QED  BY <1>1, <1>2, <1>4, <1>5 DEF Change

LEMMA EditorUsed ==
  ASSUME TableInv, CursorInCheat, Browse \/ Cursor
  PROVE  CursorInCheat'
<1> USE DEF TableInv, TypeOK
<1>1. CASE OpenMenu \/ LeaveMenu \/ SwitchTab \/ SetLength \/ LeaveEditor
  <2>1. screen' \notin {"editor", "neweditor"}
    BY <1>1 DEF OpenMenu, LeaveMenu, SwitchTab, SetLength, LeaveEditor
  <2> QED  BY <2>1 DEF CursorInCheat, Editing
<1>2. CASE EditCheat
  <2>1. cheat' = cheat /\ cheatSelected' = cheatSelected
        /\ extSelected' = cheat[cheatSelected].block /\ cheat[cheatSelected] \in Entry
    BY <1>2 DEF EditCheat, table
  <2> QED  BY <2>1 DEF CursorInCheat, Lines, Start, End, Entry
<1>3. ASSUME NEW line, MoveCursor(line),
             Editing /\ cheatSelected < cheatTotal /\ cheat[cheatSelected].len > 0
               => line \in Lines(cheatSelected)
      PROVE  CursorInCheat'
  BY <1>3 DEF MoveCursor, CursorInCheat, Editing, Lines, Start, End, table
<1>4. ASSUME Editing, cheatSelected < cheatTotal, cheat[cheatSelected].len > 0
      PROVE  /\ Start(cheatSelected) \in Int /\ End(cheatSelected) \in Int
             /\ extSelected \in Start(cheatSelected) .. End(cheatSelected) - 1
  BY <1>4 DEF CursorInCheat, Editing, Lines, Start, End, Entry
<1>5. CASE CursorUp
  BY <1>3, <1>4, <1>5 DEF CursorUp, Lines
<1>6. CASE CursorDown
  BY <1>3, <1>4, <1>6 DEF CursorDown, Lines
<1>7. CASE CursorPageUp
  BY <1>3, <1>4, <1>7 DEF CursorPageUp, Lines
<1>8. CASE CursorPageDown
  BY <1>3, <1>4, <1>8 DEF CursorPageDown, Lines
<1> QED  BY <1>1, <1>2, <1>5, <1>6, <1>7, <1>8 DEF Browse, Cursor

(* The editor works on a line of the cheat it was opened for, with new     *)
(* cheats, wraps at both ends and pages of any length.                     *)
THEOREM CursorStaysInCheat == ASSUME BeforeIsZero PROVE Spec => []CursorInCheat
<1>1. Init => CursorInCheat
  BY DEF Init, CursorInCheat, Editing
<1>2. TableInv /\ TableInv' /\ CursorInCheat /\ [Next]_vars => CursorInCheat'
  <2> SUFFICES ASSUME TableInv, TableInv', CursorInCheat, [Next]_vars PROVE CursorInCheat'
    OBVIOUS
  <2>1. CASE UNCHANGED vars
    BY <2>1 DEF vars, CursorInCheat, Editing, Lines, Start, End
  <2> QED  BY <2>1, EditorOpened, EditorUsed DEF Next
<1> QED  BY <1>1, <1>2, TableInvariant, PTL DEF Spec

-----------------------------------------------------------------------------
(* Without the code swapper the cheats stay in the order of their lines.   *)
NoSwap == "swap" \notin Uses
OrderedInv == TableInv /\ CheatsOrdered

LEMMA FewerIndices ==
  ASSUME NEW total \in Nat, NEW fewer \in 0 .. total, NEW c \in 0 .. fewer - 1
  PROVE  c \in 0 .. total - 1
OBVIOUS

(* A step that lists no new entry and moves none.                          *)
LEMMA OrderKept ==
  ASSUME OrderedInv, cheatTotal' \in 0 .. cheatTotal,
         \A c \in 0 .. cheatTotal' - 1 : cheat'[c] = cheat[c]
  PROVE  CheatsOrdered'
<1> SUFFICES ASSUME NEW c \in 0 .. cheatTotal' - 1, NEW d \in 0 .. cheatTotal' - 1,
                    c < d
             PROVE  End(c)' <= Start(d)'
  BY DEF CheatsOrdered, Listed
<1>0. cheatTotal \in Nat
  BY DEF OrderedInv, TableInv, TypeOK
<1>1. c \in Listed /\ d \in Listed
  BY <1>0, FewerIndices DEF Listed
<1>2. End(c) <= Start(d)
  BY <1>1 DEF OrderedInv, CheatsOrdered
<1> QED  BY <1>2 DEF Start, End

(* A step that lists one entry more, starting after all the others.        *)
LEMMA OrderAppended ==
  ASSUME OrderedInv, cheatTotal' = cheatTotal + 1,
         \A c \in Listed : cheat'[c] = cheat[c],
         \A c \in Listed : End(c) <= cheat'[cheatTotal].block
  PROVE  CheatsOrdered'
<1> SUFFICES ASSUME NEW c \in 0 .. cheatTotal, NEW d \in 0 .. cheatTotal, c < d
             PROVE  End(c)' <= Start(d)'
  BY DEF CheatsOrdered, Listed, OrderedInv, TableInv, TypeOK
<1>1. c \in Listed /\ End(c)' = End(c)
  BY DEF Listed, End, OrderedInv, TableInv, TypeOK
<1>2. CASE d = cheatTotal
  BY <1>1, <1>2 DEF Start
<1>3. CASE d # cheatTotal
  <2>1. d \in Listed /\ Start(d)' = Start(d)
    BY <1>3 DEF Listed, Start, OrderedInv, TableInv, TypeOK
  <2> QED  BY <1>1, <2>1 DEF OrderedInv, CheatsOrdered
<1> QED  BY <1>2, <1>3

LEMMA LoadOrdered == OrderedInv /\ Load => CheatsOrdered'
<1> SUFFICES ASSUME OrderedInv, Load PROVE CheatsOrdered'
  OBVIOUS
<1> USE DEF OrderedInv, TableInv
<1>1. CASE LoadEol \/ LoadSemicolon
  <2>1. /\ UNCHANGED cheat
        /\ cheatTotal' = IF nameMode THEN cheatTotal + 1 ELSE cheatTotal
    BY <1>1 DEF LoadEol, LoadSemicolon
  <2>2. CASE nameMode
    <3>1. cheat[cheatTotal].block = blockTotal
      BY <2>2 DEF LoaderInv
    <3>2. \A c \in Listed : End(c) <= cheat'[cheatTotal].block
      BY <2>1, <3>1 DEF RangesInTable
    <3> QED  BY <2>1, <2>2, <3>2, OrderAppended
  <2>3. CASE ~nameMode
    BY <2>1, <2>3, OrderKept DEF TypeOK
  <2> QED  BY <2>2, <2>3
<1>2. ASSUME NEW total \in 0 .. cheatTotal, LoadStop(total) PROVE CheatsOrdered'
  BY <1>2, OrderKept DEF LoadStop, TypeOK
<1>3. CASE LoadEof
  BY <1>2, <1>3 DEF LoadEof, TypeOK
<1>4. CASE LoadHash
  <2>1. CASE cheatTotal >= NAME_MAX
    BY <1>2, <1>4, <2>1 DEF LoadHash, TypeOK
  <2>2. CASE ~(cheatTotal >= NAME_MAX)
    BY <1>4, <2>2, OrderKept DEF LoadHash, TypeOK, Index
  <2> QED  BY <2>1, <2>2
<1>5. CASE LoadCode
  <2>1. CASE blockTotal = BLOCK_MAX
    BY <1>2, <1>5, <2>1 DEF LoadCode, TypeOK
  <2>2. CASE blockTotal # BLOCK_MAX
    <3>1. cheatTotal' = cheatTotal /\ cheatTotal \in Nat
      BY <1>5, <2>2 DEF LoadCode, TypeOK
    <3>2. cheat' = IF cheatTotal = 0 THEN cheat
                   ELSE [cheat EXCEPT ![cheatTotal - 1].len = @ + 1]
      BY <1>5, <2>2 DEF LoadCode
    <3> SUFFICES ASSUME NEW c \in Listed, NEW d \in Listed, c < d
                 PROVE  End(c)' <= Start(d)'
      BY <3>1 DEF CheatsOrdered, Listed
    <3>3. /\ cheatTotal - 1 \in Index /\ cheatTotal # 0 /\ c # cheatTotal - 1
          /\ c \in Index /\ d \in Index
      BY <3>1 DEF Listed, Index, TypeOK
    <3>4. cheat'[c] = cheat[c] /\ cheat'[d].block = cheat[d].block
      BY <3>2, <3>3 DEF TypeOK, Entry
    <3> QED  BY <3>4 DEF CheatsOrdered, End, Start
  <2> QED  BY <2>1, <2>2
<1> QED  BY <1>1, <1>3, <1>4, <1>5 DEF Load

(* The end of the entry last in the list is the end of all of them.        *)
LEMMA LastEndIsLast ==
  ASSUME OrderedInv, NEW c \in Listed PROVE End(c) <= LastEnd
<1>1. cheatTotal # 0 /\ cheatTotal - 1 \in Listed /\ LastEnd = End(cheatTotal - 1)
  BY DEF Listed, LastEnd, LastEntry, End, OrderedInv, TableInv, TypeOK
<1>2. /\ cheat[cheatTotal - 1] \in Entry /\ cheat[c] \in Entry
  BY <1>1 DEF OrderedInv, TableInv, TypeOK, Listed, Index
<1>3. CASE c = cheatTotal - 1
  BY <1>1, <1>2, <1>3 DEF End, Entry
<1>4. CASE c < cheatTotal - 1
  <2>1. End(c) <= Start(cheatTotal - 1)
    BY <1>1, <1>4 DEF OrderedInv, CheatsOrdered
  <2> QED  BY <1>1, <1>2, <2>1 DEF Start, End, Entry
<1> QED  BY <1>3, <1>4 DEF Listed, OrderedInv, TableInv, TypeOK

LEMMA ChangeOrdered == NoSwap /\ OrderedInv /\ Change => CheatsOrdered'
<1> SUFFICES ASSUME NoSwap, OrderedInv, Change PROVE CheatsOrdered'
  OBVIOUS
<1> USE DEF OrderedInv, TableInv
<1>1. CASE MoveUp \/ MoveDown
  BY <1>1, OrderKept DEF NoSwap, MoveUp, MoveDown, TypeOK
<1>2. CASE CopyCheat
  <2>1. /\ cheatTotal \in Index
        /\ cheat' = [cheat EXCEPT ![cheatTotal] =
                       [block |-> LastEnd, len |-> cheat[cheatSelected].len]]
        /\ cheatTotal' = cheatTotal + 1
    BY <1>2 DEF CopyCheat, TypeOK, Index
  <2>2. /\ \A c \in Listed : cheat'[c] = cheat[c]
        /\ cheat'[cheatTotal].block = LastEnd
    BY <2>1 DEF TypeOK, Listed, Index
  <2> QED  BY <2>1, <2>2, LastEndIsLast, OrderAppended
<1>3. ASSUME NEW len, NEW a, HasRoom, cheatNew(len, a) PROVE CheatsOrdered'
  <2>1. /\ cheatTotal \in Index /\ cheatTotal' = cheatTotal + 1
        /\ cheat' = [cheat EXCEPT ![cheatTotal] = [block |-> blockTotal, len |-> len]]
    BY <1>3 DEF cheatNew, HasRoom, TypeOK, Index
  <2>2. /\ \A c \in Listed : cheat'[c] = cheat[c]
        /\ cheat'[cheatTotal].block = blockTotal
    BY <2>1 DEF TypeOK, Listed, Index
  <2> QED  BY <2>1, <2>2, OrderAppended DEF RangesInTable
<1>4. CASE AddCheat
  BY <1>3, <1>4 DEF AddCheat
<1>5. CASE AddRange
  <2>1. CASE HasRoom
    BY <1>3, <1>5, <2>1 DEF AddRange
  <2>2. CASE ~HasRoom
    BY <1>5, <2>2, OrderKept DEF AddRange, table, TypeOK
  <2> QED  BY <2>1, <2>2
<1>6. CASE RefreshCheats
  BY <1>6, OrderKept DEF RefreshCheats, TypeOK
<1> QED  BY <1>1, <1>2, <1>4, <1>5, <1>6 DEF Change

LEMMA OrderedNext ==
  BeforeIsZero /\ NoSwap /\ OrderedInv /\ [Next]_vars => OrderedInv'
<1> SUFFICES ASSUME BeforeIsZero, NoSwap, OrderedInv, [Next]_vars
             PROVE  CheatsOrdered'
  BY NextInv DEF OrderedInv
<1>1. CASE Load
  BY <1>1, LoadOrdered
<1>2. CASE Change
  BY <1>2, ChangeOrdered
<1>3. CASE Browse
  BY <1>3, OrderKept DEF Browse, OpenMenu, LeaveMenu, SwitchTab, SetLength,
     EditCheat, table, OrderedInv, TableInv, TypeOK
<1>4. CASE Cursor
  BY <1>4, OrderKept DEF Cursor, CursorUp, CursorDown, CursorPageUp,
     CursorPageDown, LeaveEditor, MoveCursor, table, OrderedInv, TableInv, TypeOK
<1>5. CASE PressTrigger
  BY <1>5, OrderKept DEF PressTrigger, OrderedInv, TableInv, TypeOK
<1>6. CASE UNCHANGED vars
  BY <1>6, OrderKept DEF vars, OrderedInv, TableInv, TypeOK
<1> QED  BY <1>1, <1>2, <1>3, <1>4, <1>5, <1>6 DEF Next

LEMMA OrderedInvariant ==
  ASSUME BeforeIsZero, NoSwap PROVE Spec => []OrderedInv
<1>1. Init => OrderedInv
  <2>1. Init => Listed = {}
    BY DEF Init, Listed
  <2> QED  BY <2>1, InitInv DEF OrderedInv, CheatsOrdered
<1>2. OrderedInv /\ [Next]_vars => OrderedInv'
  BY OrderedNext
<1> QED  BY <1>1, <1>2, PTL DEF Spec

(* No line belongs to two cheats, as long as the user does not reorder the *)
(* list; the run table_swap shows that the restriction is needed.          *)
THEOREM CheatsAreDisjoint ==
  ASSUME BeforeIsZero, NoSwap PROVE Spec => []CheatsDisjoint
<1>1. OrderedInv => CheatsDisjoint
  <2> SUFFICES ASSUME OrderedInv, NEW c \in Listed, NEW d \in Listed, c # d
               PROVE  Lines(c) \cap Lines(d) = {}
    BY DEF CheatsDisjoint
  <2>1. /\ cheat[c] \in Entry /\ cheat[d] \in Entry
    BY DEF OrderedInv, TableInv, TypeOK, Listed, Index
  <2>2. End(c) <= Start(d) \/ End(d) <= Start(c)
    BY DEF OrderedInv, CheatsOrdered, TableInv, TypeOK, Listed
  <2> QED  BY <2>1, <2>2 DEF Lines, Start, End, Entry
<1> QED  BY <1>1, OrderedInvariant, PTL

-----------------------------------------------------------------------------
(* What a step does to the lines of the cheats it finds listed.            *)
LEMMA ListedLine ==
  ASSUME TableInv, NEW c \in Listed, NEW n \in Lines(c)
  PROVE  n \in Slot /\ n < End(c) /\ n < blockTotal
<1>1. c \in Index /\ cheat[c] \in Entry /\ End(c) <= blockTotal
  BY DEF TableInv, TypeOK, Listed, Index, RangesInTable
<1> QED  BY <1>1 DEF Lines, Start, End, Entry, Slot, TableInv, TypeOK

LEMMA LinesKeptStep ==
  ASSUME NoSwap, OrderedInv, Next,
         NEW c \in Listed, cheat'[c] = cheat[c], NEW n \in Lines(c)
  PROVE  SameCode(block'[n], block[n])
<1> USE DEF OrderedInv, TableInv
<1>1. n \in Slot /\ n < End(c) /\ n < blockTotal
  BY ListedLine
<1>2. CASE UNCHANGED block
  BY <1>2 DEF SameCode
<1>3. CASE LoadCode /\ blockTotal # BLOCK_MAX
  <2>1. block'[n] = block[n]
    BY <1>1, <1>3 DEF LoadCode, TypeOK
  <2> QED  BY <2>1 DEF SameCode
<1>4. CASE CopyCheat
  <2>1. n \notin LastEnd .. LastEnd + cheat[cheatSelected].len - 1
    <3>1. End(c) <= LastEnd
      BY LastEndIsLast
    <3>2. c \in Index /\ cheat[c] \in Entry /\ LastEnd \in Int
      <4>1. cheatTotal - 1 \in Index /\ cheatTotal # 0 /\ c \in Index
        BY DEF Listed, Index, TypeOK
      <4> QED  BY <4>1 DEF LastEnd, LastEntry, TypeOK, Entry
    <3> QED  BY <1>1, <3>1, <3>2 DEF End, Entry, Slot
  <2>2. block'[n] = block[n]
    BY <1>1, <1>4, <2>1 DEF CopyCheat, Copied
  <2> QED  BY <2>2 DEF SameCode
<1>5. ASSUME NEW len, NEW a, cheatNew(len, a) PROVE SameCode(block'[n], block[n])
  BY <1>1, <1>5 DEF cheatNew, SameCode, Slot, TypeOK
<1>6. CASE AddCheat
  BY <1>5, <1>6 DEF AddCheat
<1>7. CASE AddRange
  BY <1>2, <1>5, <1>7 DEF AddRange, table
<1>8. CASE PressTrigger
  BY <1>1, <1>8, TriggerBlocks
<1>9. \/ UNCHANGED block
      \/ LoadCode /\ blockTotal # BLOCK_MAX
      \/ CopyCheat
      \/ AddCheat
      \/ AddRange
      \/ PressTrigger
  <2>1. CASE Load
    <3>1. LoadEol \/ LoadSemicolon => UNCHANGED block
      BY DEF LoadEol, LoadSemicolon
    <3>2. LoadEof \/ LoadHash => UNCHANGED block
      BY DEF LoadEof, LoadHash, LoadStop
    <3>3. LoadCode => UNCHANGED block \/ blockTotal # BLOCK_MAX
      BY DEF LoadCode, LoadStop
    <3> QED  BY <2>1, <3>1, <3>2, <3>3 DEF Load
  <2>2. CASE Browse
    BY <2>2 DEF Browse, OpenMenu, LeaveMenu, SwitchTab, SetLength, EditCheat, table
  <2>3. CASE Cursor
    BY <2>3 DEF Cursor, CursorUp, CursorDown, CursorPageUp, CursorPageDown,
       LeaveEditor, MoveCursor, table
  <2>4. CASE Change
    <3>1. MoveUp \/ MoveDown \/ RefreshCheats => UNCHANGED block
      BY DEF MoveUp, MoveDown, RefreshCheats
    <3> QED  BY <2>4, <3>1 DEF Change
  <2> QED  BY <2>1, <2>2, <2>3, <2>4 DEF Next
<1> QED  BY <1>2, <1>3, <1>4, <1>6, <1>7, <1>8, <1>9

(* Adding, copying or backing up never changes what a listed cheat writes, *)
(* as long as the user does not reorder the list.                          *)
THEOREM AdditionsKeepLines ==
  ASSUME BeforeIsZero, NoSwap PROVE Spec => LinesKept
<1> DEFINE Kept == \A c \in 0 .. cheatTotal' - 1 :
                     (c \in Listed /\ cheat'[c] = cheat[c])
                       => \A n \in Lines(c) : SameCode(block'[n], block[n])
<1>1. OrderedInv /\ [Next]_vars => [Kept]_vars
  BY LinesKeptStep
<1>2. Spec => [][Kept]_vars
  BY <1>1, OrderedInvariant, PTL DEF Spec
<1> QED  BY <1>2 DEF LinesKept

=============================================================================
