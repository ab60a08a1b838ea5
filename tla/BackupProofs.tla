---------------------------- MODULE BackupProofs ----------------------------
(***************************************************************************)
(* The trigger's backups are every line's own (BackupIsOwn), for tables of *)
(* any size: the walk over block[], which recognises a cheat by comparing  *)
(* with the next entry's first line only, resets the pointer at the first  *)
(* line of every listed cheat and nowhere else; and what is added or       *)
(* copied later keeps that.  The table is one that nobody reorders or      *)
(* loads again and that has no cheat without lines.                        *)
(***************************************************************************)
EXTENDS CheatTableProofs

USE BoundsAssumption, ValueAssumption DEF AllUses

Plain == Uses = {}

(* A cheat has a line, but the one whose lines are being read.             *)
Filled ==
  \A c \in Listed : cheat[c].len > 0 \/ (Loading /\ ~nameMode /\ c = cheatTotal - 1)

(* The entries that are not listed are empty; only the first of them may   *)
(* be one that was dropped, or whose name was not ended, and then it is    *)
(* behind all the others.                                                  *)
Behind ==
  \A e \in Index :
    /\ e > cheatTotal => Start(e) = 0
    /\ e = cheatTotal => Start(e) = 0 \/ \A c \in Listed : End(c) <= Start(e)
NextZero ==
  Loading /\ ~nameMode /\ cheatTotal \in 1 .. NAME_MAX - 1 => Start(cheatTotal) = 0

(* The backups are made in the game, when the file is read.                *)
SavedInGame == cheatSaved => ~Loading

Shape == Filled /\ Behind /\ NextZero /\ SavedInGame
ShapeInv == OrderedInv /\ Shape

LEMMA PlainUses == Plain => NoSwap /\ ~AllowEmpty /\ "refresh" \notin Uses
BY DEF Plain, NoSwap, AllowEmpty

-----------------------------------------------------------------------------
(* The shape of the table.                                                 *)
(* One cheat more.                                                         *)
LEMMA ShapeAppended ==
  ASSUME ShapeInv, NEW e \in Entry, e.len > 0, cheatTotal < NAME_MAX,
         cheat' = [cheat EXCEPT ![cheatTotal] = e], cheatTotal' = cheatTotal + 1,
         ~Loading, ~Loading', cheatSaved' = cheatSaved
  PROVE  Shape'
<1> USE DEF ShapeInv, OrderedInv, TableInv, TypeOK
<1>1. ASSUME NEW c \in Index, c # cheatTotal PROVE cheat'[c] = cheat[c]
  BY <1>1
<1>2. cheat'[cheatTotal] = e /\ cheatTotal \in Index
  BY DEF Index
<1>3. Behind'
  <2>1. ASSUME NEW c \in Index, c >= cheatTotal' PROVE Start(c)' = 0
    <3>1. c # cheatTotal /\ c > cheatTotal
      BY <2>1 DEF Index
    <3> QED  BY <1>1, <3>1 DEF Shape, Behind, Start
  <2> QED  BY <2>1 DEF Behind, Index
<1>4. Filled'
  <2> SUFFICES ASSUME NEW c \in 0 .. cheatTotal PROVE cheat'[c].len > 0
    BY DEF Filled, Listed
  <2>1. CASE c = cheatTotal
    BY <1>2, <2>1
  <2>2. CASE c # cheatTotal
    <3>1. c \in Listed /\ c \in Index
      BY <2>2 DEF Listed, Index
    <3> QED  BY <1>1, <2>2, <3>1 DEF Shape, Filled
  <2> QED  BY <2>1, <2>2
<1> QED  BY <1>3, <1>4 DEF Shape, NextZero, SavedInGame

LEMMA ShapeStop ==
  ASSUME ShapeInv, NEW total, LoadStop(total), Loading,
         total = cheatTotal \/ (total = cheatTotal - 1 /\ cheatTotal > 0 /\ ~nameMode),
         total = cheatTotal => LastHasLines
  PROVE  Shape'
<1> USE DEF ShapeInv, OrderedInv, TableInv, TypeOK
<1>1. /\ cheat' = cheat /\ cheatSaved' = cheatSaved /\ nameMode' = FALSE
      /\ cheatTotal' = total /\ total \in 0 .. cheatTotal
      /\ screen' \in {"reboot", "game", "other"}
      /\ screen' = "reboot" => total = 0
  BY DEF LoadStop, Loading
<1>2. Filled'
  <2> SUFFICES ASSUME NEW c \in 0 .. total - 1 PROVE cheat[c].len > 0
    BY <1>1 DEF Filled, Listed
  <2>1. c \in Listed /\ (total = cheatTotal \/ c # cheatTotal - 1)
    BY <1>1 DEF Listed
  <2> QED  BY <2>1 DEF Shape, Filled, LastHasLines
<1>3. Behind'
  <2> SUFFICES ASSUME NEW e \in Index
               PROVE  /\ e > total => Start(e) = 0
                      /\ e = total => Start(e) = 0 \/ \A c \in 0 .. total - 1 : End(c) <= Start(e)
    BY <1>1 DEF Behind, Listed, Start, End
  <2>1. CASE total = cheatTotal
    BY <2>1 DEF Shape, Behind, Listed
  <2>2. CASE total = cheatTotal - 1
    <3>1. e = cheatTotal => Start(e) = 0
      BY <2>2 DEF Shape, NextZero, Index
    <3>2. e > cheatTotal => Start(e) = 0
      BY DEF Shape, Behind
    <3>3. e = total => \A c \in 0 .. total - 1 : End(c) <= Start(e)
      BY <2>2 DEF CheatsOrdered, Listed
    <3> QED  BY <2>2, <3>1, <3>2, <3>3 DEF Index
  <2> QED  BY <2>1, <2>2
<1>4. NextZero' /\ SavedInGame'
  BY <1>1 DEF NextZero, SavedInGame, Shape, Loading
<1> QED  BY <1>2, <1>3, <1>4 DEF Shape

LEMMA ShapeLoad ==
  ASSUME Plain, ShapeInv, Load PROVE Shape'
<1> USE DEF ShapeInv, OrderedInv, TableInv, TypeOK
<1>0. ~AllowEmpty /\ Loading
  BY PlainUses DEF Load, LoadEol, LoadSemicolon, LoadEof, LoadHash, LoadCode
<1>1. CASE LoadEol \/ LoadSemicolon
  <2>1. /\ cheat' = cheat /\ cheatSaved' = cheatSaved /\ ~nameMode' /\ Loading'
        /\ cheatTotal' = IF nameMode THEN cheatTotal + 1 ELSE cheatTotal
    BY <1>1, <1>0 DEF LoadEol, LoadSemicolon, Loading
  <2>2. CASE nameMode
    <3>1. Filled'
      BY <1>0, <2>1, <2>2 DEF Filled, Shape, Listed, LoaderInv, LastHasLines
    <3>2. Behind' /\ NextZero'
      BY <2>1, <2>2 DEF Shape, Behind, NextZero, Start, Index
    <3>3. SavedInGame'
      BY <1>0, <2>1 DEF Shape, SavedInGame
    <3> QED  BY <3>1, <3>2, <3>3 DEF Shape
  <2>3. CASE ~nameMode
    BY <1>0, <2>1, <2>3 DEF Shape, Filled, Behind, NextZero, SavedInGame, Listed, Start, End
  <2> QED  BY <2>2, <2>3
<1>2. CASE LoadEof
  BY <1>0, <1>2, ShapeStop DEF LoadEof
<1>3. CASE LoadHash
  <2>1. CASE cheatTotal >= NAME_MAX
    BY <1>0, <1>3, <2>1, ShapeStop DEF LoadHash
  <2>2. CASE cheatTotal < NAME_MAX
    <3>1. /\ cheat' = [cheat EXCEPT ![cheatTotal] = [block |-> blockTotal, len |-> 0]]
          /\ nameMode' = TRUE /\ cheatTotal' = cheatTotal /\ cheatSaved' = cheatSaved
          /\ Loading' /\ LastHasLines
      BY <1>0, <1>3, <2>2 DEF LoadHash, Loading
    <3>2. \A c \in Listed : cheat'[c] = cheat[c]
      BY <2>2, <3>1 DEF Listed, Index
    <3>3. Filled'
      BY <3>1, <3>2 DEF Shape, Filled, Listed, LastHasLines
    <3>4. Behind'
      <4>1. cheat'[cheatTotal].block = blockTotal /\ cheatTotal \in Index
        BY <2>2, <3>1 DEF Index
      <4>2. \A c \in Listed : End(c)' <= blockTotal
        BY <3>2 DEF RangesInTable, End
      <4>3. \A c \in Index : c > cheatTotal => cheat'[c] = cheat[c]
        BY <3>1 DEF Index
      <4> QED  BY <3>1, <4>1, <4>2, <4>3 DEF Shape, Behind, Start, Listed
    <3> QED  BY <1>0, <3>1, <3>3, <3>4 DEF Shape, NextZero, SavedInGame
  <2> QED  BY <2>1, <2>2
<1>4. CASE LoadCode
  <2>1. CASE blockTotal = BLOCK_MAX
    BY <1>0, <1>4, <2>1, ShapeStop DEF LoadCode
  <2>2. CASE blockTotal # BLOCK_MAX
    <3>1. /\ cheatTotal' = cheatTotal /\ cheatSaved' = cheatSaved /\ ~nameMode /\ ~nameMode'
          /\ Loading' = Loading
          /\ cheat' = IF cheatTotal = 0 THEN cheat
                      ELSE [cheat EXCEPT ![cheatTotal - 1].len = @ + 1]
      BY <1>4, <2>2 DEF LoadCode, Loading, loader
    <3>2. \A c \in Index : Start(c)' = Start(c)
      BY <3>1 DEF Start, Index, Entry
    <3>3. \A c \in Listed : c # cheatTotal - 1 => cheat'[c] = cheat[c]
      BY <3>1 DEF Listed, Index
    <3>4. Filled'
      BY <1>0, <3>1, <3>3 DEF Shape, Filled, Listed
    <3>5. Behind'
      <4> SUFFICES ASSUME NEW e \in Index
                   PROVE  /\ e > cheatTotal => Start(e)' = 0
                          /\ e = cheatTotal => Start(e)' = 0 \/ \A c \in Listed : End(c)' <= Start(e)'
        BY <3>1 DEF Behind, Listed
      <4>1. e > cheatTotal => Start(e)' = 0
        BY <3>2 DEF Shape, Behind
      <4>2. e = cheatTotal => Start(e)' = 0 \/ Listed = {}
        <5>1. e = cheatTotal /\ cheatTotal > 0 => Start(e) = 0
          BY <1>0, <3>1 DEF Shape, NextZero, Index
        <5>2. cheatTotal = 0 => Listed = {}
          BY DEF Listed
        <5> QED  BY <3>2, <5>1, <5>2
      <4> QED  BY <4>1, <4>2
    <3>6. NextZero'
      BY <3>1, <3>2 DEF Shape, NextZero, Index
    <3> QED  BY <3>1, <3>4, <3>5, <3>6 DEF Shape, SavedInGame
  <2> QED  BY <2>1, <2>2
<1> QED  BY <1>1, <1>2, <1>3, <1>4 DEF Load

(* What a change lists.                                                    *)
LEMMA Appends ==
  ASSUME Plain, ShapeInv, Change
  PROVE  \/ UNCHANGED <<cheat, cheatTotal, block, nameMode, screen, cheatSaved>>
         \/ UNCHANGED <<cheat, cheatTotal, block, nameMode, cheatSaved>> /\ ~Loading /\ ~Loading'
         \/ \E e \in Entry :
              /\ e.len > 0 /\ cheatTotal < NAME_MAX /\ cheatTotal' = cheatTotal + 1
              /\ cheat' = [cheat EXCEPT ![cheatTotal] = e]
              /\ ~Loading /\ ~Loading' /\ cheatSaved' = cheatSaved
<1> USE DEF ShapeInv, OrderedInv, TableInv, TypeOK
<1>1. CASE MoveUp \/ MoveDown
  BY <1>1, PlainUses DEF MoveUp, MoveDown, NoSwap, loader
<1>2. CASE RefreshCheats
  BY <1>2, PlainUses DEF RefreshCheats
<1>3. CASE CopyCheat
  <2>1. cheatTotal > 0 /\ screen = "cheater" /\ cheatSelected \in Listed /\ cheatSelected \in Index
    BY <1>3, PlainUses DEF CopyCheat, SelectedInv, NoEntry, Listed, Index
  <2>2. ~Loading /\ ~Loading'
    BY <1>3, <2>1 DEF CopyCheat, Loading
  <2>3. cheat[cheatSelected].len > 0 /\ cheat[cheatSelected] \in Entry
    BY <2>1, <2>2 DEF Shape, Filled
  <2>4. LastEnd \in Nat
    BY <2>1 DEF LastEnd, LastEntry, Index, Entry
  <2>5. [block |-> LastEnd, len |-> cheat[cheatSelected].len] \in Entry
    BY <2>3, <2>4 DEF Entry
  <2> QED  BY <1>3, <2>2, <2>3, <2>5 DEF CopyCheat
<1>4. ASSUME NEW len \in Nat, len > 0, NEW a, HasRoom, screen = "other", cheatNew(len, a),
             EditFrom(blockTotal, cheatTotal), cheatSaved' = cheatSaved
      PROVE  \E e \in Entry :
              /\ e.len > 0 /\ cheatTotal < NAME_MAX /\ cheatTotal' = cheatTotal + 1
              /\ cheat' = [cheat EXCEPT ![cheatTotal] = e]
              /\ ~Loading /\ ~Loading' /\ cheatSaved' = cheatSaved
  <2>1. [block |-> blockTotal, len |-> len] \in Entry
    BY <1>4 DEF Entry
  <2> QED  BY <1>4, <2>1 DEF cheatNew, EditFrom, HasRoom, Loading
<1>5. CASE AddCheat
  <2>1. PICK len \in {1, cheatLength}, a \in Addr :
          len > 0 /\ cheatNew(len, a) /\ EditFrom(blockTotal, cheatTotal)
    BY <1>5, PlainUses DEF AddCheat
  <2> QED  BY <1>4, <1>5, <2>1 DEF AddCheat
<1>6. CASE AddRange
  <2>1. CASE HasRoom
    <3>1. PICK len \in 0 .. MaxLength, a \in Addr :
            len > 0 /\ cheatNew(decToCheatLength(len), a) /\ EditFrom(blockTotal, cheatTotal)
      BY <1>6, <2>1, PlainUses DEF AddRange
    <3>2. decToCheatLength(len) \in Nat /\ decToCheatLength(len) > 0
      BY <2>1, <3>1 DEF decToCheatLength, HasRoom
    <3> QED  BY <1>4, <1>6, <2>1, <3>1, <3>2 DEF AddRange
  <2>2. CASE ~HasRoom
    BY <1>6, <2>2 DEF AddRange, EditFrom, table, loader, Loading
  <2> QED  BY <2>1, <2>2
<1> QED  BY <1>1, <1>2, <1>3, <1>5, <1>6 DEF Change

LEMMA ShapeNext ==
  ASSUME BeforeIsZero, Plain, ShapeInv, [Next]_vars PROVE ShapeInv'
<1>0. OrderedInv'
  BY OrderedNext, PlainUses DEF ShapeInv
<1> USE DEF ShapeInv, OrderedInv, TableInv, TypeOK
<1>1. CASE Load
  BY <1>0, <1>1, ShapeLoad
<1>2. CASE Change
  <2>1. CASE UNCHANGED <<cheat, cheatTotal, nameMode, cheatSaved>> /\ Loading' = Loading
    <3>1. cheatSaved' = cheatSaved
      BY <2>1
    <3>2. Shape'
      BY <2>1 DEF Shape, Filled, Behind, NextZero, SavedInGame, Listed, Start, End
    <3> QED  BY <1>0, <3>2
  <2>2. ASSUME NEW e \in Entry, e.len > 0, cheatTotal < NAME_MAX, cheatTotal' = cheatTotal + 1,
               cheat' = [cheat EXCEPT ![cheatTotal] = e],
               ~Loading, ~Loading', cheatSaved' = cheatSaved
        PROVE  ShapeInv'
    BY <1>0, <2>2, ShapeAppended
  <2> QED  BY <1>2, <2>1, <2>2, Appends DEF Loading
<1>3. CASE Browse \/ Cursor \/ UNCHANGED vars
  <2>1. UNCHANGED <<cheat, cheatTotal, nameMode, cheatSaved>> /\ Loading' = Loading
    BY <1>3 DEF Browse, OpenMenu, LeaveMenu, SwitchTab, SetLength, EditCheat, Cursor, CursorUp,
       CursorDown, CursorPageUp, CursorPageDown, LeaveEditor, MoveCursor, table, loader, vars, Loading
  <2>2. Shape'
    BY <2>1 DEF Shape, Filled, Behind, NextZero, SavedInGame, Listed, Start, End
  <2> QED  BY <1>0, <2>2
<1>4. CASE PressTrigger
  <2>1. UNCHANGED <<cheat, cheatTotal, nameMode>> /\ ~Loading /\ ~Loading'
    BY <1>4 DEF PressTrigger, loader, Loading
  <2>2. Shape'
    BY <2>1 DEF Shape, Filled, Behind, NextZero, SavedInGame, Listed, Start, End
  <2> QED  BY <1>0, <2>2
<1> QED  BY <1>1, <1>2, <1>3, <1>4 DEF Next

-----------------------------------------------------------------------------
(* The pointer line before line n, from line s on; OwnBase is the case of  *)
(* a cheat's own lines.                                                    *)
PointerIn(b, m, n) == b[m].dma /\ \A k \in m + 1 .. n : ~b[k].dma
BaseIn(b, s, n) ==
  IF \E m \in s .. n : PointerIn(b, m, n)
    THEN b[CHOOSE m \in s .. n : PointerIn(b, m, n)].addr
    ELSE None

LEMMA OwnBaseIn == \A c, n : OwnBase(c, n) = BaseIn(block, Start(c), n)
BY DEF OwnBase, BaseIn, OwnPointer, PointerIn

(* There is at most one.                                                   *)
LEMMA BaseInIs ==
  ASSUME NEW b, NEW s \in Int, NEW n \in Int, NEW m \in s .. n, PointerIn(b, m, n)
  PROVE  BaseIn(b, s, n) = b[m].addr
<1>1. ASSUME NEW k \in s .. n, PointerIn(b, k, n) PROVE k = m
  <2>1. k < m => m \in k + 1 .. n
    OBVIOUS
  <2>2. m < k => k \in m + 1 .. n
    OBVIOUS
  <2> QED  BY <1>1, <2>1, <2>2 DEF PointerIn
<1>2. (CHOOSE k \in s .. n : PointerIn(b, k, n)) = m
  BY <1>1
<1> QED  BY <1>2 DEF BaseIn

(* It is the lines' own.                                                   *)
LEMMA BaseInSame ==
  ASSUME NEW b, NEW b2, NEW s \in Int, NEW n \in Int,
         \A m \in s .. n : b2[m].dma = b[m].dma /\ b2[m].addr = b[m].addr
  PROVE  BaseIn(b2, s, n) = BaseIn(b, s, n)
<1>1. ASSUME NEW m \in s .. n PROVE PointerIn(b2, m, n) <=> PointerIn(b, m, n)
  <2>1. \A k \in m + 1 .. n : k \in s .. n
    OBVIOUS
  <2>2. \A k \in m + 1 .. n : b2[k].dma = b[k].dma
    BY <2>1
  <2>3. b2[m].dma = b[m].dma
    OBVIOUS
  <2> QED  BY <2>2, <2>3 DEF PointerIn
<1>2. CASE \E m \in s .. n : PointerIn(b, m, n)
  <2>1. PICK m \in s .. n : PointerIn(b, m, n)
    BY <1>2
  <2>2. BaseIn(b, s, n) = b[m].addr /\ BaseIn(b2, s, n) = b2[m].addr
    BY <1>1, <2>1, BaseInIs
  <2> QED  BY <2>2
<1>3. CASE ~\E m \in s .. n : PointerIn(b, m, n)
  BY <1>1, <1>3 DEF BaseIn
<1> QED  BY <1>2, <1>3

(* It moves with the lines.                                                *)
LEMMA BaseInMoved ==
  ASSUME NEW b, NEW b2, NEW s \in Int, NEW n \in Int, NEW t \in Int,
         \A m \in s .. n : b2[m + t].dma = b[m].dma /\ b2[m + t].addr = b[m].addr
  PROVE  BaseIn(b2, s + t, n + t) = BaseIn(b, s, n)
<1>1. CASE \E m \in s .. n : PointerIn(b, m, n)
  <2>1. PICK m \in s .. n : PointerIn(b, m, n)
    BY <1>1
  <2>2. BaseIn(b, s, n) = b[m].addr
    BY <2>1, BaseInIs
  <2>3. PointerIn(b2, m + t, n + t)
    <3>1. b2[m + t].dma
      BY <2>1 DEF PointerIn
    <3>2. ASSUME NEW k \in m + t + 1 .. n + t PROVE ~b2[k].dma
      <4>1. k - t \in m + 1 .. n /\ k - t \in s .. n /\ (k - t) + t = k
        OBVIOUS
      <4>2. ~b[k - t].dma
        BY <2>1, <4>1 DEF PointerIn
      <4>3. b2[(k - t) + t].dma = b[k - t].dma
        BY <4>1
      <4> QED  BY <4>1, <4>2, <4>3
    <3> QED  BY <3>1, <3>2 DEF PointerIn
  <2>4. s + t \in Int /\ n + t \in Int /\ m + t \in s + t .. n + t
    OBVIOUS
  <2>5. BaseIn(b2, s + t, n + t) = b2[m + t].addr
    BY <2>3, <2>4, BaseInIs
  <2> QED  BY <2>2, <2>5
<1>2. CASE ~\E m \in s .. n : PointerIn(b, m, n)
  <2>1. ASSUME NEW j \in s + t .. n + t, PointerIn(b2, j, n + t) PROVE FALSE
    <3>1. j - t \in s .. n /\ (j - t) + t = j
      OBVIOUS
    <3>2. b[j - t].dma
      <4>1. b2[(j - t) + t].dma = b[j - t].dma
        BY <3>1
      <4> QED  BY <2>1, <3>1, <4>1 DEF PointerIn
    <3>3. ASSUME NEW k \in j - t + 1 .. n PROVE ~b[k].dma
      <4>1. k \in s .. n /\ k + t \in j + 1 .. n + t
        OBVIOUS
      <4> QED  BY <2>1, <4>1 DEF PointerIn
    <3> QED  BY <1>2, <3>1, <3>2, <3>3 DEF PointerIn
  <2>2. BaseIn(b, s, n) = None
    BY <1>2 DEF BaseIn
  <2>3. BaseIn(b2, s + t, n + t) = None
    BY <2>1 DEF BaseIn
  <2> QED  BY <2>2, <2>3
<1> QED  BY <1>1, <1>2

-----------------------------------------------------------------------------
(* The trigger's walk.                                                     *)
LEMMA ListedRange ==
  ASSUME TableInv, NEW c \in Listed
  PROVE  /\ c \in Index /\ cheat[c] \in Entry /\ Start(c) \in Nat /\ End(c) \in Nat
         /\ cheat[c].len \in Nat /\ End(c) = Start(c) + cheat[c].len
         /\ End(c) <= blockTotal /\ cheatTotal \in Nat
BY DEF TableInv, TypeOK, Listed, Index, RangesInTable, Start, End, Entry

(* It resets the pointer at the first line of a listed cheat and at none   *)
(* of its other lines.                                                     *)
LEMMA ResetsAtStarts ==
  ASSUME ShapeInv, ~Loading, NEW c \in Listed, NEW k \in Lines(c)
  PROVE  ResetAt(k) <=> k = Start(c)
<1> USE DEF ShapeInv, OrderedInv
<1>1. /\ c \in Index /\ Start(c) \in Nat /\ End(c) \in Nat /\ c \in Nat /\ cheatTotal \in Nat
      /\ k \in Start(c) .. End(c) - 1 /\ c < cheatTotal
  BY ListedRange DEF Lines, Listed
<1>2. ASSUME NEW d \in Listed PROVE Start(d) < End(d) /\ Start(d) \in Nat /\ End(d) \in Nat
  <2>1. cheat[d].len > 0
    BY DEF Shape, Filled
  <2> QED  BY <2>1, ListedRange
<1>3. Met(c)
  <2> SUFFICES ASSUME NEW d \in 1 .. c PROVE Start(d - 1) < Start(d)
    BY DEF Met
  <2>1. d - 1 \in Listed /\ d \in Listed /\ d - 1 < d
    BY <1>1 DEF Listed
  <2>2. End(d - 1) <= Start(d)
    BY <2>1 DEF CheatsOrdered
  <2> QED  BY <1>2, <2>1, <2>2
<1>4. ASSUME NEW e \in Index, Start(e) = k, Met(e) PROVE k = Start(c)
  <2>1. CASE e \in Listed
    <3>1. e < c => End(e) <= Start(c)
      BY <2>1 DEF CheatsOrdered
    <3>2. c < e => End(c) <= Start(e)
      BY <2>1 DEF CheatsOrdered
    <3>3. e \in Int
      BY DEF Index
    <3> QED  BY <1>1, <1>2, <1>4, <2>1, <3>1, <3>2, <3>3
  <2>2. CASE e \notin Listed
    <3>1. e >= cheatTotal /\ e \in Nat /\ e \in 1 .. e /\ e - 1 \in Index
      BY <1>1, <2>2 DEF Listed, Index
    <3>2. Start(e - 1) < Start(e) /\ Start(e - 1) \in Nat
      BY <1>4, <3>1 DEF Met, Start, TableInv, TypeOK, Entry
    <3>3. Start(e) # 0
      BY <1>1, <1>4, <3>2
    <3>4. e = cheatTotal
      BY <1>1, <3>1, <3>3 DEF Shape, Behind
    <3>5. End(c) <= Start(e)
      BY <3>3, <3>4 DEF Shape, Behind
    <3> QED  BY <1>1, <1>4, <3>5
  <2> QED  BY <2>1, <2>2
<1> QED  BY <1>1, <1>3, <1>4 DEF ResetAt

LEMMA WalkIsOwn ==
  ASSUME ShapeInv, ~Loading, NEW c \in Listed, NEW n \in Lines(c)
  PROVE  WalkBase(n) = OwnBase(c, n)
<1> USE DEF ShapeInv, OrderedInv
<1>1. /\ Start(c) \in Nat /\ End(c) \in Nat /\ n \in Start(c) .. End(c) - 1 /\ n \in Nat
  BY ListedRange DEF Lines
<1>2. ASSUME NEW m \in 0 .. n
      PROVE  IsPointerOf(m, n) <=> m \in Start(c) .. n /\ PointerIn(block, m, n)
  <2>1. ASSUME m < Start(c) PROVE ~IsPointerOf(m, n)
    <3>1. Start(c) \in m + 1 .. n /\ Start(c) \in Lines(c)
      BY <1>1, <2>1 DEF Lines
    <3>2. ResetAt(Start(c))
      BY <3>1, ResetsAtStarts
    <3> QED  BY <3>1, <3>2 DEF IsPointerOf
  <2>2. ASSUME m \in Start(c) .. n PROVE IsPointerOf(m, n) <=> PointerIn(block, m, n)
    <3>1. ASSUME NEW k \in m + 1 .. n PROVE ~ResetAt(k)
      <4>1. k \in Lines(c) /\ k # Start(c)
        BY <1>1, <2>2 DEF Lines
      <4> QED  BY <4>1, ResetsAtStarts
    <3> QED  BY <3>1 DEF IsPointerOf, PointerIn
  <2> QED  BY <1>1, <2>1, <2>2
<1>3. CASE \E m \in Start(c) .. n : PointerIn(block, m, n)
  <2>1. PICK m \in Start(c) .. n : PointerIn(block, m, n)
    BY <1>3
  <2>2. m \in 0 .. n /\ IsPointerOf(m, n)
    BY <1>1, <1>2, <2>1
  <2> DEFINE w == CHOOSE k \in 0 .. n : IsPointerOf(k, n)
  <2>3. w \in 0 .. n /\ IsPointerOf(w, n)
    BY <2>2
  <2> HIDE DEF w
  <2>4. w \in Start(c) .. n /\ PointerIn(block, w, n)
    BY <1>2, <2>3
  <2>5. BaseIn(block, Start(c), n) = block[w].addr
    BY <1>1, <2>4, BaseInIs
  <2>6. WalkBase(n) = block[w].addr
    BY <2>2 DEF WalkBase, w
  <2> QED  BY <2>5, <2>6, OwnBaseIn
<1>4. CASE ~\E m \in Start(c) .. n : PointerIn(block, m, n)
  <2>1. WalkBase(n) = None
    BY <1>2, <1>4 DEF WalkBase
  <2>2. BaseIn(block, Start(c), n) = None
    BY <1>4 DEF BaseIn
  <2> QED  BY <2>1, <2>2, OwnBaseIn
<1> QED  BY <1>3, <1>4

-----------------------------------------------------------------------------
(* A line's backup is its own.                                             *)
IsOwn(b, s, n) == ~b[n].dma => b[n].std = [base |-> BaseIn(b, s, n), addr |-> b[n].addr]

LEMMA OwnLines ==
  /\ BackupIsOwn <=> (cheatSaved => \A c \in Listed : \A n \in Lines(c) : IsOwn(block, Start(c), n))
  /\ BackupIsOwn' <=>
       (cheatSaved' => \A c \in Listed' : \A n \in Lines(c)' : IsOwn(block', Start(c)', n))
BY DEF BackupIsOwn, IsOwn, OwnBase, BaseIn, OwnPointer, PointerIn, Start, Lines, End, Listed

(* It stays so while the lines of its cheat do.                            *)
LEMMA OwnKept ==
  ASSUME NEW b, NEW b2, NEW s \in Int, NEW n \in Int, s <= n,
         \A m \in s .. n : b2[m] = b[m], IsOwn(b, s, n)
  PROVE  IsOwn(b2, s, n)
<1>1. BaseIn(b2, s, n) = BaseIn(b, s, n)
  BY BaseInSame
<1>2. b2[n] = b[n]
  OBVIOUS
<1> QED  BY <1>1, <1>2 DEF IsOwn

(* Made by the trigger.                                                    *)
LEMMA OwnBackedUp ==
  ASSUME ShapeInv, PressTrigger PROVE BackupIsOwn'
<1> USE DEF ShapeInv, OrderedInv
<1>1. /\ block' = BackedUp /\ ~Loading
      /\ UNCHANGED <<cheat, cheatTotal, blockTotal>>
  BY DEF PressTrigger, Loading
<1> SUFFICES ASSUME NEW c \in Listed, NEW n \in Lines(c) PROVE IsOwn(block', Start(c), n)
  BY <1>1, OwnLines DEF Listed, Lines, Start, End
<1>2. /\ Start(c) \in Nat /\ End(c) \in Nat /\ n \in Start(c) .. End(c) - 1 /\ n \in Int
      /\ n \in Slot /\ n < blockTotal
  BY ListedRange, ListedLine DEF Lines
<1>3. ASSUME NEW m \in Start(c) .. n
      PROVE  m \in Slot /\ block'[m].dma = block[m].dma /\ block'[m].addr = block[m].addr
  <2>1. m \in Slot /\ block[m] \in Line
    BY <1>2 DEF Slot, TableInv, TypeOK
  <2> QED  BY <1>1, <2>1 DEF BackedUp, Line
<1>4. BaseIn(block', Start(c), n) = BaseIn(block, Start(c), n)
  <2>1. Start(c) \in Int
    BY <1>2
  <2> QED  BY <1>2, <1>3, <2>1, BaseInSame
<1>5. WalkBase(n) = BaseIn(block, Start(c), n)
  BY <1>1, WalkIsOwn, OwnBaseIn
<1>6. ~block[n].dma => block'[n].std = [base |-> WalkBase(n), addr |-> block[n].addr]
  <2>1. block[n] \in Line
    BY <1>2 DEF TableInv, TypeOK
  <2> QED  BY <1>1, <1>2, <2>1 DEF BackedUp, Line
<1>7. n \in Start(c) .. n
  BY <1>2
<1> QED  BY <1>3, <1>4, <1>5, <1>6, <1>7 DEF IsOwn

(* Kept by what adds nothing.                                              *)
LEMMA OwnUnchanged ==
  ASSUME BackupIsOwn, UNCHANGED <<cheat, cheatTotal, block>>, cheatSaved' = cheatSaved
  PROVE  BackupIsOwn'
BY OwnLines DEF Listed, Lines, Start, End

(* Kept by what adds a cheat behind the others, if its own are.            *)
LEMMA OwnAppended ==
  ASSUME ShapeInv, BackupIsOwn, cheatSaved' = cheatSaved,
         cheatTotal < NAME_MAX, cheatTotal' = cheatTotal + 1, NEW e \in Entry,
         cheat' = [cheat EXCEPT ![cheatTotal] = e],
         \A c \in Listed : \A n \in Lines(c) : block'[n] = block[n],
         cheatSaved => \A n \in e.block .. e.block + e.len - 1 : IsOwn(block', e.block, n)
  PROVE  BackupIsOwn'
<1> USE DEF ShapeInv, OrderedInv
<1>1. cheatTotal \in Index /\ cheatTotal \in Nat /\ cheat \in [Index -> Entry]
  BY DEF TableInv, TypeOK, Index
<1> SUFFICES ASSUME cheatSaved, NEW c \in Listed', NEW n \in Lines(c)'
             PROVE  IsOwn(block', Start(c)', n)
  BY OwnLines
<1>2. c \in 0 .. cheatTotal
  BY <1>1 DEF Listed
<1>3. CASE c = cheatTotal
  <2>1. cheat'[c] = e
    BY <1>1, <1>3
  <2>2. Start(c)' = e.block /\ End(c)' = e.block + e.len /\ Lines(c)' = Start(c)' .. End(c)' - 1
    BY <2>1 DEF Start, End, Lines
  <2>3. n \in e.block .. e.block + e.len - 1
    <3>1. e.block \in Nat /\ e.len \in Nat
      BY DEF Entry
    <3>2. n \in Lines(c)'
      OBVIOUS
    <3>3. n \in Start(c)' .. End(c)' - 1
      BY <2>2, <3>2
    <3> QED  BY <2>2, <3>1, <3>3
  <2>4. IsOwn(block', e.block, n)
    BY <2>3
  <2> QED  BY <2>2, <2>4
<1>4. CASE c # cheatTotal
  <2>1. c \in Listed /\ c \in Index /\ cheat'[c] = cheat[c]
    BY <1>1, <1>2, <1>4 DEF Listed, Index
  <2>2. Start(c)' = Start(c) /\ Lines(c)' = Lines(c)
    BY <2>1 DEF Start, Lines, End
  <2>3. IsOwn(block, Start(c), n)
    BY <2>1, <2>2, OwnLines
  <2>4. Start(c) \in Int /\ n \in Int /\ Start(c) <= n /\ n <= End(c) - 1 /\ End(c) \in Int
    <3>1. Start(c) \in Nat /\ End(c) \in Nat
      BY <2>1, ListedRange
    <3>2. n \in Start(c) .. End(c) - 1
      BY <2>2 DEF Lines
    <3> QED  BY <3>1, <3>2
  <2>5. \A m \in Start(c) .. n : block'[m] = block[m]
    <3>1. \A m \in Start(c) .. n : m \in Lines(c)
      BY <2>4 DEF Lines
    <3> QED  BY <2>1, <3>1
  <2>6. IsOwn(block', Start(c), n)
    BY <2>3, <2>4, <2>5, OwnKept
  <2> QED  BY <2>2, <2>6
<1> QED  BY <1>3, <1>4

LEMMA OwnNew ==
  ASSUME ShapeInv, ShapeInv', BackupIsOwn, NEW len \in Nat, NEW a \in Addr, HasRoom,
         cheatNew(len, a), cheatSaved' = cheatSaved
  PROVE  BackupIsOwn'
<1> USE DEF ShapeInv, OrderedInv
<1> DEFINE e == [block |-> blockTotal, len |-> len]
<1>1. /\ e \in Entry /\ cheatTotal < NAME_MAX /\ cheatTotal' = cheatTotal + 1
      /\ cheat' = [cheat EXCEPT ![cheatTotal] = e] /\ blockTotal \in Nat
      /\ blockTotal + len <= BLOCK_MAX + MaxLength - 1
  BY DEF cheatNew, HasRoom, Entry, TableInv, TypeOK
<1>2. \A c \in Listed : \A n \in Lines(c) : block'[n] = block[n]
  <2> SUFFICES ASSUME NEW c \in Listed, NEW n \in Lines(c) PROVE block'[n] = block[n]
    OBVIOUS
  <2>1. n \in Slot /\ n < blockTotal
    BY ListedLine
  <2> QED  BY <1>1, <2>1 DEF cheatNew, Slot
<1>3. ASSUME cheatSaved, NEW n \in blockTotal .. blockTotal + len - 1
      PROVE  IsOwn(block', blockTotal, n)
  <2>1. ASSUME NEW m \in blockTotal .. n PROVE block'[m] = NewLine(block[m], a)
    <3>1. m \in Slot /\ m \in blockTotal .. blockTotal + len - 1
      BY <1>1 DEF Slot
    <3> QED  BY <3>1 DEF cheatNew
  <2>2. \A m \in blockTotal .. n : ~block'[m].dma
    <3> SUFFICES ASSUME NEW m \in blockTotal .. n PROVE ~block'[m].dma
      OBVIOUS
    <3>1. block'[m] = NewLine(block[m], a)
      BY <2>1
    <3>2. NewLine(block[m], a).dma = FALSE
      BY DEF NewLine
    <3> QED  BY <3>1, <3>2
  <2>3. BaseIn(block', blockTotal, n) = None
    BY <2>2 DEF BaseIn, PointerIn
  <2>4. n \in blockTotal .. n
    BY <1>1
  <2>5. block'[n].std = [base |-> None, addr |-> a] /\ block'[n].addr = a
    BY <1>3, <2>1, <2>4 DEF NewLine
  <2> QED  BY <2>3, <2>5 DEF IsOwn
<1>4. e.block = blockTotal /\ e.len = len
  OBVIOUS
<1> HIDE DEF e
<1> QED  BY <1>1, <1>2, <1>3, <1>4, OwnAppended

LEMMA OwnCopied ==
  ASSUME Plain, ShapeInv, BackupIsOwn, CopyCheat
  PROVE  BackupIsOwn'
<1> USE DEF ShapeInv, OrderedInv
<1> DEFINE len == cheat[cheatSelected].len
           e == [block |-> LastEnd, len |-> len]
           t == LastEnd - Start(cheatSelected)
<1>1. /\ cheatTotal > 0 /\ cheatSelected \in Listed
      /\ cheatTotal < NAME_MAX /\ cheatTotal' = cheatTotal + 1
      /\ cheat' = [cheat EXCEPT ![cheatTotal] = e]
      /\ block' = Copied(Start(cheatSelected), LastEnd, len)
      /\ blockTotal + len < BLOCK_MAX /\ cheatSaved' = cheatSaved
  BY PlainUses DEF CopyCheat, TableInv, TypeOK, SelectedInv, NoEntry, Listed, Start
<1>2. /\ LastEnd \in Nat /\ LastEnd <= blockTotal /\ blockTotal \in Nat
      /\ \A c \in Listed : End(c) <= LastEnd
  <2>1. cheatTotal - 1 \in Listed /\ LastEnd = End(cheatTotal - 1)
    BY <1>1 DEF Listed, LastEnd, LastEntry, End, TableInv, TypeOK
  <2>2. LastEnd \in Nat /\ LastEnd <= blockTotal /\ blockTotal \in Nat
    BY <2>1, ListedRange DEF TableInv, TypeOK
  <2> QED  BY <2>2, LastEndIsLast
<1>3. /\ Start(cheatSelected) \in Nat /\ len \in Nat
      /\ End(cheatSelected) = Start(cheatSelected) + len /\ End(cheatSelected) <= blockTotal
  BY <1>1, ListedRange
<1>4. e \in Entry /\ e.block = LastEnd /\ e.len = len
  BY <1>2, <1>3 DEF Entry
<1>5. ASSUME NEW c \in Listed, NEW n \in Lines(c) PROVE block'[n] = block[n]
  <2>1. n \in Slot /\ n < End(c) /\ End(c) <= LastEnd /\ End(c) \in Nat /\ n \in Int
    BY <1>2, ListedLine, ListedRange DEF Slot
  <2>2. n \notin LastEnd .. LastEnd + len - 1
    BY <1>2, <2>1
  <2> QED  BY <1>1, <2>1, <2>2 DEF Copied
<1> HIDE DEF len, e
<1>6. ASSUME cheatSaved, NEW n \in LastEnd .. LastEnd + len - 1 PROVE IsOwn(block', LastEnd, n)
  <2>1. /\ t \in Int /\ n - t \in Lines(cheatSelected) /\ (n - t) + t = n
        /\ Start(cheatSelected) + t = LastEnd /\ n - t \in Int /\ Start(cheatSelected) \in Int
        /\ n - t \in Start(cheatSelected) .. n - t
    BY <1>2, <1>3 DEF Lines
  <2>2. ASSUME NEW m \in Start(cheatSelected) .. n - t PROVE block'[m + t] = block[m]
    <3>1. m + t \in LastEnd .. LastEnd + len - 1 /\ m + t \in Slot
          /\ Start(cheatSelected) + ((m + t) - LastEnd) = m
      BY <1>1, <1>2, <1>3, <2>1 DEF Slot
    <3>2. block'[m + t] = block[Start(cheatSelected) + ((m + t) - LastEnd)]
      BY <1>1, <3>1 DEF Copied
    <3> QED  BY <3>1, <3>2
  <2> HIDE DEF t
  <2>3. IsOwn(block, Start(cheatSelected), n - t)
    BY <1>1, <1>6, <2>1, OwnLines
  <2>4. BaseIn(block', Start(cheatSelected) + t, (n - t) + t) = BaseIn(block, Start(cheatSelected), n - t)
    BY <2>1, <2>2, BaseInMoved
  <2>5. BaseIn(block', LastEnd, n) = BaseIn(block, Start(cheatSelected), n - t)
    BY <2>1, <2>4
  <2>6. block'[(n - t) + t] = block[n - t]
    BY <2>1, <2>2
  <2> QED  BY <2>1, <2>3, <2>5, <2>6 DEF IsOwn
<1> QED  BY <1>1, <1>4, <1>5, <1>6, OwnAppended

LEMMA OwnNext ==
  ASSUME BeforeIsZero, Plain, ShapeInv, ShapeInv', BackupIsOwn, [Next]_vars
  PROVE  BackupIsOwn'
<1> USE DEF ShapeInv, OrderedInv
<1>1. CASE Load
  <2>1. ~cheatSaved /\ cheatSaved' = cheatSaved
    BY <1>1 DEF Load, LoadEol, LoadSemicolon, LoadEof, LoadHash, LoadCode, LoadStop, Shape, SavedInGame
  <2> QED  BY <2>1 DEF BackupIsOwn
<1>2. CASE Browse \/ Cursor \/ UNCHANGED vars
  <2>1. UNCHANGED <<cheat, cheatTotal, block, cheatSaved>>
    BY <1>2 DEF Browse, OpenMenu, LeaveMenu, SwitchTab, SetLength, EditCheat, Cursor, CursorUp,
       CursorDown, CursorPageUp, CursorPageDown, LeaveEditor, MoveCursor, table, vars
  <2> QED  BY <2>1, OwnUnchanged
<1>3. CASE PressTrigger
  BY <1>3, OwnBackedUp
<1>4. CASE MoveUp \/ MoveDown \/ RefreshCheats
  <2>1. UNCHANGED <<cheat, cheatTotal, block, cheatSaved>>
    BY <1>4, PlainUses DEF MoveUp, MoveDown, RefreshCheats, NoSwap
  <2> QED  BY <2>1, OwnUnchanged
<1>5. CASE CopyCheat
  BY <1>5, OwnCopied
<1>6. CASE AddCheat
  <2>1. PICK len \in {1, cheatLength}, a \in Addr : cheatNew(len, a)
    BY <1>6 DEF AddCheat
  <2>2. len \in Nat /\ HasRoom /\ cheatSaved' = cheatSaved
    BY <1>6, <2>1 DEF AddCheat, TableInv, TypeOK
  <2> QED  BY <2>1, <2>2, OwnNew
<1>7. CASE AddRange
  <2>1. CASE HasRoom
    <3>1. PICK len \in 0 .. MaxLength, a \in Addr : cheatNew(decToCheatLength(len), a)
      BY <1>7, <2>1 DEF AddRange
    <3>2. decToCheatLength(len) \in Nat /\ cheatSaved' = cheatSaved
      BY <1>7, <2>1 DEF AddRange, decToCheatLength, HasRoom, TableInv, TypeOK
    <3> QED  BY <2>1, <3>1, <3>2, OwnNew
  <2>2. CASE ~HasRoom
    BY <1>7, <2>2, OwnUnchanged DEF AddRange, table
  <2> QED  BY <2>1, <2>2
<1> QED  BY <1>1, <1>2, <1>3, <1>4, <1>5, <1>6, <1>7 DEF Next, Change

(* What switching a cheat off would put back was read at the line's own    *)
(* word, through its own cheat's pointer, whatever was loaded, added or    *)
(* copied before the trigger or after it.                                  *)
THEOREM BackupsAreOwn == ASSUME BeforeIsZero, Plain PROVE Spec => []BackupIsOwn
<1>1. Init => ShapeInv /\ BackupIsOwn
  <2> SUFFICES ASSUME Init PROVE Shape /\ CheatsOrdered /\ BackupIsOwn
    BY InitInv DEF ShapeInv, OrderedInv
  <2>1. Listed = {} /\ ~cheatSaved /\ \A c \in Index : Start(c) = 0
    BY DEF Init, Listed, Start
  <2>2. Shape
    BY <2>1 DEF Shape, Filled, Behind, NextZero, SavedInGame, Init, Index
  <2> QED  BY <2>1, <2>2 DEF CheatsOrdered, BackupIsOwn
<1>2. (ShapeInv /\ BackupIsOwn) /\ [Next]_vars => (ShapeInv /\ BackupIsOwn)'
  BY ShapeNext, OwnNext
<1> QED  BY <1>1, <1>2, PTL DEF Spec
=============================================================================
