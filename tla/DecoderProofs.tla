--------------------------- MODULE DecoderProofs ---------------------------
(***************************************************************************)
(* Theorems about Browser and Decoder, for memories, pages, logs and       *)
(* widths of any size: the inductive invariant Inv, and from it that what  *)
(* is typed in the editor changes a byte of the memory, that the decoder   *)
(* stays on pages of its words, that returning leads back through the      *)
(* places left and that the marks stay in order.                           *)
(***************************************************************************)
EXTENDS Decoder, TLAPS

-----------------------------------------------------------------------------
(* Arithmetic: multiples of a number, in one place for the provers.        *)
LEMMA DivMod ==
  ASSUME NEW n \in Nat \ {0}, NEW a \in Int
  PROVE  a = n * (a \div n) + (a % n) /\ a % n \in 0 .. n - 1 /\ a \div n \in Int
  OBVIOUS

LEMMA SmallMultiple ==
  ASSUME NEW n \in Nat \ {0}, NEW k \in Int, n * k >= 0, n * k < n
  PROVE  k = 0
<1>1. CASE k >= 1
  <2>1. n * k >= n
    BY <1>1
  <2> QED BY <2>1
<1>2. CASE k <= -1
  <2>1. n * k <= -n
    BY <1>2
  <2> QED BY <2>1
<1> QED BY <1>1, <1>2

LEMMA ModMultiple ==
  ASSUME NEW n \in Nat \ {0}, NEW k \in Int
  PROVE  (k * n) % n = 0 /\ (k * n) \div n = k
<1> DEFINE q == (k * n) \div n
           r == (k * n) % n
<1>1. k * n \in Int
  OBVIOUS
<1>2. k * n = n * q + r /\ r \in 0 .. n - 1 /\ q \in Int
  BY <1>1, DivMod
<1> HIDE DEF q, r
<1>3. n * (k - q) = r /\ k - q \in Int
  BY <1>2
<1>4. k - q = 0
  BY <1>2, <1>3, SmallMultiple
<1>5. r = 0 /\ q = k
  BY <1>2, <1>3, <1>4
<1> QED BY <1>5 DEF q, r

LEMMA DivUnique ==
  ASSUME NEW n \in Nat \ {0}, NEW k \in Int, NEW d \in 0 .. n - 1
  PROVE  (k * n + d) \div n = k
<1> DEFINE a == k * n + d
           q == a \div n
           r == a % n
<1>1. a \in Int
  OBVIOUS
<1>2. a = n * q + r /\ r \in 0 .. n - 1 /\ q \in Int
  BY <1>1, DivMod
<1> HIDE DEF q, r
<1>3. n * (k - q) = r - d /\ n * (q - k) = d - r /\ k - q \in Int /\ q - k \in Int
  BY <1>2
<1>4. CASE r - d >= 0
  <2>1. k - q = 0
    BY <1>2, <1>3, <1>4, SmallMultiple
  <2> QED BY <1>2, <2>1 DEF q
<1>5. CASE d - r >= 0
  <2>1. q - k = 0
    BY <1>2, <1>3, <1>5, SmallMultiple
  <2> QED BY <1>2, <2>1 DEF q
<1> QED BY <1>2, <1>4, <1>5

LEMMA ModAdd ==
  ASSUME NEW n \in Nat \ {0}, NEW a \in Int, NEW b \in Int, a % n = 0, b % n = 0
  PROVE  (a + b) % n = 0 /\ (a - b) % n = 0
<1>1. a = n * (a \div n) /\ b = n * (b \div n) /\ a \div n \in Int /\ b \div n \in Int
  BY DivMod
<1>2. a + b = ((a \div n) + (b \div n)) * n /\ a - b = ((a \div n) - (b \div n)) * n
  BY <1>1
<1>3. (a \div n) + (b \div n) \in Int /\ (a \div n) - (b \div n) \in Int
  BY <1>1
<1> QED BY <1>2, <1>3, ModMultiple

(* A multiple of a multiple is one.                                        *)
LEMMA ModScale ==
  ASSUME NEW n \in Nat \ {0}, NEW a \in Int, NEW k \in Int, a % n = 0
  PROVE  (k * a) % n = 0
<1>1. a = n * (a \div n) /\ a \div n \in Int
  BY DivMod
<1>2. k * a = (k * (a \div n)) * n /\ k * (a \div n) \in Int
  BY <1>1
<1> QED BY <1>2, ModMultiple

-----------------------------------------------------------------------------
(* The memory editor.                                                      *)
LEMMA Starts ==
  /\ LastStart(Wide) \in Int /\ LastStart(Narrow) \in Int
  /\ Low <= LastStart(Wide) /\ LastStart(Wide) <= LastStart(Narrow)
  /\ LastStart(Narrow) <= High
<1>1. Rows * Narrow <= Rows * Wide /\ Rows * Wide \in Int /\ Rows * Narrow \in Nat
  BY BrowserAssumption
<1> QED BY <1>1, BrowserAssumption DEF LastStart

LEMMA LastColumns ==
  ASSUME NEW lines \in {Narrow, Wide}
  PROVE  /\ lines \in Nat \ {0} /\ Digits - 1 \in Nat
         /\ LastColumn(0, lines) = Digits - 1
         /\ LastColumn(1, lines) = 2 * lines - 1
         /\ LastColumn(2, lines) = lines - 1
         /\ \A c \in 0 .. 2 : LastColumn(c, lines) \in Nat
<1>1. lines \in Nat \ {0} /\ Digits \in Nat \ {0}
  BY BrowserAssumption
<1>2. LastColumn(0, lines) = Digits - 1 /\ LastColumn(1, lines) = 2 * lines - 1
      /\ LastColumn(2, lines) = lines - 1
  BY DEF LastColumn
<1>3. \A c \in 0 .. 2 : c = 0 \/ c = 1 \/ c = 2
  OBVIOUS
<1> QED BY <1>1, <1>2, <1>3

LEMMA MaxFits ==
  ASSUME NEW a \in Int, NEW lines \in {Narrow, Wide}
  PROVE  /\ browseMAX(a, lines) \in Low .. LastStart(lines)
         /\ browseMAX(a, lines) \in Low .. LastStart(Narrow)
         /\ browseMAX(a, lines) \in Low .. High
  BY Starts, BrowserAssumption DEF browseMAX

(* The page that is shown is given a position that fits.                   *)
LEMMA TurnedKeepsInv ==
  ASSUME BrowserInv, NEW pos \in Position, pos.addr <= LastStart(Narrow),
         pos.c = 0 => pos.x \in Column,
         bdNo \notin stale => /\ pos.addr \in Low .. LastStart(browseLines)
                              /\ pos.x \in 0 .. LastColumn(pos.c, browseLines),
         Turned(pos), UNCHANGED <<bdNo, browseLines, stale>>
  PROVE  BrowserInv'
<1>1. bdNo \in Page /\ browse \in [Page -> Position]
  BY DEF BrowserInv, BrowserTypeOK
<1>2. browse' = [browse EXCEPT ![bdNo] = pos]
  BY DEF Turned
<1>3. \A p \in Page : browse'[p] = IF p = bdNo THEN pos ELSE browse[p]
  BY <1>1, <1>2
<1>4. BrowserTypeOK'
  BY <1>1, <1>2 DEF BrowserInv, BrowserTypeOK
<1>5. PagesFit'
  BY <1>3 DEF BrowserInv, PagesFit, Fits
<1>6. \A p \in Page : /\ browse'[p].addr <= LastStart(Narrow)
                      /\ browse'[p].c = 0 => browse'[p].x \in Column
  BY <1>3 DEF BrowserInv
<1> QED BY <1>4, <1>5, <1>6 DEF BrowserInv

LEMMA MovedKeepsInv ==
  ASSUME BrowserInv, NEW a \in Int, Moved(a), UNCHANGED <<bdNo, browseLines, stale>>
  PROVE  BrowserInv'
<1> DEFINE pos == [Here EXCEPT !.addr = browseMAX(a, browseLines)]
<1>1. /\ bdNo \in Page /\ browse \in [Page -> Position] /\ Here \in Position
      /\ browseLines \in {Narrow, Wide}
  BY DEF BrowserInv, BrowserTypeOK, Here
<1>2. /\ browseMAX(a, browseLines) \in Low .. LastStart(browseLines)
      /\ browseMAX(a, browseLines) \in Low .. LastStart(Narrow)
      /\ browseMAX(a, browseLines) \in Low .. High
  BY <1>1, MaxFits
<1>3. /\ pos \in Position /\ pos.addr = browseMAX(a, browseLines)
      /\ pos.c = Here.c /\ pos.x = Here.x
  BY <1>1, <1>2 DEF Position
<1>4. Turned(pos)
  BY <1>1 DEF Moved, Turned, Here
<1>5. Here.c = 0 => Here.x \in Column
  BY <1>1 DEF BrowserInv, Here
<1>6. bdNo \notin stale => Here.x \in 0 .. LastColumn(Here.c, browseLines)
  BY <1>1 DEF BrowserInv, PagesFit, Fits, Here
<1>7. pos.addr <= LastStart(Narrow)
  BY <1>2, <1>3, Starts, BrowserAssumption
<1> HIDE DEF pos
<1> QED BY <1>2, <1>3, <1>4, <1>5, <1>6, <1>7, TurnedKeepsInv

(* The cursor moves in its row or to another one.                          *)
LEMMA CursorKeepsInv ==
  ASSUME BrowserInv, NEW y \in 0 .. Rows - 1, NEW c \in 0 .. 2, NEW x \in Nat,
         c = 0 => x \in Column,
         bdNo \notin stale => x \in 0 .. LastColumn(c, browseLines),
         Turned([Here EXCEPT !.y = y, !.c = c, !.x = x]),
         UNCHANGED <<bdNo, browseLines, stale>>
  PROVE  BrowserInv'
<1> DEFINE pos == [Here EXCEPT !.y = y, !.c = c, !.x = x]
<1>1. bdNo \in Page /\ browse \in [Page -> Position] /\ Here \in Position
  BY DEF BrowserInv, BrowserTypeOK, Here
<1>2. pos \in Position /\ pos.addr = Here.addr /\ pos.c = c /\ pos.x = x
  BY <1>1 DEF Position
<1>3. Here.addr <= LastStart(Narrow)
  BY <1>1 DEF BrowserInv, Here
<1>4. bdNo \notin stale => Here.addr \in Low .. LastStart(browseLines)
  BY <1>1 DEF BrowserInv, PagesFit, Fits, Here
<1>5. Turned(pos)
  OBVIOUS
<1> HIDE DEF pos
<1> QED BY <1>2, <1>3, <1>4, <1>5, TurnedKeepsInv

LEMMA ChangeLinesKeepsInv ==
  ASSUME BrowserInv, NEW pos \in Position,
         pos.addr \in Low .. LastStart(OtherWidth), pos.x = 0, ChangeLines(pos)
  PROVE  BrowserInv'
<1>1. /\ bdNo \in Page /\ browse \in [Page -> Position] /\ bdNo' = bdNo
      /\ browseLines' = OtherWidth /\ OtherWidth \in {Narrow, Wide}
      /\ browse' = [browse EXCEPT ![bdNo] = pos] /\ stale' = Page \ {bdNo}
  BY DEF BrowserInv, BrowserTypeOK, ChangeLines, OtherWidth, Turned
<1>2. \A p \in Page : browse'[p] = IF p = bdNo THEN pos ELSE browse[p]
  BY <1>1
<1>3. pos.c \in 0 .. 2 /\ 0 \in Column
  BY BrowserAssumption DEF Position, Column
<1>4. 0 \in 0 .. LastColumn(pos.c, OtherWidth)
  BY <1>1, <1>3, BrowserAssumption DEF LastColumn
<1>5. PagesFit'
  BY <1>1, <1>2, <1>4 DEF PagesFit, Fits
<1>6. BrowserTypeOK'
  BY <1>1 DEF BrowserTypeOK
<1>7. pos.addr <= LastStart(Narrow)
  BY <1>1, Starts, BrowserAssumption
<1>8. \A p \in Page : /\ browse'[p].addr <= LastStart(Narrow)
                      /\ browse'[p].c = 0 => browse'[p].x \in Column
  BY <1>2, <1>3, <1>7 DEF BrowserInv
<1> QED BY <1>1, <1>5, <1>6, <1>8 DEF BrowserInv

LEMMA SelectedFits ==
  ASSUME BrowserInv
  PROVE  Selected \in Position /\ Selected.addr \in Low .. LastStart(OtherWidth) /\ Selected.x = 0
<1>1. /\ bdNo \in Page /\ Here \in Position /\ OtherWidth \in {Narrow, Wide}
      /\ Here.addr \in Low .. LastStart(Narrow) /\ Here.addr \in Int
  BY Starts, BrowserAssumption
  DEF BrowserInv, BrowserTypeOK, Here, OtherWidth, Position
<1>2. /\ browseMAX(Here.addr, Wide) \in Low .. LastStart(Wide)
      /\ browseMAX(Here.addr, Wide) \in Low .. High
  BY <1>1, MaxFits
<1> QED BY <1>1, <1>2, BrowserAssumption DEF Selected, Position

LEMMA BrowserKeepsInv ==
  ASSUME BrowserInv, NEW a \in Int,
         BrowserInput \/ BrowseTo(a) \/ OptionLines \/ NextPage \/ PreviousPage
  PROVE  BrowserInv'
<1>1. /\ bdNo \in Page /\ Here \in Position /\ browseLines \in {Narrow, Wide}
      /\ browseLines \in Nat \ {0} /\ browse \in [Page -> Position]
      /\ Here.addr \in Int /\ Here.y \in 0 .. Rows - 1 /\ Here.c \in 0 .. 2 /\ Here.x \in Nat
      /\ Here = [addr |-> Here.addr, y |-> Here.y, c |-> Here.c, x |-> Here.x]
  BY BrowserAssumption DEF BrowserInv, BrowserTypeOK, Here, Position
<1>2. Here.c = 0 => Here.x \in Column
  BY <1>1 DEF BrowserInv, Here
<1>3. bdNo \notin stale => Here.x \in 0 .. LastColumn(Here.c, browseLines)
  BY <1>1 DEF BrowserInv, PagesFit, Fits, Here
<1>4. CASE SelectLines
  BY <1>4, SelectedFits, ChangeLinesKeepsInv DEF SelectLines
<1>5. CASE OptionLines
  <2>1. OtherWidth \in {Narrow, Wide}
    BY DEF OtherWidth
  <2>2. /\ browseMAX(Here.addr, OtherWidth) \in Low .. LastStart(OtherWidth)
        /\ browseMAX(Here.addr, OtherWidth) \in Low .. High
    BY <1>1, <2>1, MaxFits
  <2>3. [addr |-> browseMAX(Here.addr, OtherWidth), y |-> 0, c |-> 0, x |-> 0] \in Position
    BY <2>2, BrowserAssumption DEF Position
  <2> QED BY <1>5, <2>2, <2>3, ChangeLinesKeepsInv DEF OptionLines
<1>6. CASE Left
  <2>1. CASE Here.x > 0
    <3>1. Turned([Here EXCEPT !.y = Here.y, !.c = Here.c, !.x = Here.x - 1])
      BY <1>1, <1>6, <2>1 DEF Left
    <3>a. Here.x \in Nat
      BY <1>1
    <3>b. Here.c = 0 => Here.x \in 0 .. Digits - 1
      BY <1>2 DEF Column
    <3>c. Digits \in Nat
      BY BrowserAssumption
    <3>2. Here.x - 1 \in Nat /\ (Here.c = 0 => Here.x - 1 \in Column)
      BY <2>1, <3>a, <3>b, <3>c DEF Column
    <3>3. bdNo \notin stale => Here.x - 1 \in 0 .. LastColumn(Here.c, browseLines)
      BY <1>1, <1>3, <2>1, LastColumns
    <3> QED BY <1>1, <1>6, <3>1, <3>2, <3>3, CursorKeepsInv DEF Left
  <2>2. CASE ~(Here.x > 0) /\ Here.c = 0
    <3>1. Turned([Here EXCEPT !.y = Here.y, !.c = Here.c, !.x = Here.x])
      BY <1>1, <1>6, <2>2 DEF Left
    <3> QED BY <1>1, <1>2, <1>3, <1>6, <3>1, CursorKeepsInv DEF Left
  <2>3. CASE ~(Here.x > 0) /\ Here.c # 0
    <3> DEFINE x == LastColumn(Here.c - 1, browseLines)
    <3>1. Turned([Here EXCEPT !.y = Here.y, !.c = Here.c - 1, !.x = x])
      BY <1>1, <1>6, <2>3 DEF Left
    <3>2. Here.c - 1 \in 0 .. 1
      BY <1>1, <2>3
    <3>3. x \in Nat /\ (Here.c - 1 = 0 => x \in Column)
      BY <1>1, <3>2, LastColumns DEF Column
    <3>4. x \in 0 .. LastColumn(Here.c - 1, browseLines)
      BY <3>3
    <3>5. Here.c - 1 \in 0 .. 2
      BY <3>2
    <3> HIDE DEF x
    <3> QED BY <1>1, <1>6, <3>1, <3>3, <3>4, <3>5, CursorKeepsInv DEF Left
  <2> QED BY <2>1, <2>2, <2>3
<1>7. CASE Right
  <2>1. LastColumn(Here.c, browseLines) \in Nat /\ LastColumn(2, browseLines) \in Nat
        /\ (Here.c = 0 => LastColumn(Here.c, browseLines) = Digits - 1)
    BY <1>1, LastColumns
  <2>2. CASE Here.x + 1 <= LastColumn(Here.c, browseLines)
    <3>1. Turned([Here EXCEPT !.y = Here.y, !.c = Here.c, !.x = Here.x + 1])
      BY <1>1, <1>7, <2>2 DEF Right
    <3>2. Here.x \in Nat
      BY <1>1
    <3>3. Here.x + 1 \in Nat /\ Here.x + 1 \in 0 .. LastColumn(Here.c, browseLines)
      BY <2>1, <2>2, <3>2
    <3>4. Here.c = 0 => Here.x + 1 \in Column
      BY <2>1, <3>3 DEF Column
    <3> QED BY <1>1, <1>7, <3>1, <3>3, <3>4, CursorKeepsInv DEF Right
  <2>3. CASE ~(Here.x + 1 <= LastColumn(Here.c, browseLines)) /\ Here.c < 2
    <3>1. Turned([Here EXCEPT !.y = Here.y, !.c = Here.c + 1, !.x = 0])
      BY <1>1, <1>7, <2>3 DEF Right
    <3>2. Here.c + 1 \in 1 .. 2 /\ 0 \in 0 .. LastColumn(Here.c + 1, browseLines)
      <4>1. Here.c + 1 \in 1 .. 2
        BY <1>1, <2>3
      <4>2. LastColumn(Here.c + 1, browseLines) \in Nat
        BY <1>1, <4>1, LastColumns
      <4> QED BY <4>1, <4>2
    <3>3. Here.c + 1 \in 0 .. 2 /\ Here.c + 1 # 0 /\ 0 \in Nat
      BY <3>2
    <3> QED BY <1>1, <1>7, <3>1, <3>2, <3>3, CursorKeepsInv DEF Right
  <2>4. CASE ~(Here.x + 1 <= LastColumn(Here.c, browseLines)) /\ ~(Here.c < 2)
    <3>1. Here.c = 2
      BY <1>1, <2>4
    <3>2. Turned([Here EXCEPT !.y = Here.y, !.c = 2, !.x = LastColumn(2, browseLines)])
      BY <1>1, <1>7, <2>4, <3>1 DEF Right
    <3>3. LastColumn(2, browseLines) \in 0 .. LastColumn(2, browseLines)
          /\ 2 \in 0 .. 2 /\ 2 # 0
      BY <2>1
    <3> QED BY <1>1, <1>7, <2>1, <3>2, <3>3, CursorKeepsInv DEF Right
  <2> QED BY <2>2, <2>3, <2>4
<1>8. CASE DigitOrChar
  <2>1. CASE Here.c = 1
    <3>1. Turned([Here EXCEPT !.y = Here.y, !.c = 2, !.x = Here.x \div 2])
      BY <1>1, <1>8, <2>1 DEF DigitOrChar
    <3>2. Here.x \div 2 \in Nat
      BY <1>1
    <3>3. /\ bdNo \notin stale => Here.x \div 2 \in 0 .. LastColumn(2, browseLines)
          /\ 2 \in 0 .. 2 /\ 2 # 0
      BY <1>1, <1>3, <2>1, <3>2, LastColumns
    <3> QED BY <1>1, <1>8, <3>1, <3>2, <3>3, CursorKeepsInv DEF DigitOrChar
  <2>2. CASE Here.c = 2
    <3>1. Turned([Here EXCEPT !.y = Here.y, !.c = 1, !.x = 2 * Here.x + 1])
      <4>1. Turned([Here EXCEPT !.c = 1, !.x = 2 * @ + 1])
        BY <1>8, <2>2 DEF DigitOrChar
      <4>2. [Here EXCEPT !.c = 1, !.x = 2 * @ + 1]
              = [Here EXCEPT !.y = Here.y, !.c = 1, !.x = 2 * Here.x + 1]
        BY <1>1
      <4> QED BY <4>1, <4>2
    <3>2. 2 * Here.x + 1 \in Nat
      BY <1>1
    <3>3. /\ bdNo \notin stale => 2 * Here.x + 1 \in 0 .. LastColumn(1, browseLines)
          /\ 1 \in 0 .. 2 /\ 1 # 0
      BY <1>1, <1>3, <2>2, <3>2, LastColumns
    <3> QED BY <1>1, <1>8, <3>1, <3>2, <3>3, CursorKeepsInv DEF DigitOrChar
  <2> QED BY <1>1, <1>8, <2>1, <2>2 DEF DigitOrChar
<1>9. CASE EditAddress
  <2>1. PICK by \in {Weight[Here.x], -Weight[Here.x]} : Moved(Here.addr + by)
    BY <1>9 DEF EditAddress
  <2>2. Weight[Here.x] \in Nat
    BY <1>2, <1>9, BrowserAssumption DEF EditAddress, Column
  <2>3. Here.addr + by \in Int
    BY <1>1, <2>1, <2>2
  <2> QED BY <1>9, <2>1, <2>3, MovedKeepsInv DEF EditAddress
<1>10. CASE Scroll
  <2>1. PICK by \in {browseLines, -browseLines} \cup {k * StickBytes : k \in Stick} :
               Moved(Here.addr + by)
    BY <1>10 DEF Scroll
  <2>2. \A k \in Stick : k * StickBytes \in Int
    BY BrowserAssumption
  <2>3. by \in Int
    BY <1>1, <2>1, <2>2
  <2>4. Here.addr + by \in Int
    BY <1>1, <2>3
  <2> QED BY <1>10, <2>1, <2>4, MovedKeepsInv DEF Scroll
<1>11. CASE Up
  <2>1. CASE Here.y > 0
    <3>1. Turned([Here EXCEPT !.y = Here.y - 1, !.c = Here.c, !.x = Here.x])
      BY <1>1, <1>11, <2>1 DEF Up
    <3>2. Here.y - 1 \in 0 .. Rows - 1
      BY <1>1, <2>1, BrowserAssumption
    <3> QED BY <1>1, <1>2, <1>3, <1>11, <3>1, <3>2, CursorKeepsInv DEF Up
  <2>2. CASE ~(Here.y > 0)
    <3>1. Moved(Here.addr - browseLines) /\ Here.addr - browseLines \in Int
      BY <1>1, <1>11, <2>2 DEF Up
    <3> QED BY <1>11, <3>1, MovedKeepsInv DEF Up
  <2> QED BY <2>1, <2>2
<1>12. CASE Down
  <2>1. CASE Here.y < Rows - 1
    <3>1. Turned([Here EXCEPT !.y = Here.y + 1, !.c = Here.c, !.x = Here.x])
      BY <1>1, <1>12, <2>1 DEF Down
    <3>2. Here.y + 1 \in 0 .. Rows - 1
      BY <1>1, <2>1, BrowserAssumption
    <3> QED BY <1>1, <1>2, <1>3, <1>12, <3>1, <3>2, CursorKeepsInv DEF Down
  <2>2. CASE ~(Here.y < Rows - 1)
    <3>1. Moved(Here.addr + browseLines) /\ Here.addr + browseLines \in Int
      BY <1>1, <1>12, <2>2 DEF Down
    <3> QED BY <1>12, <3>1, MovedKeepsInv DEF Down
  <2> QED BY <2>1, <2>2
<1>13. CASE BrowseTo(a)
  BY <1>13, MovedKeepsInv DEF BrowseTo
<1>14. CASE NextPage
  BY <1>14, BrowserAssumption
  DEF NextPage, BrowserInv, BrowserTypeOK, PagesFit, Fits, Page
<1>15. CASE PreviousPage
  BY <1>15, BrowserAssumption
  DEF PreviousPage, BrowserInv, BrowserTypeOK, PagesFit, Fits, Page
<1> QED BY <1>4, <1>5, <1>6, <1>7, <1>8, <1>9, <1>10, <1>11, <1>12, <1>13, <1>14, <1>15
        DEF BrowserInput

(* What the cursor is on is memory, in its own row.                        *)
LEMMA FittingByte ==
  ASSUME BrowserInv, NEW p \in Page \ stale
  PROVE  TypedByte(browse[p]) \in Low .. High - 1
<1> DEFINE pos == browse[p]
           by == IF pos.c = 1 THEN pos.x \div 2 ELSE IF pos.c = 2 THEN pos.x ELSE 0
<1>1. /\ pos.addr \in Low .. LastStart(browseLines)
      /\ pos.x \in 0 .. LastColumn(pos.c, browseLines)
  BY DEF BrowserInv, PagesFit, Fits
<1>2. /\ pos.y \in 0 .. Rows - 1 /\ pos.c \in 0 .. 2 /\ browseLines \in {Narrow, Wide}
      /\ browseLines \in Nat \ {0} /\ pos.x \in Nat /\ pos.addr \in Nat
  BY BrowserAssumption DEF BrowserInv, BrowserTypeOK, Position
<1> HIDE DEF pos
<1>3. by \in 0 .. browseLines - 1
  <2>1. CASE pos.c = 1
    BY <1>1, <1>2, <2>1, LastColumns
  <2>2. CASE pos.c = 2
    BY <1>1, <1>2, <2>2, LastColumns
  <2>3. CASE pos.c = 0
    BY <1>2, <2>3
  <2> QED BY <1>2, <2>1, <2>2, <2>3
<1> HIDE DEF by
<1>4. pos.y * browseLines \in Nat /\ Rows * browseLines \in Nat
      /\ pos.y * browseLines + browseLines <= Rows * browseLines
  <2>1. (pos.y + 1) * browseLines <= Rows * browseLines
    <3>1. pos.y + 1 <= Rows /\ pos.y + 1 \in Nat /\ Rows \in Nat
      BY <1>2, BrowserAssumption
    <3> QED BY <1>2, <3>1
  <2>2. (pos.y + 1) * browseLines = pos.y * browseLines + browseLines
    BY <1>2
  <2>3. pos.y * browseLines \in Nat /\ Rows * browseLines \in Nat
    BY <1>2, BrowserAssumption
  <2> QED BY <2>1, <2>2, <2>3
<1>5. pos.addr <= High - Rows * browseLines /\ Low <= pos.addr
      /\ High \in Nat /\ Low \in Nat
  BY <1>1, <1>4, BrowserAssumption DEF LastStart
<1>6. pos.addr + pos.y * browseLines + by \in Low .. High - 1
  BY <1>2, <1>3, <1>4, <1>5
<1> QED BY <1>6 DEF TypedByte, InRow, pos, by

(* A paste counts every row as a wide one.                                 *)
LEMMA PastedBelow ==
  ASSUME BrowserInv, NEW p \in Page
  PROVE  LET short == browse[p].y * (Wide - browseLines)
         IN /\ PastedByte(browse[p]) = TypedByte(browse[p]) + short
            /\ browseLines = Wide => short = 0
            /\ short <= (Rows - 1) * (Wide - browseLines)
<1> DEFINE pos == browse[p]
           by == InRow(pos)
           w == Wide - browseLines
<1>1. /\ pos.y \in Nat /\ pos.y <= Rows - 1 /\ pos.x \in Nat /\ pos.addr \in Nat /\ Rows \in Nat
      /\ browseLines \in Nat /\ Wide \in Nat /\ w \in Nat
  BY BrowserAssumption DEF BrowserInv, BrowserTypeOK, Position
<1>2. by \in Int
  BY <1>1 DEF InRow
<1>3. PastedByte(pos) = pos.addr + pos.y * Wide + by
      /\ TypedByte(pos) = pos.addr + pos.y * browseLines + by
  BY DEF PastedByte, TypedByte
<1>4. browseLines = Wide => w = 0
  BY <1>1
<1> HIDE DEF pos, by
<1>5. pos.y * Wide = pos.y * browseLines + pos.y * w
  BY <1>1
<1> HIDE DEF w
<1>6. pos.y * w <= (Rows - 1) * w /\ pos.y * 0 = 0
  <2>1. Rows - 1 - pos.y \in Nat
    BY <1>1
  <2>2. (Rows - 1 - pos.y) * w \in Nat
    BY <1>1, <2>1
  <2>3. (Rows - 1) * w = (Rows - 1 - pos.y) * w + pos.y * w
    BY <1>1
  <2>4. pos.y * w \in Nat
    BY <1>1
  <2> QED BY <1>1, <2>2, <2>3, <2>4
<1>7. PastedByte(pos) = TypedByte(pos) + pos.y * w
  <2>1. pos.y * Wide \in Int /\ pos.y * browseLines \in Int /\ pos.y * w \in Int
    BY <1>1
  <2> QED BY <1>1, <1>2, <1>3, <1>5, <2>1
<1>8. browseLines = Wide => pos.y * w = 0
  BY <1>4, <1>6
<1> QED BY <1>6, <1>7, <1>8 DEF pos, w

-----------------------------------------------------------------------------
(* The decoder's places.                                                   *)
LEMMA Sizes ==
  /\ Word \in Nat \ {0} /\ Low \in Nat /\ High \in Nat /\ Rows \in Nat \ {0}
  /\ Byte \in Nat /\ Byte \div 2 \in Nat /\ Byte = 2 * (Byte \div 2) /\ Rows <= Byte \div 2
  /\ JumpLog \in Nat /\ LogStart \in Nat
<1>1. 2 * Rows <= Byte /\ Byte \in Nat /\ Byte % 2 = 0 /\ Rows \in Nat \ {0}
  BY BrowserAssumption, DecoderAssumption
<1>2. Byte \div 2 \in Nat /\ Byte = 2 * (Byte \div 2) /\ Rows <= Byte \div 2
  BY <1>1
<1> QED BY <1>1, <1>2, BrowserAssumption, DecoderAssumption, LogAssumption

LEMMA Ends ==
  /\ DecodeLast \in Nat /\ Low <= DecodeLast /\ DecodeLast % Word = 0
  /\ High = DecodeLast + Rows * Word /\ Rows * Word \in Nat /\ Word <= Rows * Word
  /\ (Byte \div 2) * Word \in Nat /\ (Byte \div 2) * Word + Word <= Low
  /\ Rows * Word <= (Byte \div 2) * Word
<1>1. Rows * Word \in Nat /\ Word <= Rows * Word /\ Rows * Word <= (Byte \div 2) * Word
      /\ (Byte \div 2) * Word \in Nat
  BY Sizes
<1>2. (Byte \div 2 + 1) * Word = (Byte \div 2) * Word + Word
  BY Sizes
<1>3. (Byte \div 2 + 1) * Word <= Low /\ Low + Rows * Word <= High
  BY DecoderAssumption
<1>4. (Rows * Word) % Word = 0
  BY Sizes, ModMultiple
<1>5. (High - Rows * Word) % Word = 0
  <2>1. High % Word = 0
    BY AlignedAssumption
  <2>2. High \in Int /\ Rows * Word \in Int /\ Word \in Nat \ {0}
    BY <1>1, Sizes
  <2> QED BY <1>4, <2>1, <2>2, ModAdd
<1> QED BY <1>1, <1>2, <1>3, <1>5, Sizes DEF DecodeLast

LEMMA CharRange ==
  ASSUME NEW n \in Int
  PROVE  ToChar(n) \in Signed
<1>1. Byte \in Nat \ {0}
  BY Sizes
<1>2. (n + Byte \div 2) % Byte \in 0 .. Byte - 1
  BY <1>1, Sizes, DivMod
<1> HIDE <1>1
<1> QED BY <1>2, Sizes DEF ToChar, Signed

LEMMA CharSame ==
  ASSUME NEW n \in 0 .. Byte \div 2 - 1
  PROVE  ToChar(n) = n
<1> DEFINE m == n + Byte \div 2
<1>1. m \in 0 .. Byte - 1 /\ Byte \in Nat \ {0} /\ m \in Int
  BY Sizes
<1> HIDE DEF m
<1>2. m = Byte * (m \div Byte) + (m % Byte) /\ m % Byte \in 0 .. Byte - 1 /\ m \div Byte \in Int
  BY <1>1, DivMod
<1>3. m % Byte = m
  <2>1. Byte * (m \div Byte) > -Byte /\ Byte * (m \div Byte) < Byte
    BY <1>1, <1>2
  <2>2. m \div Byte >= 0
    BY <1>1, <1>2, <2>1
  <2>3. Byte * (m \div Byte) >= 0
    BY <1>1, <1>2, <2>2
  <2>4. m \div Byte = 0
    BY <1>1, <1>2, <2>1, <2>3, SmallMultiple
  <2> QED BY <1>1, <1>2, <2>4
<1> QED BY <1>3, Sizes DEF ToChar, m

(* decodeMAX always comes back to the memory.                              *)
LEMMA MaxPlace ==
  ASSUME NEW pos, pos \in [addr : Int, y : Signed]
  PROVE  /\ decodeMAX(pos) \in Place
         /\ decodeMAX(pos).addr \in Low .. DecodeLast
<1>1. pos.addr \in Int /\ pos.y \in Signed
  OBVIOUS
<1>2. (pos.addr - DecodeLast) \div Word \in Int
  BY <1>1, Ends, Sizes, DivMod
<1>3. AtMost(ToChar((pos.addr - DecodeLast) \div Word), Rows - 1) \in Signed
  BY <1>2, CharRange, Sizes DEF AtMost, Signed
<1>4. Low \in Nat /\ DecodeLast \in Nat /\ Low <= DecodeLast
  BY Ends, Sizes
<1> HIDE <1>2
<1>5. CASE pos.addr < Low
  BY <1>1, <1>4, <1>5 DEF decodeMAX, Place
<1>6. CASE pos.addr > DecodeLast
  BY <1>1, <1>3, <1>4, <1>6 DEF decodeMAX, Place
<1>7. CASE ~(pos.addr < Low) /\ ~(pos.addr > DecodeLast)
  BY <1>1, <1>4, <1>7 DEF decodeMAX, Place
<1> QED BY <1>5, <1>6, <1>7

LEMMA LastWord ==
  /\ High - Word = DecodeLast + (Rows - 1) * Word /\ (Rows - 1) * Word \in Nat
  /\ Reach = DecodeLast + (Byte \div 2 - 1) * Word /\ Reach \in Nat
  /\ High - Word <= Reach /\ High - Word \in Nat /\ (High - Word) % Word = 0
<1>1. (Rows - 1) * Word = Rows * Word - Word
      /\ (Byte \div 2 - 1) * Word = (Byte \div 2) * Word - Word
  BY Sizes
<1>2. High % Word = 0 /\ Word % Word = 0
  <2>1. (1 * Word) % Word = 0
    BY Sizes, ModMultiple
  <2> QED BY <2>1, Sizes, AlignedAssumption
<1>3. (High - Word) % Word = 0
  <2>1. High \in Int /\ Word \in Int /\ Word \in Nat \ {0}
    BY Sizes
  <2> QED BY <1>2, <2>1, ModAdd
<1> QED BY <1>1, <1>3, Ends, Sizes DEF Reach

(* A row's words.                                                          *)
LEMMA RowWords ==
  ASSUME NEW y \in 0 .. Rows - 1
  PROVE  y * Word \in 0 .. (Rows - 1) * Word /\ (y * Word) % Word = 0 /\ y * Word \in Nat
<1>1. y \in Nat /\ y <= Rows - 1 /\ Rows - 1 \in Nat
  BY Sizes
<1>2. y * Word <= (Rows - 1) * Word /\ y * Word \in Nat /\ (Rows - 1) * Word \in Nat
  BY <1>1, Sizes
<1> QED BY <1>1, <1>2, Sizes, ModMultiple

(* An address that a char can reach stays the cursor's, up to the last one. *)
LEMMA MaxOnPage ==
  ASSUME NEW pos, pos \in [addr : Int, y : 0 .. Rows - 1],
         pos.addr % Word = 0, pos.addr <= Reach
  PROVE  /\ OnPage(decodeMAX(pos))
         /\ pos.addr \in Low .. DecodeLast => decodeMAX(pos) = pos
         /\ pos.addr < Low => decodeMAX(pos) = [pos EXCEPT !.addr = Low]
         /\ pos.addr > DecodeLast
              => Cursor(decodeMAX(pos)) = AtMost(pos.addr, High - Word)
<1>1. pos.addr \in Int /\ pos.y \in 0 .. Rows - 1 /\ Low % Word = 0
      /\ Low \in Nat /\ DecodeLast \in Nat /\ Low <= DecodeLast /\ DecodeLast % Word = 0
  BY Ends, Sizes, AlignedAssumption
<1>2. CASE pos.addr < Low
  BY <1>1, <1>2 DEF decodeMAX, OnPage
<1>3. CASE pos.addr > DecodeLast
  <2> DEFINE k == (pos.addr - DecodeLast) \div Word
             y == AtMost(ToChar(k), Rows - 1)
  <2>1. pos.addr - DecodeLast = Word * k /\ k \in Int
    <3>1. Word \in Nat \ {0} /\ pos.addr - DecodeLast \in Int /\ DecodeLast \in Int
      BY <1>1, Sizes
    <3>2. (pos.addr - DecodeLast) % Word = 0
      BY <1>1, <3>1, ModAdd
    <3>3. pos.addr - DecodeLast = Word * k + ((pos.addr - DecodeLast) % Word) /\ k \in Int
      BY <3>1, DivMod
    <3> HIDE DEF k
    <3> QED BY <3>1, <3>2, <3>3
  <2> HIDE DEF k
  <2>2. k \in 1 .. Byte \div 2 - 1
    <3>1. Word * k > 0 /\ Word * k <= Word * (Byte \div 2 - 1)
      BY <1>1, <1>3, <2>1, LastWord, Sizes
    <3>2. k > 0
      BY <2>1, <3>1, Sizes
    <3>3. ~(k > Byte \div 2 - 1)
      <4>1. SUFFICES ASSUME k >= Byte \div 2 PROVE FALSE
        BY <2>1, Sizes
      <4>2. Word * k >= Word * (Byte \div 2)
        BY <2>1, <4>1, Sizes
      <4>3. Word * (Byte \div 2 - 1) = Word * (Byte \div 2) - Word
        BY Sizes
      <4> QED BY <2>1, <3>1, <4>2, <4>3, Sizes, Ends
    <3> QED BY <2>1, <3>2, <3>3, Sizes
  <2>3. ToChar(k) = k
    BY <2>2, CharSame, Sizes
  <2>4. y \in 0 .. Rows - 1 /\ y = AtMost(k, Rows - 1)
    BY <2>2, <2>3, Sizes DEF AtMost
  <2>5. decodeMAX(pos) = [addr |-> DecodeLast, y |-> y]
    BY <1>1, <1>3 DEF decodeMAX, k
  <2> HIDE DEF y
  <2>6. DecodeLast + y * Word = AtMost(pos.addr, High - Word)
    <3>1. CASE k <= Rows - 1
      <4>1. k * Word <= (Rows - 1) * Word
        BY <2>2, <3>1, Sizes
      <4>2. y * Word = Word * k /\ pos.addr = DecodeLast + Word * k
        BY <1>1, <2>1, <2>2, <2>4, <3>1, Sizes DEF AtMost
      <4> QED BY <1>1, <2>2, <4>1, <4>2, LastWord, Sizes DEF AtMost
    <3>2. CASE k > Rows - 1
      <4>1. k * Word >= (Rows - 1) * Word
        BY <2>2, <3>2, Sizes
      <4>2. y = Rows - 1 /\ pos.addr = DecodeLast + Word * k
        BY <1>1, <2>1, <2>2, <2>4, <3>2, Sizes DEF AtMost
      <4>3. pos.addr >= High - Word
        BY <1>1, <2>2, <4>1, <4>2, LastWord, Sizes
      <4> QED BY <1>1, <4>2, <4>3, LastWord, Sizes DEF AtMost
    <3> QED BY <2>2, <3>1, <3>2, Sizes
  <2> QED BY <1>1, <1>3, <2>4, <2>5, <2>6 DEF OnPage, Cursor
<1>4. CASE pos.addr \in Low .. DecodeLast
  BY <1>1, <1>4 DEF decodeMAX, OnPage
<1> QED BY <1>1, <1>2, <1>3, <1>4

LEMMA WordEnd ==
  ASSUME NEW a, IsWord(a)
  PROVE  a \in Nat /\ Low <= a /\ a <= High - Word /\ a <= Reach
<1>1. a \in Int /\ Low <= a /\ a < High /\ a % Word = 0 /\ High % Word = 0
      /\ Word \in Nat \ {0} /\ High \in Int
  BY Sizes, AlignedAssumption DEF IsWord
<1>2. (High - a) % Word = 0 /\ High - a \in Int
  <2>1. Word \in Nat \ {0} /\ High \in Int /\ a \in Int /\ High % Word = 0 /\ a % Word = 0
    BY <1>1
  <2>2. (High + a) % Word = 0 /\ (High - a) % Word = 0
    BY <2>1, ModAdd
  <2> QED BY <2>1, <2>2
<1>3. High - a >= Word
  <2>1. SUFFICES ASSUME High - a < Word PROVE FALSE
    BY <1>1, <1>2
  <2>2. High - a = Word * ((High - a) \div Word) /\ (High - a) \div Word \in Int
    BY <1>1, <1>2, DivMod
  <2>3. (High - a) \div Word = 0
    BY <1>1, <2>1, <2>2, SmallMultiple
  <2> QED BY <1>1, <2>2, <2>3
<1> QED BY <1>1, <1>3, LastWord, Sizes

LEMMA CursorWord ==
  ASSUME NEW pos, pos \in Place, OnPage(pos)
  PROVE  IsWord(Cursor(pos)) /\ Cursor(pos) \in Nat
<1>1. pos.addr \in Low .. DecodeLast /\ pos.addr % Word = 0 /\ pos.y \in 0 .. Rows - 1
      /\ pos.addr \in Int /\ pos.addr \in Nat /\ Word \in Nat \ {0}
  BY Sizes DEF OnPage, Place
<1>2. pos.y * Word \in 0 .. (Rows - 1) * Word /\ (pos.y * Word) % Word = 0
      /\ pos.y * Word \in Int /\ pos.y * Word \in Nat
  BY <1>1, RowWords
<1>3. (pos.addr + pos.y * Word) % Word = 0
  BY <1>1, <1>2, ModAdd
<1>4. pos.addr + pos.y * Word \in Low .. High - 1
  BY <1>1, <1>2, LastWord, Ends, Sizes
<1> QED BY <1>1, <1>2, <1>3, <1>4 DEF IsWord, Cursor

(* A place that is jumped to, or returned to: the word itself.             *)
LEMMA WordPlace ==
  ASSUME NEW a, a = 0 \/ IsWord(a)
  PROVE  /\ CursorAt(a) \in Place /\ OnPage(CursorAt(a))
         /\ Cursor(CursorAt(a)) = AtLeast(a, Low)
         /\ AtLeast(a, Low) \in Nat
<1> DEFINE pos == [addr |-> a, y |-> 0]
<1>0. /\ Low \in Nat /\ 0 < Low /\ DecodeLast \in Nat /\ Low <= DecodeLast
      /\ High - Word \in Nat /\ Reach \in Nat /\ 0 * Word = 0
  BY Sizes, Ends, LastWord
<1>1. a \in Nat /\ a % Word = 0 /\ a <= Reach /\ a <= High - Word
  <2>1. (0 * Word) % Word = 0
    BY Sizes, ModMultiple
  <2>2. CASE a = 0
    BY <1>0, <2>1, <2>2
  <2>3. CASE IsWord(a)
    <3>1. a % Word = 0
      BY <2>3 DEF IsWord
    <3> QED BY <2>3, <3>1, WordEnd
  <2> QED BY <2>2, <2>3
<1>2. pos \in [addr : Int, y : 0 .. Rows - 1] /\ pos.addr = a /\ pos.y = 0
      /\ pos \in [addr : Int, y : Signed]
  BY <1>0, <1>1, Sizes DEF Signed
<1> HIDE DEF pos
<1>3. /\ OnPage(decodeMAX(pos))
      /\ a \in Low .. DecodeLast => decodeMAX(pos) = pos
      /\ a < Low => decodeMAX(pos) = [pos EXCEPT !.addr = Low]
      /\ a > DecodeLast => Cursor(decodeMAX(pos)) = AtMost(a, High - Word)
  BY <1>1, <1>2, MaxOnPage
<1>4. decodeMAX(pos) \in Place
  BY <1>2, MaxPlace
<1>5. Cursor(decodeMAX(pos)) = AtLeast(a, Low)
  <2>1. CASE a < Low
    BY <1>0, <1>1, <1>2, <1>3, <2>1 DEF Cursor, AtLeast
  <2>2. CASE a \in Low .. DecodeLast
    BY <1>0, <1>1, <1>2, <1>3, <2>2 DEF Cursor, AtLeast
  <2>3. CASE a > DecodeLast
    BY <1>0, <1>1, <1>3, <2>3 DEF AtMost, AtLeast
  <2> QED BY <1>0, <1>1, <2>1, <2>2, <2>3
<1> QED BY <1>0, <1>1, <1>3, <1>4, <1>5 DEF CursorAt, AtLeast, pos

(* Where a page of the decoder may be at all: the results are not checked. *)
Loose(pos) == pos \in Place /\ pos.addr > Low - Word

LEMMA MaxLoose ==
  ASSUME NEW pos, pos \in [addr : Int, y : Signed]
  PROVE  Loose(decodeMAX(pos))
  BY MaxPlace, Sizes DEF Loose

LEMMA MovesLoose ==
  ASSUME NEW pos, Loose(pos), NEW to \in OnUp(pos) \cup OnDown(pos)
  PROVE  Loose(to)
<1>1. /\ pos \in Place /\ pos.addr > Low - Word /\ pos.addr \in Nat /\ pos.y \in Signed
      /\ Word \in Nat \ {0} /\ Low \in Nat /\ Word <= Low /\ Rows \in Nat \ {0}
      /\ Rows <= Byte \div 2 /\ Byte \div 2 \in Nat
  BY Sizes, Ends DEF Loose, Place
<1>2. Loose(CursorUp(pos))
  BY <1>1, Sizes DEF CursorUp, Loose, Place, Signed
<1>3. Loose(PageUp(pos))
  BY <1>1 DEF PageUp, Loose, Place
<1>4. Loose(CursorDown(pos))
  BY <1>1 DEF CursorDown, Loose, Place, Signed
<1>5. Loose(PageDown(pos))
  <2>1. [pos EXCEPT !.addr = @ + Word] \in [addr : Int, y : Signed]
    BY <1>1 DEF Place
  <2> QED BY <2>1, MaxLoose DEF PageDown, Loose
<1> QED BY <1>2, <1>3, <1>4, <1>5 DEF OnUp, OnDown

LEMMA NextWord ==
  ASSUME NEW a \in Int, a % Word = 0
  PROVE  (a + Word) % Word = 0 /\ (a - Word) % Word = 0
<1>1. (1 * Word) % Word = 0 /\ 1 * Word = Word /\ Word \in Int /\ Word \in Nat \ {0}
  BY Sizes, ModMultiple
<1>2. Word % Word = 0
  BY <1>1
<1>3. \A b \in Int : b % Word = 0 => (a + b) % Word = 0 /\ (a - b) % Word = 0
  BY <1>1, ModAdd
<1> QED BY <1>1, <1>2, <1>3

LEMMA NextPageWord ==
  ASSUME NEW a \in Low .. DecodeLast, a % Word = 0
  PROVE  /\ a # Low => a - Word \in Low .. DecodeLast
         /\ a # DecodeLast => a + Word \in Low .. DecodeLast
<1>1. a \in Int /\ Low \in Int /\ DecodeLast \in Int /\ Word \in Nat \ {0}
      /\ Low % Word = 0 /\ DecodeLast % Word = 0
  BY Sizes, Ends, AlignedAssumption
<1>2. (a - Low) % Word = 0 /\ (DecodeLast - a) % Word = 0
  BY <1>1, ModAdd
<1>3. \A b \in Nat : b % Word = 0 /\ b # 0 => b >= Word
  <2> SUFFICES ASSUME NEW b \in Nat, b % Word = 0, b < Word PROVE b = 0
    BY <1>1
  <2>1. b = Word * (b \div Word) /\ b \div Word \in Int
    BY <1>1, DivMod
  <2>2. b \div Word = 0
    BY <1>1, <2>1, SmallMultiple
  <2> QED BY <1>1, <2>1, <2>2
<1>4. a - Low \in Nat /\ DecodeLast - a \in Nat
  BY <1>1
<1>5. (a # Low => a - Low >= Word) /\ (a # DecodeLast => DecodeLast - a >= Word)
  BY <1>1, <1>2, <1>3, <1>4
<1> QED BY <1>1, <1>5

LEMMA MovesOnPage ==
  ASSUME NEW pos, pos \in Place, OnPage(pos), NEW to \in OnUp(pos) \cup OnDown(pos)
  PROVE  OnPage(to)
<1>1. /\ pos.addr \in Low .. DecodeLast /\ pos.addr \in Int /\ pos.addr % Word = 0
      /\ pos.y \in 0 .. Rows - 1 /\ Rows \in Nat \ {0} /\ Word \in Nat \ {0}
      /\ pos = [addr |-> pos.addr, y |-> pos.y]
  BY Sizes DEF OnPage, Place
<1>2. (pos.addr + Word) % Word = 0 /\ (pos.addr - Word) % Word = 0
  BY <1>1, NextWord
<1>3. /\ pos.addr > Low => pos.addr - Word \in Low .. DecodeLast
      /\ pos.addr < DecodeLast => pos.addr + Word \in Low .. DecodeLast
  BY <1>1, NextPageWord, Ends, Sizes
<1>4. OnPage(CursorUp(pos))
  BY <1>1, <1>2, <1>3 DEF CursorUp, OnPage
<1>5. OnPage(PageUp(pos))
  BY <1>1, <1>2, <1>3 DEF PageUp, OnPage
<1>6. OnPage(CursorDown(pos))
  BY <1>1, <1>2, <1>3 DEF CursorDown, OnPage
<1>7. OnPage(PageDown(pos))
  <2>1. CASE pos.addr < DecodeLast
    <3>1. decodeMAX([pos EXCEPT !.addr = @ + Word]) = [pos EXCEPT !.addr = @ + Word]
      BY <1>1, <1>3, <2>1, Sizes, Ends DEF decodeMAX
    <3> QED BY <1>1, <1>2, <1>3, <2>1, <3>1 DEF PageDown, OnPage
  <2>2. CASE ~(pos.addr < DecodeLast)
    BY <1>1, <2>2 DEF PageDown, OnPage
  <2> QED BY <2>1, <2>2
<1> QED BY <1>1, <1>4, <1>5, <1>6, <1>7 DEF OnUp, OnDown, OnPage

(* The digits of the address.                                              *)
LEMMA StepWord ==
  ASSUME NEW x \in Column
  PROVE  Step(x) \in Nat /\ Step(x) % Word = 0
<1>1. (1 * Word) % Word = 0 /\ 1 * Word = Word
  BY Sizes, ModMultiple
<1>2. Digits \in Nat \ {0} /\ Weight \in [0 .. Digits - 1 -> Nat]
  BY BrowserAssumption
<1>3. CASE x = Digits - 1
  BY <1>1, <1>3, Sizes DEF Step
<1>4. CASE x # Digits - 1
  <2>1. x \in 0 .. Digits - 2 /\ Weight[x] \in Nat
    BY <1>2, <1>4 DEF Column
  <2> QED BY <1>4, <2>1, AlignedAssumption DEF Step
<1> QED BY <1>3, <1>4

LEMMA RowLoose ==
  ASSUME NEW pos, Loose(pos)
  PROVE  /\ pos.addr \in Nat /\ pos.y \in Signed /\ pos.y * Word \in Int
         /\ Cursor(pos) \in Nat
<1>1. pos.addr \in Nat /\ pos.y \in Int /\ pos.y >= -(Byte \div 2) /\ pos.addr > Low - Word
      /\ pos.y \in Signed
  BY Sizes DEF Loose, Place, Signed
<1>2. pos.y * Word >= -((Byte \div 2) * Word) /\ pos.y * Word \in Int
  <2>1. (pos.y + Byte \div 2) * Word >= 0
    BY <1>1, Sizes
  <2>2. (pos.y + Byte \div 2) * Word = pos.y * Word + (Byte \div 2) * Word
    BY <1>1, Sizes
  <2> QED BY <1>1, <2>1, <2>2, Sizes, Ends
<1> QED BY <1>1, <1>2, Ends, Sizes DEF Cursor

LEMMA DigitLoose ==
  ASSUME NEW pos, Loose(pos), NEW x \in Column
  PROVE  Loose(DigitUp(pos, x)) /\ Loose(DigitDown(pos, x))
<1>1. pos \in Place /\ pos.addr \in Nat /\ pos.y \in Signed /\ pos.y * Word \in Int
      /\ Step(x) \in Nat
  BY RowLoose, StepWord DEF Loose
<1>2. Stepped(pos, x) \in Int
  BY <1>1, Ends DEF Stepped
<1>3. [pos EXCEPT !.addr = Stepped(pos, x)] \in [addr : Int, y : Signed]
  BY <1>1, <1>2 DEF Place
<1>4. [pos EXCEPT !.addr = @ - Step(x)] \in [addr : Int, y : Signed]
  BY <1>1 DEF Place
<1> QED BY <1>3, <1>4, MaxLoose DEF DigitUp, DigitDown

(* A digit that goes up moves the cursor by what it counts, at most to the *)
(* last word, for every page and digit.                                    *)
LEMMA DigitUpMoves ==
  ASSUME NEW pos, pos \in Place, OnPage(pos), NEW x \in Column, ~BeyondReach(pos, x)
  PROVE  /\ OnPage(DigitUp(pos, x))
         /\ Cursor(DigitUp(pos, x)) = AtMost(Cursor(pos) + Step(x), High - Word)
<1> DEFINE a == pos.addr + Step(x)
           by == pos.y * Word
           to == [pos EXCEPT !.addr = Stepped(pos, x)]
<1>1. /\ pos.addr \in Low .. DecodeLast /\ pos.addr \in Nat /\ pos.addr % Word = 0
      /\ pos.y \in 0 .. Rows - 1
  BY Ends, Sizes DEF OnPage, Place
<1>2. by \in 0 .. (Rows - 1) * Word /\ by % Word = 0 /\ by \in Nat
  BY <1>1, RowWords
<1>3. Step(x) \in Nat /\ Step(x) % Word = 0
  BY StepWord
<1>4. /\ Low \in Nat /\ DecodeLast \in Nat /\ (Rows - 1) * Word \in Nat /\ Word \in Nat \ {0}
      /\ High - Word = DecodeLast + (Rows - 1) * Word /\ High - Word \in Nat
      /\ Reach \in Nat /\ DecodeLast <= Reach
  BY Sizes, Ends, LastWord
<1>5. a \in Nat /\ a % Word = 0 /\ Low <= a
  <2>1. (pos.addr + Step(x)) % Word = 0 /\ (pos.addr - Step(x)) % Word = 0
    <3>1. pos.addr \in Int /\ Step(x) \in Int
      BY <1>1, <1>3
    <3> QED BY <1>1, <1>3, <1>4, <3>1, ModAdd
  <2> QED BY <1>1, <1>3, <1>4, <2>1
<1>6. (a + by) % Word = 0 /\ (a - by) % Word = 0
  <2>1. a \in Int /\ by \in Int
    BY <1>2, <1>5
  <2> HIDE DEF a, by
  <2> QED BY <1>2, <1>4, <1>5, <2>1, ModAdd
<1>7. Cursor(pos) + Step(x) = a + by
  BY <1>1, <1>2, <1>3 DEF Cursor
<1>8. Stepped(pos, x) = (IF a > DecodeLast THEN a + by ELSE a)
  BY DEF Stepped
<1>9. Stepped(pos, x) <= Reach
  BY <1>2, <1>4, <1>5, <1>8 DEF BeyondReach
<1> HIDE DEF a, by
<1>10. Stepped(pos, x) \in Nat /\ Stepped(pos, x) % Word = 0
  BY <1>2, <1>5, <1>6, <1>8
<1>11. to \in [addr : Int, y : 0 .. Rows - 1] /\ to.addr = Stepped(pos, x) /\ to.y = pos.y
  BY <1>1, <1>10 DEF Place
<1> HIDE DEF to
<1>12. /\ OnPage(decodeMAX(to))
       /\ to.addr \in Low .. DecodeLast => decodeMAX(to) = to
       /\ to.addr > DecodeLast => Cursor(decodeMAX(to)) = AtMost(to.addr, High - Word)
  BY <1>9, <1>10, <1>11, MaxOnPage
<1>13. CASE a > DecodeLast
  BY <1>2, <1>4, <1>5, <1>7, <1>8, <1>11, <1>12, <1>13 DEF DigitUp, to
<1>14. CASE ~(a > DecodeLast)
  <2>1. decodeMAX(to) = to /\ Cursor(to) = a + by
    BY <1>4, <1>5, <1>8, <1>11, <1>12, <1>14 DEF Cursor, by
  <2>2. a + by <= High - Word
    BY <1>2, <1>4, <1>5, <1>14
  <2>3. AtMost(a + by, High - Word) = a + by
    BY <1>2, <1>4, <1>5, <2>2 DEF AtMost
  <2> QED BY <1>7, <1>12, <2>1, <2>3 DEF DigitUp, to
<1> QED BY <1>13, <1>14

LEMMA DigitDownOnPage ==
  ASSUME NEW pos, pos \in Place, OnPage(pos), NEW x \in Column
  PROVE  OnPage(DigitDown(pos, x))
<1> DEFINE to == [pos EXCEPT !.addr = @ - Step(x)]
<1>1. /\ pos.addr \in Low .. DecodeLast /\ pos.addr \in Int /\ pos.addr % Word = 0
      /\ pos.y \in 0 .. Rows - 1
  BY Ends, Sizes DEF OnPage, Place
<1>2. Step(x) \in Int /\ Step(x) >= 0 /\ Step(x) % Word = 0 /\ Word \in Nat \ {0}
  BY StepWord, Sizes
<1>3. (pos.addr + Step(x)) % Word = 0 /\ (pos.addr - Step(x)) % Word = 0
  BY <1>1, <1>2, ModAdd
<1>4. pos.addr - Step(x) <= Reach /\ pos.addr - Step(x) \in Int
  BY <1>1, <1>2, LastWord, Ends, Sizes
<1>5. to \in [addr : Int, y : 0 .. Rows - 1] /\ to.addr = pos.addr - Step(x)
  BY <1>1, <1>4 DEF Place
<1> HIDE DEF to
<1>6. OnPage(decodeMAX(to))
  BY <1>3, <1>4, <1>5, MaxOnPage
<1> QED BY <1>6 DEF DigitDown, to

(* A page that is taken to a word and keeps its row.                       *)
LEMMA PageAtOnPage ==
  ASSUME NEW pos, pos \in Place, OnPage(pos), NEW a \in Int, a % Word = 0, a <= Reach
  PROVE  OnPage(decodeMAX([pos EXCEPT !.addr = a]))
<1> DEFINE to == [pos EXCEPT !.addr = a]
<1>1. to \in [addr : Int, y : 0 .. Rows - 1] /\ to.addr = a
  BY DEF OnPage, Place
<1> HIDE DEF to
<1>2. OnPage(decodeMAX(to))
  BY <1>1, MaxOnPage
<1> QED BY <1>2 DEF to

(* In the log, the entry after a word's is one of the log's.               *)
LEMMA InLogIndex ==
  ASSUME NEW c \in LogStart - Word .. LogStart + JumpLog * Word
  PROVE  LogIndex(c) \in 0 .. JumpLog + 1
<1> DEFINE i == (c - LogStart) \div Word
           m == (LogStart - Low) \div Word
           d == (c - LogStart) % Word
<1>1. /\ Word \in Nat \ {0} /\ Low \in Nat /\ LogStart \in Nat /\ JumpLog \in Nat
      /\ JumpLog * Word \in Nat /\ c \in Int /\ c - LogStart \in Int /\ LogStart - Low \in Int
      /\ c - LogStart >= -Word /\ c - LogStart <= JumpLog * Word
  BY Sizes
<1>2. c - LogStart = Word * i + d /\ d \in 0 .. Word - 1 /\ i \in Int
  BY <1>1, DivMod
<1>3. LogStart - Low = Word * m /\ m \in Int
  <2>1. LogStart % Word = 0 /\ Low % Word = 0 /\ LogStart \in Int /\ Low \in Int
    BY <1>1, AlignedAssumption
  <2>2. (LogStart + Low) % Word = 0 /\ (LogStart - Low) % Word = 0
    BY <1>1, <2>1, ModAdd
  <2> QED BY <1>1, <2>2, DivMod
<1> HIDE DEF i, m, d
<1>4. i \in -1 .. JumpLog
  <2>1. ~(i < -1)
    <3>1. SUFFICES ASSUME i <= -2 PROVE FALSE
      BY <1>2
    <3>2. Word * i <= -2 * Word
      BY <1>1, <1>2, <3>1
    <3> QED BY <1>1, <1>2, <3>2
  <2>2. ~(i > JumpLog)
    <3>1. SUFFICES ASSUME i >= JumpLog + 1 PROVE FALSE
      BY <1>1, <1>2
    <3>2. Word * i >= Word * (JumpLog + 1) /\ Word * (JumpLog + 1) = JumpLog * Word + Word
      BY <1>1, <1>2, <3>1
    <3> QED BY <1>1, <1>2, <3>2
  <2> QED BY <1>1, <1>2, <2>1, <2>2
<1>5. (c - Low) \div Word = m + i
  <2>1. c - Low = (m + i) * Word + d /\ m + i \in Int
    BY <1>1, <1>2, <1>3
  <2> QED BY <1>1, <1>2, <2>1, DivUnique
<1>6. ((LogStart + i * Word) - Low) \div Word = m + i
  <2>1. (LogStart + i * Word) - Low = (m + i) * Word /\ m + i \in Int
    BY <1>1, <1>2, <1>3
  <2> QED BY <1>1, <2>1, ModMultiple
<1>7. LogIndex(c) = LogIndex(LogStart + i * Word)
  BY <1>5, <1>6 DEF LogIndex
<1>8. LogIndex(LogStart + i * Word) = i + 1
  BY <1>4, LogAssumption
<1> QED BY <1>1, <1>4, <1>7, <1>8

-----------------------------------------------------------------------------
(* The steps.                                                              *)
LEMMA InvFacts ==
  ASSUME Inv
  PROVE  /\ bdNo \in Page /\ decode \in [Page -> Place] /\ At \in Place /\ Loose(At)
         /\ \A p \in Page : Loose(decode[p])
         /\ astray \in BOOLEAN
         /\ ~astray => OnPage(At) /\ \A p \in Page : OnPage(decode[p])
<1>1. bdNo \in Page /\ decode \in [Page -> Place] /\ astray \in BOOLEAN
  BY DEF Inv, TypeOK, BrowserTypeOK
<1>2. \A p \in Page : Loose(decode[p])
  BY <1>1 DEF Inv, Loose
<1>3. ~astray => \A p \in Page : OnPage(decode[p])
  BY DEF Inv, DecoderOnPage
<1> QED BY <1>1, <1>2, <1>3 DEF At

(* The page that is shown goes somewhere.                                  *)
LEMMA ToKeeps ==
  ASSUME Inv, NEW pos, Loose(pos), To(pos), astray' \in BOOLEAN,
         astray => astray', ~astray' => OnPage(pos)
  PROVE  /\ decode' \in [Page -> Place] /\ DecoderOnPage'
         /\ \A p \in Page : decode'[p].addr > Low - Word
<1>1. /\ bdNo \in Page /\ decode \in [Page -> Place] /\ pos \in Place
      /\ pos.addr > Low - Word /\ \A p \in Page : Loose(decode[p])
      /\ ~astray => \A p \in Page : OnPage(decode[p])
  BY InvFacts DEF Loose
<1>2. decode' = [decode EXCEPT ![bdNo] = pos]
  BY DEF To
<1>3. decode' \in [Page -> Place]
      /\ \A p \in Page : decode'[p] = IF p = bdNo THEN pos ELSE decode[p]
  BY <1>1, <1>2
<1>4. \A p \in Page : decode'[p].addr > Low - Word
  BY <1>1, <1>3 DEF Loose
<1>5. DecoderOnPage'
  BY <1>1, <1>3 DEF DecoderOnPage
<1> QED BY <1>3, <1>4, <1>5

LEMMA DecodeKeepsInv ==
  ASSUME Inv, UNCHANGED <<browserVars, logVars, back, markVars, tools>>,
         flipme' \in BOOLEAN, astray' \in BOOLEAN, astray => astray',
         searchjumpNo' \in 0 .. MaxNo, shownResults' \in 0 .. searchResultMax,
         decode' \in [Page -> Place], DecoderOnPage',
         \A p \in Page : decode'[p].addr > Low - Word
  PROVE  Inv'
<1>1. /\ bdNo' = bdNo /\ browseLines' = browseLines /\ browse' = browse /\ stale' = stale
      /\ logcounter' = logcounter /\ storedAddress' = storedAddress /\ trail' = trail
      /\ back' = back /\ copyStartFlag' = copyStartFlag /\ copyEndFlag' = copyEndFlag
      /\ copyToggle' = copyToggle /\ tools' = tools
  BY DEF browserVars, logVars, markVars
<1>2. BrowserTypeOK' /\ BrowserInv'
  BY <1>1 DEF Inv, BrowserInv, BrowserTypeOK, PagesFit, Fits
<1>3. TypeOK'
  BY <1>1, <1>2 DEF Inv, TypeOK
<1>4. MarksOrdered' /\ TrailOK' /\ (~astray' => LogOK')
  BY <1>1 DEF Inv, MarksOrdered, TrailOK, LogOK
<1> QED BY <1>2, <1>3, <1>4 DEF Inv

LEMMA EditorKeepsInv ==
  ASSUME Inv, UNCHANGED <<decoderVars, astray, tools, flipme>>, BrowserInv'
  PROVE  Inv'
<1>1. /\ logcounter' = logcounter /\ storedAddress' = storedAddress /\ trail' = trail
      /\ back' = back /\ copyStartFlag' = copyStartFlag /\ copyEndFlag' = copyEndFlag
      /\ copyToggle' = copyToggle /\ tools' = tools /\ astray' = astray /\ flipme' = flipme
      /\ decode' = decode /\ searchjumpNo' = searchjumpNo /\ shownResults' = shownResults
  BY DEF decoderVars, logVars, markVars, resultVars
<1>2. BrowserTypeOK'
  BY DEF BrowserInv
<1>3. TypeOK'
  BY <1>1, <1>2 DEF Inv, TypeOK
<1>4. MarksOrdered' /\ TrailOK' /\ DecoderOnPage' /\ (~astray' => LogOK')
      /\ \A p \in Page : decode'[p].addr > Low - Word
  BY <1>1 DEF Inv, MarksOrdered, TrailOK, LogOK, DecoderOnPage
<1> QED BY <1>3, <1>4 DEF Inv

LEMMA InitInv == Init => Inv
<1> SUFFICES ASSUME Init PROVE Inv
  OBVIOUS
<1>1. /\ Low \in Nat /\ High \in Nat /\ Low <= DecodeLast /\ Low % Word = 0
      /\ Word \in Nat \ {0} /\ JumpLog \in Nat /\ Low < High
      /\ Rows \in Nat \ {0} /\ 0 \in Signed /\ 0 \in 0 .. Rows - 1 /\ DecodeLast \in Nat
  BY Sizes, Ends, AlignedAssumption DEF Signed
<1>2. /\ BrowserTypeOK
      /\ \A p \in Page : browse[p] = [addr |-> Low, y |-> 0, c |-> 0, x |-> 0]
  <2>1. 0 \in Page /\ 0 \in 0 .. 2 /\ 0 \in Nat /\ Low \in Low .. High
    BY <1>1, BrowserAssumption DEF Page
  <2>2. [addr |-> Low, y |-> 0, c |-> 0, x |-> 0] \in Position
    BY <1>1, <2>1 DEF Position
  <2> QED BY <2>1, <2>2 DEF Init, BrowserInit, BrowserTypeOK
<1>3. BrowserInv
  <2>1. 0 \in Column /\ browseLines \in {Narrow, Wide}
    BY BrowserAssumption DEF Column, Init, BrowserInit
  <2>2. /\ 0 \in 0 .. LastColumn(0, browseLines) /\ Low <= LastStart(Narrow)
        /\ Low \in Low .. LastStart(browseLines)
    BY <1>1, <2>1, LastColumns, Starts
  <2> QED BY <1>2, <2>1, <2>2 DEF BrowserInv, PagesFit, Fits
<1>4. /\ decode \in [Page -> Place] /\ DecoderOnPage
      /\ \A p \in Page : decode[p].addr > Low - Word
  BY <1>1 DEF Init, Place, DecoderOnPage, OnPage
<1>5. TypeOK
  <2>1. storedAddress \in [Entry -> Nat] /\ back \in [BackPage -> Place] /\ trail \in Seq(Nat)
    BY <1>1 DEF Init, Place
  <2>2. logcounter \in 0 .. JumpLog + 1
    BY <1>1 DEF Init
  <2>3. searchjumpNo \in 0 .. MaxNo /\ shownResults \in 0 .. searchResultMax
    <3>1. MaxNo \in Nat /\ searchResultMax \in Nat
      BY DecoderAssumption
    <3> QED BY <3>1 DEF Init
  <2>4. /\ flipme \in BOOLEAN /\ copyToggle \in BOOLEAN /\ astray \in BOOLEAN
        /\ copyStartFlag \in Nat /\ copyEndFlag \in Nat /\ tools \in Together
    BY <1>1 DEF Init
  <2> QED BY <1>2, <1>4, <2>1, <2>2, <2>3, <2>4 DEF TypeOK
<1>6. MarksOrdered /\ TrailOK /\ LogOK
  BY <1>1 DEF Init, MarksOrdered, IsWord, TrailOK, LogOK
<1> QED BY <1>3, <1>4, <1>5, <1>6 DEF Inv

(* What an action that only moves the page leaves alone.                   *)
LEMMA PageMoved ==
  ASSUME Inv, NEW pos, Loose(pos), To(pos), astray' \in BOOLEAN, astray => astray',
         ~astray' => OnPage(pos),
         UNCHANGED <<browserVars, flipme, logVars, back, markVars, tools>>,
         searchjumpNo' \in 0 .. MaxNo, shownResults' \in 0 .. searchResultMax
  PROVE  Inv'
<1>1. flipme' \in BOOLEAN
  BY DEF Inv, TypeOK
<1> QED BY <1>1, ToKeeps, DecodeKeepsInv

LEMMA ResultsTyped ==
  ASSUME Inv
  PROVE  /\ searchjumpNo \in 0 .. MaxNo /\ shownResults \in 0 .. searchResultMax
         /\ MaxNo \in Nat /\ searchResultMax \in Nat /\ searchResultMax <= MaxNo
         /\ Leap \in Nat \ {0}
  BY DecoderAssumption DEF Inv, TypeOK

(* The stick takes the page by rows of the editor, which are words.        *)
LEMMA StickWord ==
  ASSUME Inv, NEW k \in Stick
  PROVE  /\ k * browseLines \in Int /\ (k * browseLines) % Word = 0
         /\ DecodeLast + k * browseLines <= Reach
<1>1. /\ k \in Int /\ browseLines \in {Narrow, Wide} /\ browseLines \in Int
      /\ browseLines % Word = 0 /\ Word \in Nat \ {0}
  BY BrowserAssumption, AlignedAssumption, Sizes DEF Inv, TypeOK, BrowserTypeOK
<1>2. (k * browseLines) % Word = 0
  BY <1>1, ModScale
<1>3. k * browseLines <= (Byte \div 2 - 1) * Word
  <2>1. k * Wide <= (Byte \div 2 - 1) * Word
    BY DecoderAssumption
  <2>2. 0 <= (Byte \div 2 - 1) * Word /\ (Byte \div 2 - 1) * Word \in Nat
    BY Sizes
  <2>3. k <= 0 => k * browseLines <= 0
    BY <1>1, BrowserAssumption
  <2>4. k > 0 => k * Narrow <= k * Wide
    BY <1>1, BrowserAssumption
  <2>5. k * Narrow \in Int /\ k * Wide \in Int /\ k * browseLines \in Int
        /\ (k * browseLines = k * Narrow \/ k * browseLines = k * Wide)
    BY <1>1, BrowserAssumption
  <2> QED BY <1>1, <2>1, <2>2, <2>3, <2>4, <2>5
<1>4. k * browseLines \in Int
  BY <1>1
<1>5. /\ Reach = DecodeLast + (Byte \div 2 - 1) * Word /\ DecodeLast \in Int
      /\ (Byte \div 2 - 1) * Word \in Int
  BY LastWord, Ends, Sizes
<1>6. DecodeLast + k * browseLines <= Reach
  BY <1>3, <1>4, <1>5
<1> QED BY <1>2, <1>4, <1>6

LEMMA MoveKeepsInv ==
  ASSUME Inv, Move
  PROVE  Inv'
<1>1. PICK pos \in OnUp(At) \cup OnDown(At)
                     \cup {PageAt(At.addr + k * browseLines) : k \in Stick} : To(pos)
  BY DEF Move
<1>2. /\ At \in Place /\ Loose(At) /\ astray \in BOOLEAN /\ (~astray => OnPage(At))
      /\ astray' = astray /\ At.addr \in Nat /\ At.y \in Signed
      /\ searchjumpNo' = searchjumpNo /\ shownResults' = shownResults
  BY InvFacts DEF Move, Place, resultVars
<1>3. Loose(pos) /\ (~astray => OnPage(pos))
  <2>1. CASE pos \in OnUp(At) \cup OnDown(At)
    BY <1>2, <2>1, MovesLoose, MovesOnPage
  <2>2. CASE pos \in {PageAt(At.addr + k * browseLines) : k \in Stick}
    <3>1. PICK k \in Stick : pos = PageAt(At.addr + k * browseLines)
      BY <2>2
    <3> DEFINE a == At.addr + k * browseLines
    <3>2. a \in Int /\ (k * browseLines) % Word = 0 /\ k * browseLines \in Int
      BY <1>2, <3>1, StickWord
    <3>3. Loose(pos)
      <4>1. [At EXCEPT !.addr = a] \in [addr : Int, y : Signed]
        BY <1>2, <3>2 DEF Place
      <4> QED BY <3>1, <4>1, MaxLoose DEF PageAt
    <3>4. ASSUME ~astray PROVE OnPage(pos)
      <4>1. OnPage(At) /\ At.addr \in Int /\ At.addr % Word = 0 /\ Word \in Nat \ {0}
        BY <1>2, <3>4, Sizes DEF OnPage
      <4>2. (At.addr + k * browseLines) % Word = 0 /\ (At.addr - k * browseLines) % Word = 0
        BY <3>2, <4>1, ModAdd
      <4>3. a <= Reach
        <5>1. At.addr <= DecodeLast /\ DecodeLast \in Int /\ Reach \in Int
          BY <4>1, Ends, LastWord DEF OnPage
        <5> QED BY <3>2, <4>1, <5>1, StickWord
      <4> HIDE DEF a
      <4> QED BY <1>2, <3>1, <3>2, <4>1, <4>2, <4>3, PageAtOnPage DEF PageAt, a
    <3> QED BY <3>3, <3>4
  <2> QED BY <1>1, <2>1, <2>2
<1>4. UNCHANGED <<browserVars, flipme, logVars, back, markVars, tools>>
  BY DEF Move, Using
<1> QED BY <1>1, <1>2, <1>3, <1>4, ResultsTyped, PageMoved

LEMMA EditDigitKeepsInv ==
  ASSUME Inv, EditDigit
  PROVE  Inv'
<1>1. PICK x \in Column : \/ To(DigitUp(At, x)) /\ astray' = (astray \/ BeyondReach(At, x))
                          \/ To(DigitDown(At, x)) /\ UNCHANGED astray
  BY DEF EditDigit
<1>2. /\ At \in Place /\ Loose(At) /\ astray \in BOOLEAN /\ (~astray => OnPage(At))
      /\ searchjumpNo' = searchjumpNo /\ shownResults' = shownResults
      /\ UNCHANGED <<browserVars, flipme, logVars, back, markVars, tools>>
  BY InvFacts DEF EditDigit, Using, resultVars
<1>3. CASE To(DigitUp(At, x)) /\ astray' = (astray \/ BeyondReach(At, x))
  <2>1. Loose(DigitUp(At, x)) /\ astray' \in BOOLEAN /\ (astray => astray')
        /\ (~astray' => OnPage(DigitUp(At, x)))
    BY <1>2, <1>3, DigitLoose, DigitUpMoves DEF BeyondReach
  <2> QED BY <1>2, <1>3, <2>1, ResultsTyped, PageMoved
<1>4. CASE To(DigitDown(At, x)) /\ UNCHANGED astray
  <2>1. Loose(DigitDown(At, x)) /\ (~astray => OnPage(DigitDown(At, x)))
    BY <1>2, DigitLoose, DigitDownOnPage
  <2> QED BY <1>2, <1>4, <2>1, ResultsTyped, PageMoved
<1> QED BY <1>1, <1>3, <1>4

(* A page that is taken to an address and keeps its row.                   *)
LEMMA PageAtPlaces ==
  ASSUME Inv, NEW a \in Int
  PROVE  /\ Loose(PageAt(a))
         /\ ~astray /\ a % Word = 0 /\ a <= Reach => OnPage(PageAt(a))
<1>1. At \in Place /\ (~astray => OnPage(At))
  BY InvFacts
<1>2. [At EXCEPT !.addr = a] \in [addr : Int, y : Signed]
  BY <1>1 DEF Place
<1> QED BY <1>1, <1>2, MaxLoose, PageAtOnPage DEF PageAt

LEMMA PasteKeepsInv ==
  ASSUME Inv, Paste
  PROVE  Inv'
<1>1. PICK a \in Target \cup {f \in Found : f >= Low} :
        To(PageAt(a)) /\ astray' = (astray \/ a > Reach)
  BY DEF Paste
<1>2. a \in Nat /\ a % Word = 0
  BY <1>1, Sizes, DecoderAssumption, AlignedAssumption DEF Target
<1>3. /\ astray \in BOOLEAN /\ searchjumpNo' = searchjumpNo /\ shownResults' = shownResults
      /\ UNCHANGED <<browserVars, flipme, logVars, back, markVars, tools>>
  BY InvFacts DEF Paste, Using, resultVars
<1>4. /\ Loose(PageAt(a)) /\ astray' \in BOOLEAN /\ (astray => astray')
      /\ ~astray' => OnPage(PageAt(a))
  <2>1. astray' \in BOOLEAN /\ (astray => astray') /\ (~astray' => ~astray /\ a <= Reach)
    <3>1. astray' = (astray \/ a > Reach)
      BY <1>1
    <3>2. a <= Reach <=> ~(a > Reach)
      BY <1>2, LastWord
    <3> QED BY <1>3, <3>1, <3>2, Zenon
  <2>2. /\ Loose(PageAt(a))
        /\ ~astray /\ a % Word = 0 /\ a <= Reach => OnPage(PageAt(a))
    BY <1>2, PageAtPlaces
  <2> QED BY <1>2, <2>1, <2>2
<1> QED BY <1>1, <1>3, <1>4, ResultsTyped, PageMoved

LEMMA GoToMarkKeepsInv ==
  ASSUME Inv, GoToMark
  PROVE  Inv'
<1>1. PICK a \in {copyStartFlag, copyEndFlag} : To(PageAt(a))
  BY DEF GoToMark
<1>2. a \in Nat /\ (~astray => IsWord(a))
  BY <1>1 DEF Inv, TypeOK, MarksOrdered
<1>3. /\ astray' = astray /\ astray \in BOOLEAN
      /\ searchjumpNo' = searchjumpNo /\ shownResults' = shownResults
      /\ UNCHANGED <<browserVars, flipme, logVars, back, markVars, tools>>
  BY InvFacts DEF GoToMark, Using, resultVars
<1>4. Loose(PageAt(a)) /\ (~astray => OnPage(PageAt(a)))
  BY <1>2, PageAtPlaces, WordEnd DEF IsWord
<1> QED BY <1>1, <1>3, <1>4, ResultsTyped, PageMoved

LEMMA NextNoTyped ==
  ASSUME Inv, NEW d
  PROVE  NextNo(d) \in 0 .. MaxNo
<1>1. /\ searchjumpNo \in 0 .. MaxNo /\ shownResults \in 0 .. searchResultMax
      /\ MaxNo \in Nat /\ searchResultMax \in Nat /\ searchResultMax <= MaxNo
      /\ Leap \in Nat \ {0}
  BY ResultsTyped
<1> QED BY <1>1 DEF NextNo, AtLeast

LEMMA ResultJumpKeepsInv ==
  ASSUME Inv, NEW d, ResultJump(d)
  PROVE  Inv'
<1>1. PICK a \in Found :
        LET pos == IF a > Low THEN [addr |-> a, y |-> 0] ELSE At
        IN \E to \in Then(d, pos) :
             /\ To(to[1])
             /\ astray' = (astray \/ pos.addr > DecodeLast \/ to[2])
  BY DEF ResultJump
<1> DEFINE pos == IF a > Low THEN [addr |-> a, y |-> 0] ELSE At
<1>2. PICK to \in Then(d, pos) :
        To(to[1]) /\ astray' = (astray \/ pos.addr > DecodeLast \/ to[2])
  BY <1>1
<1>3. /\ At \in Place /\ Loose(At) /\ astray \in BOOLEAN /\ (~astray => OnPage(At))
      /\ searchjumpNo' = NextNo(d) /\ shownResults' = shownResults
      /\ UNCHANGED <<browserVars, flipme, logVars, back, markVars, tools>>
  BY InvFacts DEF ResultJump, Using
<1>4. Loose(pos) /\ (~astray /\ ~(pos.addr > DecodeLast) => OnPage(pos))
  <2>1. a \in Nat /\ a % Word = 0
    BY DecoderAssumption, AlignedAssumption
  <2>2. CASE a > Low
    <3>1. [addr |-> a, y |-> 0] \in Place /\ a > Low - Word
      BY <2>1, <2>2, Sizes DEF Place, Signed
    <3>2. ~(a > DecodeLast) => OnPage([addr |-> a, y |-> 0])
      BY <2>1, <2>2, Ends, Sizes DEF OnPage
    <3> QED BY <2>2, <3>1, <3>2 DEF Loose
  <2>3. CASE ~(a > Low)
    BY <1>3, <2>3
  <2> QED BY <2>2, <2>3
<1> HIDE DEF pos
<1>5. /\ to[2] \in BOOLEAN /\ Loose(to[1])
      /\ OnPage(pos) /\ ~to[2] => OnPage(to[1])
  <2>1. pos \in Place
    BY <1>4 DEF Loose
  <2>2. CASE to \in OnUp(pos) \X {FALSE} \/ to \in OnDown(pos) \X {FALSE}
    BY <1>4, <2>1, <2>2, MovesLoose, MovesOnPage
  <2>3. CASE to \in {<<DigitUp(pos, x), BeyondReach(pos, x)>> : x \in Column}
    <3>1. PICK x \in Column : to = <<DigitUp(pos, x), BeyondReach(pos, x)>>
      BY <2>3
    <3>2. to[1] = DigitUp(pos, x) /\ to[2] = BeyondReach(pos, x)
      BY <3>1
    <3>3. BeyondReach(pos, x) \in BOOLEAN
      BY DEF BeyondReach
    <3> QED BY <1>4, <2>1, <3>2, <3>3, DigitLoose, DigitUpMoves
  <2>4. CASE to \in {DigitDown(pos, x) : x \in Column} \X {FALSE}
    BY <1>4, <2>1, <2>4, DigitLoose, DigitDownOnPage
  <2>5. CASE to = <<pos, FALSE>>
    BY <1>4, <2>5
  <2> QED BY <1>2, <2>2, <2>3, <2>4, <2>5 DEF Then
<1>6. /\ astray' \in BOOLEAN /\ (astray => astray') /\ (~astray' => OnPage(to[1]))
  BY <1>2, <1>3, <1>4, <1>5, Ends DEF Loose, Place
<1>7. searchjumpNo' \in 0 .. MaxNo /\ shownResults' \in 0 .. searchResultMax
  BY <1>3, NextNoTyped, ResultsTyped
<1> QED BY <1>2, <1>3, <1>5, <1>6, <1>7, PageMoved

(* The log.                                                                *)
LEMMA LogKeepsInv ==
  ASSUME Inv, UNCHANGED <<browserVars, flipme, markVars, resultVars, tools>>,
         astray' \in BOOLEAN, astray => astray',
         decode' \in [Page -> Place], DecoderOnPage',
         \A p \in Page : decode'[p].addr > Low - Word,
         logcounter' \in 0 .. JumpLog + 1, storedAddress' \in [Entry -> Nat],
         trail' \in Seq(Nat), back' \in [BackPage -> Place],
         TrailOK', ~astray' => LogOK'
  PROVE  Inv'
<1>1. /\ bdNo' = bdNo /\ browseLines' = browseLines /\ browse' = browse /\ stale' = stale
      /\ copyStartFlag' = copyStartFlag /\ copyEndFlag' = copyEndFlag
      /\ copyToggle' = copyToggle /\ tools' = tools /\ flipme' = flipme
      /\ searchjumpNo' = searchjumpNo /\ shownResults' = shownResults
  BY DEF browserVars, markVars, resultVars
<1>2. BrowserTypeOK' /\ BrowserInv'
  BY <1>1 DEF Inv, BrowserInv, BrowserTypeOK, PagesFit, Fits
<1>3. TypeOK'
  BY <1>1, <1>2 DEF Inv, TypeOK
<1>4. MarksOrdered'
  BY <1>1 DEF Inv, MarksOrdered
<1> QED BY <1>2, <1>3, <1>4 DEF Inv

LEMMA LogFacts ==
  ASSUME Inv
  PROVE  /\ logcounter \in 0 .. JumpLog + 1 /\ JumpLog \in Nat
         /\ storedAddress \in [Entry -> Nat] /\ trail \in Seq(Nat) /\ Len(trail) = logcounter
         /\ back \in [BackPage -> Place]
         /\ ~astray => /\ \A i \in Entry : storedAddress[i] = 0 \/ IsWord(storedAddress[i])
                       /\ \A p \in BackPage : back[p] = [addr |-> 0, y |-> 0] \/ OnPage(back[p])
                       /\ \A i \in 1 .. logcounter : trail[i] = AtLeast(storedAddress[i - 1], Low)
  BY Sizes DEF Inv, TypeOK, TrailOK, LogOK

(* What a step of the log does to it.                                      *)
LEMMA LoggedKeeps ==
  ASSUME Inv, Logged, logcounter <= JumpLog, UNCHANGED <<back, astray>>
  PROVE  /\ logcounter' \in 0 .. JumpLog + 1 /\ storedAddress' \in [Entry -> Nat]
         /\ trail' \in Seq(Nat) /\ back' \in [BackPage -> Place]
         /\ TrailOK' /\ (~astray' => LogOK')
<1> DEFINE c == Cursor(At)
<1>1. c \in Nat /\ (~astray => IsWord(c))
  BY InvFacts, RowLoose, CursorWord
<1>2. /\ logcounter \in 0 .. JumpLog /\ logcounter \in Entry /\ JumpLog \in Nat
      /\ storedAddress \in [Entry -> Nat] /\ trail \in Seq(Nat) /\ Len(trail) = logcounter
      /\ back' = back /\ back \in [BackPage -> Place] /\ astray' = astray
  BY LogFacts DEF Entry
<1>3. /\ storedAddress' = [storedAddress EXCEPT ![logcounter] = c]
      /\ logcounter' = logcounter + 1 /\ trail' = Append(trail, c)
  BY DEF Logged
<1> HIDE DEF c
<1>4. /\ logcounter' \in 0 .. JumpLog + 1 /\ storedAddress' \in [Entry -> Nat]
      /\ trail' \in Seq(Nat) /\ Len(trail') = logcounter'
      /\ \A i \in Entry : storedAddress'[i] = IF i = logcounter THEN c ELSE storedAddress[i]
      /\ \A i \in 1 .. logcounter : trail'[i] = trail[i]
      /\ trail'[logcounter + 1] = c
  BY <1>1, <1>2, <1>3
<1>5. ~astray' => LogOK'
  BY <1>1, <1>2, <1>4, LogFacts DEF LogOK
<1>6. ASSUME ~astray, NEW i \in 1 .. logcounter'
      PROVE  trail'[i] = AtLeast(storedAddress'[i - 1], Low)
  <2>1. i - 1 \in Entry
    BY <1>2, <1>3 DEF Entry
  <2>2. CASE i = logcounter + 1
    <3>1. storedAddress'[i - 1] = c /\ trail'[i] = c
      BY <1>2, <1>4, <2>1, <2>2
    <3>2. AtLeast(c, Low) = c
      BY <1>1, <1>6, WordEnd, Sizes DEF AtLeast
    <3> QED BY <3>1, <3>2
  <2>3. CASE i # logcounter + 1
    <3>1. i \in 1 .. logcounter /\ i - 1 # logcounter
      BY <1>2, <1>3, <2>3
    <3> QED BY <1>4, <1>6, <2>1, <3>1, LogFacts
  <2> QED BY <2>2, <2>3
<1>7. TrailOK'
  BY <1>2, <1>4, <1>6 DEF TrailOK
<1> QED BY <1>2, <1>4, <1>5, <1>7

LEMMA ResumedKeeps ==
  ASSUME Inv, Resumed, InLog, UNCHANGED <<back, astray>>
  PROVE  /\ logcounter' \in 0 .. JumpLog + 1 /\ storedAddress' \in [Entry -> Nat]
         /\ trail' \in Seq(Nat) /\ back' \in [BackPage -> Place]
         /\ TrailOK' /\ (~astray' => LogOK')
<1>1. /\ storedAddress' = storedAddress /\ back' = back /\ astray' = astray
      /\ storedAddress \in [Entry -> Nat] /\ back \in [BackPage -> Place]
      /\ logcounter' = LogIndex(Cursor(At)) /\ JumpLog \in Nat
      /\ trail' = [i \in 1 .. logcounter' |-> AtLeast(storedAddress[i - 1], Low)]
  BY LogFacts DEF Resumed
<1>2. logcounter' \in 0 .. JumpLog + 1
  BY <1>1, InLogIndex DEF InLog
<1>3. \A i \in 1 .. logcounter' : AtLeast(storedAddress[i - 1], Low) \in Nat
  BY <1>1, <1>2, Sizes DEF Entry, AtLeast
<1>4. trail' \in Seq(Nat) /\ Len(trail') = logcounter'
  BY <1>1, <1>2, <1>3
<1>5. TrailOK'
  <2>1. \A i \in 1 .. logcounter' : trail'[i] = AtLeast(storedAddress'[i - 1], Low)
    BY <1>1
  <2> QED BY <1>4, <2>1 DEF TrailOK
<1>6. ~astray' => LogOK'
  BY <1>1, LogFacts DEF LogOK
<1> QED BY <1>1, <1>2, <1>4, <1>5, <1>6

LEMMA JumpKeepsInv ==
  ASSUME Inv, Jump
  PROVE  Inv'
<1>1. /\ astray' = astray /\ astray \in BOOLEAN /\ back' = back
      /\ UNCHANGED <<browserVars, flipme, markVars, resultVars, tools>>
  BY InvFacts DEF Jump, Using
<1>2. CASE Full
  <2>1. /\ decode' = decode /\ storedAddress' = storedAddress /\ logcounter' = JumpLog
        /\ trail' = SubSeq(trail, 1, JumpLog) /\ logcounter > JumpLog
    BY <1>2 DEF Full
  <2>2. /\ trail' \in Seq(Nat) /\ Len(trail') = JumpLog /\ JumpLog \in Nat
        /\ \A i \in 1 .. JumpLog : trail'[i] = trail[i]
    BY <2>1, LogFacts
  <2>3. TrailOK' /\ (~astray' => LogOK')
    BY <1>1, <2>1, <2>2, LogFacts DEF TrailOK, LogOK
  <2>4. decode' \in [Page -> Place] /\ DecoderOnPage'
        /\ \A p \in Page : decode'[p].addr > Low - Word
    BY <1>1, <2>1, InvFacts DEF Loose, DecoderOnPage
  <2>5. /\ logcounter' \in 0 .. JumpLog + 1 /\ storedAddress' \in [Entry -> Nat]
        /\ back' \in [BackPage -> Place]
    BY <1>1, <2>1, LogFacts
  <2> QED BY <1>1, <2>2, <2>3, <2>4, <2>5, LogKeepsInv
<1>3. CASE Follow
  <2> DEFINE LogStep == /\ logcounter' \in 0 .. JumpLog + 1 /\ storedAddress' \in [Entry -> Nat]
                        /\ trail' \in Seq(Nat) /\ back' \in [BackPage -> Place]
                        /\ TrailOK' /\ (~astray' => LogOK')
  <2>1. LogStep
    <3>1. CASE Logged
      BY <1>1, <1>3, <3>1, LoggedKeeps DEF Follow
    <3>2. CASE InLog /\ Resumed
      BY <1>1, <3>2, ResumedKeeps
    <3>3. CASE UNCHANGED logVars
      <4>1. logcounter' = logcounter /\ storedAddress' = storedAddress /\ trail' = trail
        BY <3>3 DEF logVars
      <4>2. TrailOK' /\ (~astray' => LogOK')
        BY <1>1, <4>1, LogFacts DEF TrailOK, LogOK
      <4> QED BY <1>1, <4>1, <4>2, LogFacts
    <3> QED BY <1>3, <3>1, <3>2, <3>3 DEF Follow, Followed
  <2> HIDE DEF LogStep
  <2>2. \E pos : To(pos) /\ Loose(pos) /\ (~astray => OnPage(pos))
    <3>1. ASSUME NEW a \in Target, To(CursorAt(a))
          PROVE  Loose(CursorAt(a)) /\ OnPage(CursorAt(a))
      <4>1. IsWord(a) /\ a \in Int /\ 0 \in Signed
        BY Sizes DEF Target, IsWord, Signed
      <4>2. [addr |-> a, y |-> 0] \in [addr : Int, y : Signed]
        BY <4>1
      <4> QED BY <4>1, <4>2, WordPlace, MaxLoose DEF CursorAt
    <3>2. Loose(decodeMAX(At)) /\ (~astray => OnPage(decodeMAX(At)))
      <4>1. At \in Place /\ At \in [addr : Int, y : Signed] /\ (~astray => OnPage(At))
        BY InvFacts DEF Place
      <4>2. OnPage(At) => decodeMAX(At) = At
        BY Ends, Sizes DEF decodeMAX, OnPage
      <4> QED BY <4>1, <4>2, MaxLoose
    <3> QED BY <1>3, <3>1, <3>2 DEF Follow, Followed
  <2>3. PICK pos : To(pos) /\ Loose(pos) /\ (~astray => OnPage(pos))
    BY <2>2
  <2>4. decode' \in [Page -> Place] /\ DecoderOnPage'
        /\ \A p \in Page : decode'[p].addr > Low - Word
    BY <1>1, <2>3, ToKeeps
  <2> QED BY <1>1, <2>1, <2>4, LogKeepsInv DEF LogStep
<1> QED BY <1>2, <1>3 DEF Jump

LEMMA ReturnKeepsInv ==
  ASSUME Inv, Return
  PROVE  Inv'
<1>1. /\ astray' = astray /\ astray \in BOOLEAN /\ back' = back
      /\ storedAddress' = storedAddress
      /\ UNCHANGED <<browserVars, flipme, markVars, resultVars, tools>>
  BY InvFacts DEF Return, Using
<1>2. CASE logcounter >= 1
  <2> DEFINE a == storedAddress[logcounter - 1]
  <2>1. logcounter - 1 \in Entry /\ logcounter \in 1 .. JumpLog + 1 /\ JumpLog \in Nat
    BY <1>2, LogFacts DEF Entry
  <2>2. a \in Nat /\ (~astray => a = 0 \/ IsWord(a))
    BY <2>1, LogFacts
  <2>3. Loose(ReturnPlace) /\ (~astray => OnPage(ReturnPlace))
    <3>1. [addr |-> a, y |-> 0] \in [addr : Int, y : Signed]
      BY <2>2, Sizes DEF Signed
    <3>2. Loose(CursorAt(a))
      BY <3>1, MaxLoose DEF CursorAt
    <3> QED BY <2>2, <3>2, WordPlace DEF ReturnPlace
  <2>4. To(ReturnPlace) /\ logcounter' = logcounter - 1 /\ trail' = Front(trail)
    BY <1>2 DEF Return
  <2>5. /\ trail' \in Seq(Nat) /\ Len(trail') = logcounter'
        /\ \A i \in 1 .. logcounter' : trail'[i] = trail[i]
    BY <2>1, <2>4, LogFacts DEF Front
  <2>6. TrailOK' /\ (~astray' => LogOK')
    <3>2. logcounter' = logcounter - 1 /\ 1 .. logcounter' \subseteq 1 .. logcounter
      BY <2>1, <2>4
    <3>3. ~astray => \A i \in 1 .. logcounter : trail[i] = AtLeast(storedAddress[i - 1], Low)
      BY LogFacts
    <3>1. ~astray' => \A i \in 1 .. logcounter' : trail'[i] = AtLeast(storedAddress'[i - 1], Low)
      BY <1>1, <2>5, <3>2, <3>3
    <3> QED BY <1>1, <2>5, <3>1, LogFacts DEF TrailOK, LogOK
  <2>7. decode' \in [Page -> Place] /\ DecoderOnPage'
        /\ \A p \in Page : decode'[p].addr > Low - Word
    BY <1>1, <2>3, <2>4, ToKeeps
  <2>8. logcounter' \in 0 .. JumpLog + 1 /\ storedAddress' \in [Entry -> Nat]
        /\ back' \in [BackPage -> Place]
    BY <1>1, <2>1, <2>4, LogFacts
  <2> QED BY <1>1, <2>5, <2>6, <2>7, <2>8, LogKeepsInv
<1>3. CASE ~(logcounter >= 1)
  <2> DEFINE pos == [At EXCEPT !.y = 0]
  <2>1. To(decodeMAX(pos)) /\ logcounter' = logcounter /\ trail' = trail
    BY <1>3 DEF Return
  <2>2. At \in Place /\ (~astray => OnPage(At)) /\ At.addr \in Nat
    BY InvFacts DEF Place
  <2>3. pos \in [addr : Int, y : Signed]
    BY <2>2, Sizes DEF Place, Signed
  <2>4. ~astray => OnPage(decodeMAX(pos))
    BY <2>2, Ends, Sizes DEF decodeMAX, OnPage
  <2> HIDE DEF pos
  <2>5. Loose(decodeMAX(pos))
    BY <2>3, MaxLoose
  <2>6. decode' \in [Page -> Place] /\ DecoderOnPage'
        /\ \A p \in Page : decode'[p].addr > Low - Word
    BY <1>1, <2>1, <2>4, <2>5, ToKeeps
  <2>7. TrailOK' /\ (~astray' => LogOK')
    BY <1>1, <2>1, LogFacts DEF TrailOK, LogOK
  <2> QED BY <1>1, <2>1, <2>6, <2>7, LogFacts, LogKeepsInv
<1> QED BY <1>2, <1>3

LEMMA ViewKeepsInv ==
  ASSUME Inv, View,
         UNCHANGED <<browserVars, flipme, logcounter, trail, markVars, resultVars, tools>>
  PROVE  Inv'
<1>1. /\ At \in Place /\ At.addr \in Nat /\ (~astray => OnPage(At)) /\ Loose(At)
      /\ astray \in BOOLEAN /\ logcounter' = logcounter /\ trail' = trail
      /\ Low \in Nat /\ Word \in Nat \ {0} /\ 0 \in Signed
  BY InvFacts, Sizes DEF Place, Signed
<1>2. PICK pos : /\ To(pos) /\ Loose(pos) /\ (~astray => OnPage(pos))
  <2>1. Loose(CursorAt(At.addr)) /\ (~astray => OnPage(CursorAt(At.addr)))
    <3>1. [addr |-> At.addr, y |-> 0] \in [addr : Int, y : Signed]
      BY <1>1
    <3>2. OnPage(At) => OnPage(CursorAt(At.addr))
      BY <1>1, Ends, Sizes DEF CursorAt, decodeMAX, OnPage
    <3> QED BY <1>1, <3>1, <3>2, MaxLoose DEF CursorAt
  <2>2. Loose(CursorAt(Newest)) /\ OnPage(CursorAt(Newest))
    <3> DEFINE k == logcounter - 1
    <3>1. /\ k \in -1 .. JumpLog /\ JumpLog \in Nat /\ LogStart \in Nat
          /\ LogStart % Word = 0 /\ Low + Word <= LogStart /\ High \in Nat
          /\ LogStart + JumpLog * Word < High /\ JumpLog * Word \in Nat /\ k \in Int
      BY LogFacts, LogAssumption, AlignedAssumption, Sizes
    <3> HIDE DEF k
    <3>2. k * Word \in Int /\ k * Word >= -Word /\ k * Word <= JumpLog * Word
          /\ (k * Word) % Word = 0
      <4>1. (k + 1) * Word >= 0 /\ (k + 1) * Word = k * Word + Word
        BY <1>1, <3>1
      <4>2. (JumpLog - k) * Word >= 0 /\ (JumpLog - k) * Word = JumpLog * Word - k * Word
        BY <1>1, <3>1
      <4>3. k * Word \in Int
        BY <1>1, <3>1
      <4>4. (k * Word) % Word = 0
        BY <1>1, <3>1, ModMultiple
      <4> QED BY <1>1, <3>1, <4>1, <4>2, <4>3, <4>4
    <3>3. (LogStart + k * Word) % Word = 0 /\ (LogStart - k * Word) % Word = 0
      <4>1. LogStart \in Int
        BY <3>1
      <4> QED BY <1>1, <3>1, <3>2, <4>1, ModAdd
    <3>4. LogStart + k * Word \in Low .. High - 1
      BY <1>1, <3>1, <3>2
    <3>5. IsWord(Newest) /\ Newest \in Int
      BY <3>1, <3>2, <3>3, <3>4 DEF Newest, k, IsWord
    <3>6. [addr |-> Newest, y |-> 0] \in [addr : Int, y : Signed]
      BY <1>1, <3>5
    <3> QED BY <3>5, <3>6, WordPlace, MaxLoose DEF CursorAt
  <2> QED BY <2>1, <2>2 DEF View, CursorAt
<1>3. CASE bdNo \in BackPage
  <2>1. /\ back' = [back EXCEPT ![bdNo] = At] /\ storedAddress' = storedAddress
        /\ astray' = astray
    BY <1>3 DEF View
  <2>2. back' \in [BackPage -> Place]
        /\ \A p \in BackPage : back'[p] = IF p = bdNo THEN At ELSE back[p]
    BY <1>1, <1>3, <2>1, LogFacts
  <2>3. TrailOK' /\ (~astray' => LogOK')
    BY <1>1, <2>1, <2>2, LogFacts DEF TrailOK, LogOK
  <2>4. decode' \in [Page -> Place] /\ DecoderOnPage'
        /\ \A p \in Page : decode'[p].addr > Low - Word
    BY <1>1, <1>2, <2>1, ToKeeps
  <2> QED BY <1>1, <2>1, <2>2, <2>3, <2>4, LogFacts, LogKeepsInv
<1>4. CASE bdNo \notin BackPage
  <2>1. /\ \E g \in [BackPage -> Garbage] :
             back' = [p \in BackPage |-> [back[p] EXCEPT !.y = ToChar(g[p])]]
        /\ \E a \in Garbage : storedAddress' = [storedAddress EXCEPT ![0] = a]
        /\ astray' = TRUE
    BY <1>4 DEF View
  <2>2. back' \in [BackPage -> Place]
    <3>1. PICK g \in [BackPage -> Garbage] :
            back' = [p \in BackPage |-> [back[p] EXCEPT !.y = ToChar(g[p])]]
      BY <2>1
    <3>2. \A p \in BackPage : g[p] \in Int /\ back[p] \in Place
      <4>1. Garbage \subseteq Nat
        BY DecoderAssumption
      <4>2. back \in [BackPage -> Place]
        BY LogFacts
      <4> QED BY <3>1, <4>1, <4>2
    <3>3. \A p \in BackPage : ToChar(g[p]) \in Signed
      BY <3>2, CharRange
    <3>4. \A p \in BackPage : [back[p] EXCEPT !.y = ToChar(g[p])] \in Place
      BY <3>2, <3>3 DEF Place
    <3> QED BY <3>1, <3>4
  <2>3. storedAddress' \in [Entry -> Nat]
    BY <2>1, LogFacts, DecoderAssumption
  <2>4. TrailOK' /\ (~astray' => LogOK')
    BY <1>1, <2>1, LogFacts DEF TrailOK
  <2>5. decode' \in [Page -> Place] /\ DecoderOnPage'
        /\ \A p \in Page : decode'[p].addr > Low - Word
    BY <1>1, <1>2, <2>1, ToKeeps
  <2> QED BY <1>1, <2>1, <2>2, <2>3, <2>4, <2>5, LogFacts, LogKeepsInv
<1> QED BY <1>3, <1>4

LEMMA ViewBackKeepsInv ==
  ASSUME Inv, ViewBack,
         UNCHANGED <<browserVars, flipme, logcounter, trail, markVars, resultVars, tools>>
  PROVE  Inv'
<1>1. /\ storedAddress' = storedAddress /\ back' = back /\ logcounter' = logcounter
      /\ trail' = trail /\ astray \in BOOLEAN /\ Low \in Nat /\ Word \in Nat \ {0}
  BY InvFacts, Sizes DEF ViewBack
<1>2. PICK pos : /\ To(pos) /\ Loose(pos) /\ astray' \in BOOLEAN /\ (astray => astray')
                 /\ (~astray' => OnPage(pos))
  <2>1. CASE bdNo \in BackPage
    <3>1. back[bdNo] \in Place /\ back[bdNo] \in [addr : Int, y : Signed]
          /\ (~astray => back[bdNo] = [addr |-> 0, y |-> 0] \/ OnPage(back[bdNo]))
      BY <2>1, LogFacts DEF Place
    <3>2. OnPage(back[bdNo]) => OnPage(decodeMAX(back[bdNo]))
      BY <3>1, Ends, Sizes DEF decodeMAX, OnPage
    <3>3. back[bdNo] = [addr |-> 0, y |-> 0] => OnPage(decodeMAX(back[bdNo]))
      BY WordPlace DEF CursorAt
    <3> QED BY <1>1, <2>1, <3>1, <3>2, <3>3, MaxLoose DEF ViewBack, WayBack
  <2>2. CASE bdNo \notin BackPage
    <3>1. PICK a \in Garbage, y \in Garbage : To(decodeMAX([addr |-> a, y |-> ToChar(y)]))
      BY <2>2 DEF ViewBack
    <3>2. a \in Int /\ y \in Int
      BY DecoderAssumption
    <3>3. [addr |-> a, y |-> ToChar(y)] \in [addr : Int, y : Signed]
      BY <3>2, CharRange
    <3>4. astray' = TRUE
      BY <2>2 DEF ViewBack
    <3> QED BY <3>1, <3>3, <3>4, MaxLoose
  <2> QED BY <2>1, <2>2
<1>3. decode' \in [Page -> Place] /\ DecoderOnPage'
      /\ \A p \in Page : decode'[p].addr > Low - Word
  BY <1>2, ToKeeps
<1>4. TrailOK' /\ (~astray' => LogOK')
  BY <1>1, <1>2, LogFacts DEF TrailOK, LogOK
<1> QED BY <1>1, <1>2, <1>3, <1>4, LogFacts, LogKeepsInv

LEMMA ViewLogKeepsInv ==
  ASSUME Inv, ViewLog
  PROVE  Inv'
<1>1. UNCHANGED <<browserVars, flipme, logcounter, trail, markVars, resultVars, tools>>
  BY DEF ViewLog, Using
<1>2. View \/ ViewBack
  BY DEF ViewLog
<1> QED BY <1>1, <1>2, ViewKeepsInv, ViewBackKeepsInv

LEMMA ClearLogKeepsInv ==
  ASSUME Inv, ClearLog
  PROVE  Inv'
<1>1. /\ logcounter' = 0 /\ trail' = <<>> /\ back' = back /\ decode' = decode
      /\ astray' = astray /\ astray \in BOOLEAN
      /\ UNCHANGED <<browserVars, flipme, markVars, resultVars, tools>>
  BY InvFacts DEF ClearLog, Using
<1>2. /\ Low \in Nat /\ High \in Nat /\ Low < High /\ Low % Word = 0 /\ JumpLog \in Nat
  BY Sizes, Ends, AlignedAssumption
<1>3. /\ storedAddress' \in [Entry -> Nat]
      /\ \A i \in Entry : storedAddress'[i] = 0 \/ storedAddress'[i] = Low
  BY <1>2 DEF ClearLog, Cleared
<1>4. TrailOK'
  BY <1>1, <1>2 DEF TrailOK
<1>5. ~astray' => LogOK'
  <2>1. IsWord(Low)
    BY <1>2 DEF IsWord
  <2>2. \A i \in Entry : storedAddress'[i] = 0 \/ IsWord(storedAddress'[i])
    BY <1>3, <2>1
  <2>3. ~astray => \A p \in BackPage : back[p] = [addr |-> 0, y |-> 0] \/ OnPage(back[p])
    BY LogFacts
  <2> QED BY <1>1, <2>2, <2>3 DEF LogOK
<1>6. /\ decode' \in [Page -> Place] /\ DecoderOnPage'
      /\ \A p \in Page : decode'[p].addr > Low - Word
  BY <1>1 DEF Inv, TypeOK, DecoderOnPage
<1>7. trail' \in Seq(Nat) /\ logcounter' \in 0 .. JumpLog + 1 /\ back' \in [BackPage -> Place]
  BY <1>1, <1>2, LogFacts
<1> QED BY <1>1, <1>3, <1>4, <1>5, <1>6, <1>7, LogKeepsInv

LEMMA MarkKeepsInv ==
  ASSUME Inv, Mark
  PROVE  Inv'
<1>1. /\ bdNo' = bdNo /\ browseLines' = browseLines /\ browse' = browse /\ stale' = stale
      /\ logcounter' = logcounter /\ storedAddress' = storedAddress /\ trail' = trail
      /\ back' = back /\ tools' = tools /\ astray' = astray /\ flipme' = flipme
      /\ decode' = decode /\ searchjumpNo' = searchjumpNo /\ shownResults' = shownResults
  BY DEF Mark, Using, browserVars, logVars, resultVars
<1>2. Cursor(At) \in Nat /\ (~astray => IsWord(Cursor(At)))
  BY InvFacts, RowLoose, CursorWord
<1>3. copyStartFlag \in Nat /\ copyEndFlag \in Nat /\ copyToggle \in BOOLEAN /\ MarksOrdered
  BY DEF Inv, TypeOK
<1>4. /\ copyStartFlag' \in Nat /\ copyEndFlag' \in Nat /\ copyToggle' \in BOOLEAN
      /\ MarksOrdered'
  <2> DEFINE c == Cursor(At)
  <2> HIDE DEF c
  <2>0. c \in Nat /\ (~astray => IsWord(c))
    BY <1>2 DEF c
  <2>1. CASE copyStartFlag' = c /\ copyEndFlag' = c /\ copyToggle' = TRUE
    BY <1>1, <2>0, <2>1 DEF MarksOrdered
  <2>2. CASE copyEndFlag' = c /\ copyToggle' = FALSE /\ c > copyStartFlag
             /\ copyStartFlag' = copyStartFlag
    <3>1. copyStartFlag <= c /\ (~astray => IsWord(copyStartFlag))
      BY <1>3, <2>0, <2>2 DEF MarksOrdered
    <3> QED BY <1>1, <1>3, <2>0, <2>2, <3>1 DEF MarksOrdered
  <2>3. CASE copyStartFlag' = c /\ c < copyStartFlag /\ UNCHANGED <<copyEndFlag, copyToggle>>
    BY <1>1, <1>3, <2>0, <2>3 DEF MarksOrdered
  <2> QED BY <2>1, <2>2, <2>3 DEF Mark, MarkEndLater, c
<1>5. TypeOK' /\ BrowserInv' /\ DecoderOnPage'
  BY <1>1, <1>4
  DEF Inv, TypeOK, BrowserInv, BrowserTypeOK, PagesFit, Fits, DecoderOnPage
<1>6. TrailOK' /\ (~astray' => LogOK') /\ \A p \in Page : decode'[p].addr > Low - Word
  BY <1>1 DEF Inv, TrailOK, LogOK
<1> QED BY <1>4, <1>5, <1>6 DEF Inv

-----------------------------------------------------------------------------
(* Every step keeps the invariant.                                         *)
LEMMA OthersKeepInv ==
  ASSUME Inv, NewListing \/ CopyResult \/ Flip \/ UNCHANGED vars
  PROVE  Inv'
<1>1. /\ UNCHANGED <<browserVars, logVars, back, markVars, tools>> /\ decode' = decode
      /\ astray' = astray /\ astray \in BOOLEAN /\ flipme' \in BOOLEAN
  BY InvFacts DEF NewListing, CopyResult, Flip, Using, vars, decoderVars, Inv, TypeOK
<1>2. searchjumpNo' \in 0 .. MaxNo /\ shownResults' \in 0 .. searchResultMax
  BY ResultsTyped DEF NewListing, CopyResult, Flip, vars, decoderVars, resultVars
<1>3. decode' \in [Page -> Place] /\ DecoderOnPage'
      /\ \A p \in Page : decode'[p].addr > Low - Word
  BY <1>1 DEF Inv, TypeOK, DecoderOnPage
<1> QED BY <1>1, <1>2, <1>3, DecodeKeepsInv

LEMMA PageKeepsInv ==
  ASSUME Inv, Editor \/ Option \/ TurnPage
  PROVE  Inv'
<1>1. UNCHANGED <<decoderVars, astray, tools, flipme>>
  BY DEF Editor, Option, TurnPage, Using
<1>2. PICK a \in Int : BrowserInput \/ BrowseTo(a) \/ OptionLines \/ NextPage \/ PreviousPage
  <2>1. CASE Editor /\ ~BrowserInput
    <3>1. PICK a \in Target \cup {copyStartFlag, copyEndFlag, Newest} : BrowseTo(a)
      BY <2>1 DEF Editor
    <3>2. Target \subseteq Int
      BY Sizes DEF Target
    <3>3. copyStartFlag \in Int /\ copyEndFlag \in Int
      BY DEF Inv, TypeOK
    <3>4. Newest \in Int
      <4>1. logcounter - 1 \in Int /\ Word \in Int /\ LogStart \in Int
        BY LogFacts, Sizes
      <4> QED BY <4>1 DEF Newest
    <3> QED BY <3>1, <3>2, <3>3, <3>4
  <2>2. CASE BrowserInput \/ OptionLines \/ NextPage \/ PreviousPage
    BY <2>2
  <2> QED BY <2>1, <2>2 DEF Option, TurnPage
<1>3. BrowserInv'
  BY <1>2, BrowserKeepsInv DEF Inv
<1> QED BY <1>1, <1>3, EditorKeepsInv

LEMMA NextKeepsInv ==
  ASSUME Inv, [Next]_vars
  PROVE  Inv'
<1>1. CASE Editor \/ Option \/ TurnPage
  BY <1>1, PageKeepsInv
<1>2. CASE NewListing \/ CopyResult \/ Flip \/ UNCHANGED vars
  BY <1>2, OthersKeepInv
<1>3. CASE Move
  BY <1>3, MoveKeepsInv
<1>4. CASE EditDigit
  BY <1>4, EditDigitKeepsInv
<1>5. CASE Paste
  BY <1>5, PasteKeepsInv
<1>6. CASE Jump
  BY <1>6, JumpKeepsInv
<1>7. CASE Return
  BY <1>7, ReturnKeepsInv
<1>8. CASE ViewLog
  BY <1>8, ViewLogKeepsInv
<1>9. CASE ClearLog
  BY <1>9, ClearLogKeepsInv
<1>10. CASE Mark
  BY <1>10, MarkKeepsInv
<1>11. CASE GoToMark
  BY <1>11, GoToMarkKeepsInv
<1>12. CASE \E d \in Directions : ResultJump(d)
  BY <1>12, ResultJumpKeepsInv
<1> QED BY <1>1, <1>2, <1>3, <1>4, <1>5, <1>6, <1>7, <1>8, <1>9, <1>10, <1>11, <1>12 DEF Next

LEMMA InvariantHolds == Spec => []Inv
<1>1. Init => Inv
  BY InitInv
<1>2. Inv /\ [Next]_vars => Inv'
  BY NextKeepsInv
<1> QED BY <1>1, <1>2, PTL DEF Spec

-----------------------------------------------------------------------------
(* In tab 3 every page number, address, cursor, counter and mark stays in  *)
(* its range, whatever the user presses.                                   *)
THEOREM TypeCorrect == Spec => []TypeOK
<1>1. Inv => TypeOK
  BY DEF Inv
<1> QED BY <1>1, InvariantHolds, PTL

(* A page of the editor is memory, and its cursor in its field, unless the *)
(* width was changed on another page (the SELECT and option handlers).     *)
THEOREM PagesStayInMemory == Spec => []PagesFit
<1>1. Inv => PagesFit
  BY DEF Inv, BrowserInv
<1> QED BY <1>1, InvariantHolds, PTL

(* So the byte that typing on such a page edits is a byte of the game's    *)
(* memory, rows wide or narrow.  A value that is pasted there goes to the  *)
(* same byte with wide rows; with narrow ones it goes as much further as   *)
(* the rows above the cursor are short of wide ones, which from the last   *)
(* pages is beyond the memory.                                             *)
THEOREM EditedByteInMemory == Spec => []EditsInMemory
<1>1. Inv => EditsInMemory
  BY FittingByte, PastedBelow DEF Inv, EditsInMemory
<1> QED BY <1>1, InvariantHolds, PTL

(* Every page of the decoder is aligned words of the memory and its cursor *)
(* is in a row of it, unless an unchecked result, a digit beyond a char's  *)
(* reach or the fifth page's log led astray.                               *)
THEOREM DecoderStaysOnPage == Spec => []DecoderOnPage
<1>1. Inv => DecoderOnPage
  BY DEF Inv
<1> QED BY <1>1, InvariantHolds, PTL

(* SQUARE's way back: after any jumps, resumptions, full logs and clears   *)
(* it leads to the place that was left last.                               *)
THEOREM ReturnLeadsBack == Spec => []ReturnsInOrder
<1>1. ASSUME Inv PROVE ReturnsInOrder
  <2>1. Len(trail) = logcounter
    BY <1>1, LogFacts
  <2>2. ASSUME ~astray, logcounter > 0
        PROVE  Cursor(ReturnPlace) = trail[logcounter]
    <3>1. logcounter - 1 \in Entry /\ logcounter \in 1 .. logcounter
      BY <1>1, <2>2, LogFacts DEF Entry
    <3>2. /\ storedAddress[logcounter - 1] = 0 \/ IsWord(storedAddress[logcounter - 1])
          /\ trail[logcounter] = AtLeast(storedAddress[logcounter - 1], Low)
      BY <1>1, <2>2, <3>1, LogFacts
    <3> QED BY <3>2, WordPlace DEF ReturnPlace
  <2> QED BY <2>1, <2>2 DEF ReturnsInOrder
<1> QED BY <1>1, InvariantHolds, PTL

(* NOTE keeps the marks in order, as the copying between them needs.       *)
THEOREM MarksStayOrdered == Spec => []MarksOrdered
<1>1. Inv => MarksOrdered
  BY DEF Inv
<1> QED BY <1>1, InvariantHolds, PTL

(* A digit that goes up moves the cursor by what it counts, also where the *)
(* page ends with the memory and the row makes up for it.                  *)
THEOREM DigitsMoveCursor == Spec => []DigitMovesCursor
<1>1. ASSUME Inv PROVE DigitMovesCursor
  <2>1. \A p \in Page : decode[p] \in Place
    BY <1>1, InvFacts
  <2> QED BY <2>1, DigitUpMoves DEF DigitMovesCursor
<1> QED BY <1>1, InvariantHolds, PTL

=============================================================================
