------------------------------ MODULE Browser ------------------------------
(***************************************************************************)
(* The memory editor of MKIJIRO's tab 3 (src/objects/crt0_prx.c): 26 rows  *)
(* of 8 or 16 bytes of the game's memory, a cursor that is on the address, *)
(* on a digit or on a character, and five such pages of which one is       *)
(* shown.  The width of the rows is one for all pages; the addresses and   *)
(* the cursors are each page's own.                                        *)
(*                                                                         *)
(* Buttons held together are handled one after the other by the loop, and  *)
(* nothing happens in between: each is an action here.  Whether the mode   *)
(* for editing is on (extSelected[3]), which other tabs set too, is left   *)
(* open, and so are the bytes; what is edited is where the cursor is.      *)
(***************************************************************************)
EXTENDS Integers

CONSTANTS
  Pages,        \* pages: 5
  Rows,         \* rows of a page: 26
  Low, High,    \* the game's memory is Low .. High - 1
  Narrow, Wide, \* bytes of a row: 8 or 16
  Digits,       \* digits of an address: 8
  Weight,       \* what a digit of an address counts, 16^(7-i)
  Stick,        \* how far the analog stick may be off its middle
  StickBytes    \* how far that moves a page of the editor: 64 bytes each

ASSUME BrowserAssumption ==
  /\ Pages \in Nat \ {0} /\ Rows \in Nat \ {0} /\ Digits \in Nat \ {0}
  /\ Low \in Nat /\ High \in Nat
  /\ Narrow \in Nat \ {0} /\ Wide \in Nat /\ Narrow < Wide
  /\ Low + Rows * Wide <= High
  /\ Weight \in [0 .. Digits - 1 -> Nat]
  /\ Stick \subseteq Int /\ StickBytes \in Nat

Page == 0 .. Pages - 1
Position == [addr : Low .. High, y : 0 .. Rows - 1, c : 0 .. 2, x : Nat]
Column == 0 .. Digits - 1

VARIABLES
  bdNo,         \* the page that is shown
  browseLines,  \* the bytes of a row
  browse,       \* each page's browseAddress, browseY, browseC and browseX
  stale         \* history: pages not touched by the last change of the width

browserVars == <<bdNo, browseLines, browse, stale>>

BrowserInit ==
  /\ bdNo = 0
  /\ browseLines \in {Narrow, Wide}
  /\ browse = [p \in Page |-> [addr |-> Low, y |-> 0, c |-> 0, x |-> 0]]
  /\ stale = {}

-----------------------------------------------------------------------------
(* Where a page may begin, so that all its rows are memory.                *)
LastStart(lines) == High - Rows * lines

browseMAX(a, lines) ==
  IF a < Low THEN Low ELSE IF a > LastStart(lines) THEN LastStart(lines) ELSE a

(* The last column of the address, the digits and the characters.          *)
LastColumn(c, lines) ==
  IF c = 0 THEN Digits - 1 ELSE IF c = 1 THEN 2 * lines - 1 ELSE lines - 1

Here == browse[bdNo]
Moved(a) == browse' = [browse EXCEPT ![bdNo].addr = browseMAX(a, browseLines)]
Turned(pos) == browse' = [browse EXCEPT ![bdNo] = pos]

-----------------------------------------------------------------------------
(* The width changes.  SELECT goes to the row's beginning and, for a wider *)
(* row, looks at the address; the option goes to the page's beginning.     *)
(* The other pages stay as they are.                                       *)
OtherWidth == IF browseLines = Narrow THEN Wide ELSE Narrow

\* Fault for the checks: a wider row is not looked at.
SelectedNoMax == [Here EXCEPT !.x = 0]
Selected ==
  [Here EXCEPT !.x = 0,
               !.addr = IF OtherWidth = Wide THEN browseMAX(@, Wide) ELSE @]

ChangeLines(pos) ==
  /\ browseLines' = OtherWidth
  /\ Turned(pos)
  /\ stale' = Page \ {bdNo}
  /\ UNCHANGED bdNo
SelectLines == ChangeLines(Selected)
OptionLines ==
  ChangeLines([addr |-> browseMAX(Here.addr, OtherWidth), y |-> 0, c |-> 0, x |-> 0])

(* LEFT and RIGHT go through the three fields.                             *)
Left ==
  /\ Turned(IF Here.x > 0 THEN [Here EXCEPT !.x = @ - 1]
            ELSE IF Here.c = 0 THEN Here
            ELSE [Here EXCEPT !.c = @ - 1, !.x = LastColumn(Here.c - 1, browseLines)])
  /\ UNCHANGED <<bdNo, browseLines, stale>>
Right ==
  /\ Turned(IF Here.x + 1 <= LastColumn(Here.c, browseLines) THEN [Here EXCEPT !.x = @ + 1]
            ELSE IF Here.c < 2 THEN [Here EXCEPT !.c = @ + 1, !.x = 0]
            ELSE [Here EXCEPT !.x = LastColumn(2, browseLines)])
  /\ UNCHANGED <<bdNo, browseLines, stale>>

(* SQUARE goes from a digit to its character and back.                     *)
DigitOrChar ==
  /\ Here.c # 0
  /\ Turned(IF Here.c = 1 THEN [Here EXCEPT !.c = 2, !.x = @ \div 2]
            ELSE [Here EXCEPT !.c = 1, !.x = 2 * @ + 1])
  /\ UNCHANGED <<bdNo, browseLines, stale>>

(* UP and DOWN while editing: a digit of the address (bytes are left out). *)
EditAddress ==
  /\ Here.c = 0
  /\ \E by \in {Weight[Here.x], -Weight[Here.x]} : Moved(Here.addr + by)
  /\ UNCHANGED <<bdNo, browseLines, stale>>

(* UP and DOWN else: the cursor, and at the page's edge the page; with     *)
(* SQUARE held the page, by a row or as far as the stick says.             *)
Scroll ==
  /\ \E by \in {browseLines, -browseLines} \cup {k * StickBytes : k \in Stick} :
       Moved(Here.addr + by)
  /\ UNCHANGED <<bdNo, browseLines, stale>>
Up ==
  /\ IF Here.y > 0 THEN Turned([Here EXCEPT !.y = @ - 1])
     ELSE Moved(Here.addr - browseLines)
  /\ UNCHANGED <<bdNo, browseLines, stale>>
Down ==
  /\ IF Here.y < Rows - 1 THEN Turned([Here EXCEPT !.y = @ + 1])
     ELSE Moved(Here.addr + browseLines)
  /\ UNCHANGED <<bdNo, browseLines, stale>>

(* The copy menu takes the page to a mark, to what was copied or to the    *)
(* log, wherever these are.                                                *)
BrowseTo(a) ==
  /\ Moved(a)
  /\ UNCHANGED <<bdNo, browseLines, stale>>

(* The volume buttons, for either view.                                    *)
NextPage ==
  /\ bdNo < Pages - 1
  /\ bdNo' = bdNo + 1
  /\ UNCHANGED <<browseLines, browse, stale>>
PreviousPage ==
  /\ bdNo > 0
  /\ bdNo' = bdNo - 1
  /\ UNCHANGED <<browseLines, browse, stale>>

BrowserInput ==
  SelectLines \/ Left \/ Right \/ DigitOrChar \/ EditAddress \/ Scroll \/ Up \/ Down

-----------------------------------------------------------------------------
BrowserTypeOK ==
  /\ bdNo \in Page
  /\ browseLines \in {Narrow, Wide}
  /\ browse \in [Page -> Position]
  /\ stale \subseteq Page

(* The page's rows are memory and its cursor is in its field.              *)
Fits(p) ==
  /\ browse[p].addr \in Low .. LastStart(browseLines)
  /\ browse[p].x \in 0 .. LastColumn(browse[p].c, browseLines)

(* A page always fits the rows unless their width was changed on another   *)
(* page since: then it may reach beyond the memory (wider rows), or its    *)
(* cursor beyond the row's end (narrower ones).                            *)
PagesFit == \A p \in Page \ stale : Fits(p)

(* What makes it so.                                                       *)
BrowserInv ==
  /\ BrowserTypeOK /\ PagesFit
  /\ \A p \in Page : /\ browse[p].addr <= LastStart(Narrow)
                     /\ browse[p].c = 0 => browse[p].x \in Column

(* The byte of its row that the cursor is on (on an address, the first).   *)
InRow(pos) == IF pos.c = 1 THEN pos.x \div 2 ELSE IF pos.c = 2 THEN pos.x ELSE 0

(* UP and DOWN edit that byte.  A value that the copy menu copies or       *)
(* pastes is elsewhere where rows are narrow: there a row always counts as *)
(* a wide one.                                                             *)
TypedByte(pos) == pos.addr + pos.y * browseLines + InRow(pos)
PastedByte(pos) == pos.addr + pos.y * Wide + InRow(pos)

(* What is typed changes a byte of the memory, whatever the width; what is *)
(* pasted does with wide rows, and with narrow ones it may be beyond the   *)
(* memory's end, by what the rows above the cursor fall short.             *)
EditsInMemory ==
  \A p \in Page \ stale :
    LET short == browse[p].y * (Wide - browseLines)
    IN /\ TypedByte(browse[p]) \in Low .. High - 1
       /\ PastedByte(browse[p]) = TypedByte(browse[p]) + short
       /\ browseLines = Wide => short = 0
       /\ short <= (Rows - 1) * (Wide - browseLines)

=============================================================================
